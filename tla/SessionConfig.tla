--------------------------- MODULE SessionConfig ---------------------------
(***************************************************************************)
(* How one device's libspdm context gets its configuration: the version    *)
(* that initialize() pins and the parameters it sets without looking at    *)
(* the result, the parameters applySecureSessionConfig sets and checks one *)
(* by one, what the connection then negotiates, and the root certificate   *)
(* installPeerRootCert adds to libspdm's table when a session is opened.   *)
(*                                                                         *)
(* The daemon goes through these steps again and again: the context is     *)
(* replaced at every re-processing, the connection is renegotiated at      *)
(* every measurement, sessions open and close with the policy.  A device   *)
(* may answer the next negotiation differently than the last (a firmware   *)
(* update), and any libspdm call may fail.                                 *)
(***************************************************************************)
EXTENDS Naturals, Sequences

CONSTANTS
    Versions,       \* SPDM versions libspdm supports, 11 for 1.1
    DefaultVersion, \* SpdmTransport::useVersion of a new transport
    Algorithms,     \* the base_asym_algo values of supportAsymAlgo
    NoAlgorithm,    \* base_asym_algo of a context without a connection
    NoAnchor,       \* the configuration names no peer root certificate
    RootSlots       \* size of libspdm's table of peer root certificates

ASSUME VersionsAssumption ==
    Versions \subseteq 1 .. 255 /\ DefaultVersion \in Versions
ASSUME AlgorithmsAssumption ==
    Algorithms \cap {NoAlgorithm, NoAnchor, "blob", "path", "failed"} = {}
ASSUME AnchorAssumption ==
    /\ NoAlgorithm \notin {NoAnchor, "blob", "path", "failed"}
    /\ NoAnchor \notin {"blob", "path", "failed"}
ASSUME RootSlotsAssumption == RootSlots \in Nat

VARIABLES
    cfg,            \* the SecureSessionConfig
    files,          \* certificate files that can be read
    device,         \* versions the device supports and algorithm it selects
    useVersion,     \* SpdmTransport::useVersion
    stage,          \* how far the context has come
    next,           \* index of the parameter applied next
    local,          \* which parameters of the context have the cfg's value
    refused,        \* parameters of the transport libspdm did not take
    pinned,         \* LIBSPDM_DATA_SPDM_VERSION, 0: the library's own list
    connection,     \* what was negotiated
    rootCerts,      \* libspdm's table of peer root certificates
    session         \* a session is open

contextVars == <<stage, next, local, refused, pinned, connection, rootCerts, session>>
vars == <<cfg, files, device, useVersion, contextVars>>

(* applySecureSessionConfig sets, in this order, 1: SPDM_VERSION,           *)
(* 2: CAPABILITY_FLAGS, 3: DHE_NAME_GROUP, 4: AEAD_CIPHER_SUITE,            *)
(* 5: REQ_BASE_ASYM_ALG, 6: KEY_SCHEDULE, 7: OTHER_PARAMS_SUPPORT.          *)
Last == 7

(* configureContext sets these of its transport, and drops the results.    *)
TransportParameters == {"ctExponent", "measurementSpec", "baseAsymAlgo", "baseHashAlgo"}

(* version 0: do not pin; der, path, baseDir: the member is not empty. *)
Config ==
    [version : {0} \cup Versions, der : BOOLEAN, path : BOOLEAN, baseDir : BOOLEAN]

(* A certificate is named by where it comes from; below peerRootCertBaseDir *)
(* there is one per algorithm.                                              *)
Anchor == {"blob", "path"} \cup Algorithms

Connection == [version : {0} \cup Versions, algorithm : {NoAlgorithm} \cup Algorithms]
NoConnection == [version |-> 0, algorithm |-> NoAlgorithm]

TypeOK ==
    /\ cfg \in Config
    /\ files \subseteq {"path"} \cup Algorithms
    /\ device \in [versions : SUBSET Versions, algorithm : Algorithms]
    /\ useVersion \in Versions
    /\ stage \in {"none", "applying", "failed", "configured"}
    /\ next \in 1 .. Last + 1
    /\ local \subseteq 1 .. Last
    /\ refused \subseteq TransportParameters
    /\ pinned \in {0} \cup Versions
    /\ connection \in Connection
    /\ rootCerts \in Seq(Anchor) /\ Len(rootCerts) <= RootSlots
    /\ session \in BOOLEAN

Init ==
    /\ cfg \in Config
    /\ files \in SUBSET ({"path"} \cup Algorithms)
    /\ device \in [versions : SUBSET Versions, algorithm : Algorithms]
    /\ useVersion = DefaultVersion
    /\ stage = "none" /\ next = 1 /\ local = {} /\ refused = {}
    /\ pinned = 0
    /\ connection = NoConnection
    /\ rootCerts = <<>>
    /\ session = FALSE

-----------------------------------------------------------------------------
(* The certificate a configuration means for an algorithm: the first       *)
(* source it names.  Below baseDir, asymAlgoSubdir has a directory for     *)
(* every algorithm.                                                        *)
Designated(c, algorithm) ==
    IF c.der THEN "blob"
    ELSE IF c.path THEN "path"
    ELSE IF c.baseDir THEN algorithm
    ELSE NoAnchor

(* loadPeerRootCert: a source that cannot be read is not replaced by the   *)
(* next one.  "failed" is the error of a configured source, NoAnchor the   *)
(* success without any.                                                    *)
Resolve(c, readable, algorithm) ==
    LET root == Designated(c, algorithm)
    IN  IF root \in {"blob", NoAnchor} \cup readable THEN root ELSE "failed"

(* The versions both sides support, and the one libspdm picks. *)
Mutual(versions) == IF pinned = 0 THEN versions ELSE versions \cap {pinned}
Highest(S) == CHOOSE v \in S : \A w \in S : w <= v

-----------------------------------------------------------------------------
(* Variants: each is a definition below with a plausible mistake in it,    *)
(* kept to show which property would notice the mistake.                   *)

(* The last parameter is set as configureContext does, without a check. *)
ApplyParameterGoesOn ==
    /\ stage = "applying" /\ next \in 2 .. Last
    /\ next' = next + 1
    /\ local' = local \cup {next} \/ (next = Last /\ local' = local)
    /\ UNCHANGED <<cfg, files, device, useVersion, stage, refused, pinned,
                   connection, rootCerts, session>>

(* applyVersionConfig without its early return: version 0 is set as well. *)
ApplyVersionZero ==
    /\ stage = "applying" /\ next = 1
    /\ next' = 2 /\ local' = local \cup {1}
    /\ pinned' = cfg.version /\ useVersion' = cfg.version
    /\ UNCHANGED <<cfg, files, device, stage, refused, connection, rootCerts, session>>

(* The certificate is loaded for the first session of a context only. *)
OpenSessionKeepsAnchor ==
    /\ stage = "configured" /\ ~session
    /\ LET root == Resolve(cfg, files, connection.algorithm)
       IN  /\ root # "failed"
           /\ rootCerts' = IF root = NoAnchor \/ rootCerts # <<>> THEN rootCerts
                           ELSE <<root>>
    /\ session' = (connection # NoConnection) \/ session' = FALSE
    /\ UNCHANGED <<cfg, files, device, useVersion, stage, next, local, refused,
                   pinned, connection>>

(* A pinned version remembered by the transport but not set in the context. *)
ApplyVersionOnlyRemembered ==
    /\ stage = "applying" /\ next = 1
    /\ next' = 2 /\ local' = local \cup {1}
    /\ useVersion' = (IF cfg.version = 0 THEN useVersion ELSE cfg.version)
    /\ UNCHANGED <<cfg, files, device, stage, refused, pinned, connection,
                   rootCerts, session>>

-----------------------------------------------------------------------------
(* initialize(): a new context, in which configureContext sets useVersion  *)
(* and the parameters of the transport; any of these calls may fail, and   *)
(* nobody looks.                                                           *)
Initialize ==
    /\ stage' = "applying" /\ next' = 1 /\ local' = {}
    /\ pinned' \in {0, useVersion}
    /\ refused' \in SUBSET TransportParameters
    /\ connection' = NoConnection
    /\ rootCerts' = <<>>
    /\ session' = FALSE
    /\ UNCHANGED <<cfg, files, device, useVersion>>

(* applyVersionConfig, the first parameter. *)
ApplyVersion ==
    /\ stage = "applying" /\ next = 1
    /\ next' = 2
    /\ local' = local \cup {1}
    /\ IF cfg.version = 0 THEN UNCHANGED <<pinned, useVersion>>
       ELSE pinned' = cfg.version /\ useVersion' = cfg.version
    /\ UNCHANGED <<cfg, files, device, stage, refused, connection, rootCerts, session>>

(* setDataAndCheck of the others. *)
ApplyParameter ==
    /\ stage = "applying" /\ next \in 2 .. Last
    /\ next' = next + 1
    /\ local' = local \cup {next}
    /\ UNCHANGED <<cfg, files, device, useVersion, stage, refused, pinned,
                   connection, rootCerts, session>>

(* One of them fails, or libspdm_check_context does: the daemon leaves the *)
(* device alone until it is processed again.                               *)
ApplyFails ==
    /\ stage = "applying"
    /\ next = 1 => cfg.version # 0
    /\ stage' = "failed"
    /\ UNCHANGED <<cfg, files, device, useVersion, next, local, refused, pinned,
                   connection, rootCerts, session>>

(* libspdm_check_context is true. *)
CheckContext ==
    /\ stage = "applying" /\ next = Last + 1
    /\ stage' = "configured"
    /\ UNCHANGED <<cfg, files, device, useVersion, next, local, refused, pinned,
                   connection, rootCerts, session>>

(* libspdm_init_connection, of the constructor or of a measurement: the    *)
(* context is reset, then version and algorithm are negotiated; a context  *)
(* that offers no algorithm is left without one.                           *)
Connect ==
    /\ stage = "configured"
    /\ connection' \in
        {NoConnection} \cup
        {[version |-> Highest(S),
          algorithm |-> IF "baseAsymAlgo" \in refused THEN NoAlgorithm
                        ELSE device.algorithm] :
            S \in {Mutual(device.versions)} \ {{}}}
    /\ session' = FALSE
    /\ UNCHANGED <<cfg, files, device, useVersion, stage, next, local, refused,
                   pinned, rootCerts>>

(* openSecureSession: installPeerRootCert, which adds the certificate to   *)
(* libspdm's table and fails when that is full, then SpdmSession::start,   *)
(* which may fail.                                                         *)
OpenSession ==
    /\ stage = "configured" /\ ~session
    /\ LET root == Resolve(cfg, files, connection.algorithm)
       IN  /\ root # "failed"
           /\ IF root = NoAnchor THEN UNCHANGED rootCerts
              ELSE Len(rootCerts) < RootSlots /\ rootCerts' = Append(rootCerts, root)
    /\ session' = (connection # NoConnection) \/ session' = FALSE
    /\ UNCHANGED <<cfg, files, device, useVersion, stage, next, local, refused,
                   pinned, connection>>

CloseSession ==
    /\ session
    /\ session' = FALSE
    /\ UNCHANGED <<cfg, files, device, useVersion, stage, next, local, refused,
                   pinned, connection, rootCerts>>

(* The device is updated, or replaced. *)
DeviceChanges ==
    /\ device' \in [versions : SUBSET Versions, algorithm : Algorithms]
    /\ UNCHANGED <<cfg, files, useVersion, contextVars>>

Next ==
    \/ Initialize \/ ApplyVersion \/ ApplyParameter \/ ApplyFails \/ CheckContext
    \/ Connect \/ OpenSession \/ CloseSession \/ DeviceChanges

Spec == Init /\ [][Next]_vars

-----------------------------------------------------------------------------
(* Properties. *)

(* No message leaves before the seven parameters of the SecureSessionConfig *)
(* have been accepted in the very context that sends it, however many      *)
(* contexts came before (applySecureSessionConfig).  The four parameters   *)
(* configureContext sets may be missing then, and nobody is told.          *)
ConnectedIsConfigured == connection # NoConnection => local = 1 .. Last

(* A pinned version is the one every connection uses, from the first       *)
(* context on, though a new transport starts with another.                 *)
PinnedVersionKept ==
    connection # NoConnection /\ cfg.version # 0 => connection.version = cfg.version

(* While a session is open, the certificate the configuration designates   *)
(* for the algorithm of its connection is among the root certificates of   *)
(* the context, whatever was negotiated before and after a context was     *)
(* replaced (installPeerRootCert, SpdmSession::start).  In particular a    *)
(* configuration by base directory opens no session on a connection        *)
(* without an algorithm.  Certificates of earlier sessions of the context  *)
(* stay in the table; nothing is said of them.                             *)
SessionTrusted ==
    LET root == Designated(cfg, connection.algorithm)
    IN  session /\ root # NoAnchor => \E i \in 1 .. Len(rootCerts) : rootCerts[i] = root

(* spdm_session_config.hpp:17 says of version: "0 = let libspdm negotiate  *)
(* the highest mutually supported version".                                *)
NegotiatesHighest ==
    [][stage = "configured" /\ cfg.version = 0 /\ connection' # NoConnection
            /\ connection' # connection =>
        connection'.version = Highest(device.versions)]_vars

-----------------------------------------------------------------------------
(* What libspdm sees of this module. *)
State ==
    CASE stage = "none" -> "none"
      [] stage \in {"applying", "failed"} -> "initialized"
      [] stage = "configured" ->
            IF connection = NoConnection THEN "configured" ELSE "negotiated"

Context == INSTANCE SpdmContext WITH state <- State

(* Whatever fails between two parameters and however often the context is  *)
(* replaced, it is used in the order libspdm asks for.                     *)
ConfigFollowsLifecycle == Context!Spec

=============================================================================
