------------------------- MODULE SessionConfigProofs -------------------------
(***************************************************************************)
(* Proofs about SessionConfig, for every set of versions and algorithms    *)
(* and every SecureSessionConfig.                                          *)
(***************************************************************************)
EXTENDS SessionConfig, WellFoundedInduction, TLAPS

(* How far the context has come decides what has been set in it, and only  *)
(* a context with everything set connects.                                 *)
Progress ==
    /\ stage \in {"applying", "configured"} => local = 1 .. next - 1
    /\ stage = "configured" => next = Last + 1
    /\ connection # NoConnection => stage = "configured"

(* Once the version has been applied it is pinned, as configured.          *)
VersionPinned ==
    stage \in {"applying", "configured"} /\ next > 1 /\ cfg.version # 0 =>
        pinned = cfg.version

CInv ==
    /\ TypeOK /\ Progress /\ VersionPinned
    /\ PinnedVersionKept /\ SessionTrusted

USE DEF contextVars, Last

-----------------------------------------------------------------------------
LEMMA Empty ==
    /\ NoConnection \in Connection /\ 1 \in 1 .. Last + 1
    /\ << >> \in Seq(Anchor) /\ Len(<< >>) <= RootSlots
<1>1. NoConnection \in Connection
  BY Zenon DEF NoConnection, Connection
<1>2. Len(<< >>) <= RootSlots
  BY RootSlotsAssumption
<1>. QED
  BY <1>1, <1>2

LEMMA InitCInv == Init => CInv
<1>. SUFFICES ASSUME Init PROVE CInv
  OBVIOUS
<1>1. TypeOK
  BY VersionsAssumption, Empty DEF Init, TypeOK
<1>. QED
  BY <1>1 DEF Init, CInv, Progress, VersionPinned, PinnedVersionKept, SessionTrusted

(* A source that can be read is the designated one, and one of those there *)
(* are.                                                                    *)
LEMMA ResolveNames ==
    ASSUME CInv, Resolve(cfg, files, connection.algorithm) # "failed"
    PROVE  /\ Resolve(cfg, files, connection.algorithm) = Designated(cfg, connection.algorithm)
           /\ Resolve(cfg, files, connection.algorithm) # NoAnchor =>
                Resolve(cfg, files, connection.algorithm) \in Anchor
<1>1. files \subseteq {"path"} \cup Algorithms
  BY DEF CInv, TypeOK
<1>. QED
  BY <1>1, Zenon DEF Resolve, Anchor

(* A certificate added to a table that is not full is in it.               *)
LEMMA Added ==
    ASSUME NEW s \in Seq(Anchor), Len(s) < RootSlots, NEW root \in Anchor
    PROVE  /\ Append(s, root) \in Seq(Anchor)
           /\ Len(Append(s, root)) <= RootSlots
           /\ \E i \in 1 .. Len(Append(s, root)) : Append(s, root)[i] = root
<1>1. Len(Append(s, root)) = Len(s) + 1 /\ Append(s, root)[Len(s) + 1] = root
  OBVIOUS
<1>2. Len(s) \in Nat
  OBVIOUS
<1>. QED
  BY <1>1, <1>2, RootSlotsAssumption

(* A version is a byte, so any set of them has a highest.                  *)
LEMMA HighestExists ==
    ASSUME NEW S, S \subseteq Versions, S # {}
    PROVE  Highest(S) \in S
<1>. DEFINE T == {n \in Nat : \E v \in S : n = 255 - v}
<1>1. \A v \in S : v \in 1 .. 255
  BY VersionsAssumption
<1>2. T \subseteq Nat /\ T # {}
  <2>1. PICK v \in S : TRUE
    OBVIOUS
  <2>2. 255 - v \in Nat
    BY <1>1
  <2>3. 255 - v \in T
    BY <2>2
  <2>. QED
    BY <2>3
<1>3. PICK n \in T : \A m \in T : ~ (<<m, n>> \in OpToRel(<, Nat))
  BY <1>2, WFMin, NatLessThanWellFounded
<1>4. PICK v \in S : n = 255 - v
  BY <1>3
<1>5. ASSUME NEW w \in S PROVE w <= v
  <2>1. 255 - w \in T
    BY <1>1
  <2>2. ~ (255 - w < n)
    BY <2>1, <1>2, <1>3 DEF OpToRel
  <2>3. v \in 1 .. 255 /\ w \in 1 .. 255
    BY <1>1
  <2>4. ~ (255 - w < 255 - v)
    BY <2>2, <1>4
  <2>. QED
    BY <2>3, <2>4, SMT
<1>6. \E u \in S : \A w \in S : w <= u
  BY <1>5
<1>. QED
  BY <1>6, Zenon DEF Highest

LEMMA NextKeepsCInv == CInv /\ [Next]_vars => CInv'
<1>. SUFFICES ASSUME CInv, [Next]_vars PROVE CInv'
  OBVIOUS
<1>. USE DEF CInv
<1>1. CASE Initialize
  <2>1. TypeOK'
    BY <1>1, Empty DEF Initialize, TypeOK
  <2>2. Progress' /\ VersionPinned'
    BY <1>1 DEF Initialize, Progress, VersionPinned
  <2>3. PinnedVersionKept' /\ SessionTrusted'
    BY <1>1 DEF Initialize, PinnedVersionKept, SessionTrusted
  <2>. QED
    BY <2>1, <2>2, <2>3
<1>2. CASE ApplyVersion
  <2>1. TypeOK'
    BY <1>2 DEF ApplyVersion, TypeOK, Config
  <2>2. Progress'
    BY <1>2 DEF ApplyVersion, Progress
  <2>3. VersionPinned' /\ SessionTrusted'
    BY <1>2 DEF ApplyVersion, VersionPinned, SessionTrusted
  <2>4. PinnedVersionKept'
    BY <1>2 DEF ApplyVersion, PinnedVersionKept
  <2>. QED
    BY <2>1, <2>2, <2>3, <2>4
<1>3. CASE ApplyParameter
  <2>1. TypeOK'
    BY <1>3 DEF ApplyParameter, TypeOK
  <2>2. Progress'
    BY <1>3 DEF ApplyParameter, Progress, TypeOK
  <2>3. VersionPinned' /\ SessionTrusted'
    BY <1>3 DEF ApplyParameter, VersionPinned, SessionTrusted, TypeOK
  <2>4. PinnedVersionKept'
    BY <1>3 DEF ApplyParameter, PinnedVersionKept
  <2>. QED
    BY <2>1, <2>2, <2>3, <2>4
<1>4. CASE ApplyFails \/ CheckContext
  <2>1. TypeOK'
    BY <1>4 DEF ApplyFails, CheckContext, TypeOK
  <2>2. Progress'
    BY <1>4 DEF ApplyFails, CheckContext, Progress
  <2>3. VersionPinned' /\ SessionTrusted' /\ PinnedVersionKept'
    BY <1>4 DEF ApplyFails, CheckContext, VersionPinned, SessionTrusted, PinnedVersionKept
  <2>. QED
    BY <2>1, <2>2, <2>3
<1>5. CASE Connect
  <2>. DEFINE S == Mutual(device.versions)
              selected == IF "baseAsymAlgo" \in refused THEN NoAlgorithm
                          ELSE device.algorithm
  <2>0. selected \in {NoAlgorithm} \cup Algorithms
    BY DEF TypeOK
  <2>1. S \subseteq Versions /\ (pinned # 0 => S \subseteq {pinned})
    BY DEF Mutual, TypeOK
  <2>2. /\ stage = "configured" /\ session' = FALSE
        /\ UNCHANGED <<cfg, files, device, useVersion, stage, next, local, refused,
                       pinned, rootCerts>>
        /\ \/ connection' = NoConnection
           \/ S # {} /\ connection' = [version |-> Highest(S), algorithm |-> selected]
    BY <1>5 DEF Connect
  <2>3. S # {} => Highest(S) \in S
    BY <2>1, HighestExists
  <2>. HIDE DEF S, selected
  <2>4. connection' \in Connection
    BY <2>0, <2>1, <2>2, <2>3 DEF Connection, NoConnection, TypeOK
  <2>5. TypeOK'
    BY <2>2, <2>4 DEF TypeOK
  <2>6. Progress' /\ VersionPinned' /\ SessionTrusted'
    BY <2>2 DEF Progress, VersionPinned, SessionTrusted
  <2>7. PinnedVersionKept'
    <3>. SUFFICES ASSUME connection' # NoConnection, cfg.version # 0
                  PROVE  connection'.version = cfg.version
      BY <2>2 DEF PinnedVersionKept
    <3>1. pinned = cfg.version
      BY <2>2 DEF Progress, VersionPinned
    <3>. QED
      BY <2>1, <2>2, <2>3, <3>1
  <2>. QED
    BY <2>5, <2>6, <2>7
<1>6. CASE OpenSession
  <2>. DEFINE root == Resolve(cfg, files, connection.algorithm)
  <2>1. /\ stage = "configured" /\ root # "failed" /\ session' \in BOOLEAN
        /\ \/ root = NoAnchor /\ rootCerts' = rootCerts
           \/ /\ root # NoAnchor /\ Len(rootCerts) < RootSlots
              /\ rootCerts' = Append(rootCerts, root)
        /\ UNCHANGED <<cfg, files, device, useVersion, stage, next, local, refused,
                       pinned, connection>>
    BY <1>6 DEF OpenSession
  <2>2. /\ root = Designated(cfg, connection.algorithm)
        /\ root # NoAnchor => root \in Anchor
    BY <2>1, ResolveNames
  <2>. HIDE DEF root
  <2>3. rootCerts \in Seq(Anchor) /\ Len(rootCerts) <= RootSlots
    BY DEF TypeOK
  <2>4. /\ rootCerts' \in Seq(Anchor) /\ Len(rootCerts') <= RootSlots
        /\ root # NoAnchor => \E i \in 1 .. Len(rootCerts') : rootCerts'[i] = root
    BY <2>1, <2>2, <2>3, Added
  <2>5. TypeOK'
    BY <2>1, <2>4 DEF TypeOK
  <2>6. SessionTrusted'
    <3>1. (Designated(cfg, connection.algorithm))' = root
      BY <2>1, <2>2 DEF Designated
    <3>. QED
      BY <3>1, <2>4 DEF SessionTrusted
  <2>7. Progress' /\ VersionPinned' /\ PinnedVersionKept'
    BY <2>1 DEF Progress, VersionPinned, PinnedVersionKept
  <2>. QED
    BY <2>5, <2>6, <2>7
<1>7. CASE CloseSession \/ DeviceChanges \/ UNCHANGED vars
  <2>1. TypeOK'
    BY <1>7 DEF CloseSession, DeviceChanges, vars, TypeOK
  <2>2. Progress' /\ VersionPinned' /\ SessionTrusted' /\ PinnedVersionKept'
    BY <1>7 DEF CloseSession, DeviceChanges, vars, Progress, VersionPinned,
                SessionTrusted, PinnedVersionKept
  <2>. QED
    BY <2>1, <2>2
<1>. QED
  BY <1>1, <1>2, <1>3, <1>4, <1>5, <1>6, <1>7 DEF Next

THEOREM ConfigInvariant == Spec => []CInv
<1>. QED
  BY InitCInv, NextKeepsCInv, PTL DEF Spec

-----------------------------------------------------------------------------
(* Results. *)

(* Every variable keeps its type.                                          *)
THEOREM ConfigTypeCorrect == Spec => []TypeOK
<1>1. CInv => TypeOK
  BY DEF CInv
<1>. QED
  BY <1>1, ConfigInvariant, PTL

(* Only a context that took the seven parameters of the configuration      *)
(* connects; of the four of configureContext nothing is said.              *)
THEOREM ConnectsConfigured == Spec => []ConnectedIsConfigured
<1>1. CInv => ConnectedIsConfigured
  BY DEF CInv, Progress, ConnectedIsConfigured
<1>. QED
  BY <1>1, ConfigInvariant, PTL

(* A pinned version is used by every connection.                           *)
THEOREM KeepsPinnedVersion == Spec => []PinnedVersionKept
<1>1. CInv => PinnedVersionKept
  BY DEF CInv
<1>. QED
  BY <1>1, ConfigInvariant, PTL

(* While a session is open the certificate designated for its connection   *)
(* is in the table of the context, whatever table size libspdm has.        *)
THEOREM SessionsAreTrusted == Spec => []SessionTrusted
<1>1. CInv => SessionTrusted
  BY DEF CInv
<1>. QED
  BY <1>1, ConfigInvariant, PTL

-----------------------------------------------------------------------------
(* The life of the context. *)

(* A session belongs to the connection it was opened on. *)
SessionOnConnection == session => connection # NoConnection

LEMMA NextFollows ==
    CInv /\ SessionOnConnection /\ CInv' /\ [Next]_vars =>
        SessionOnConnection' /\ [Context!Next]_Context!vars
<1>. SUFFICES ASSUME CInv, SessionOnConnection, CInv', [Next]_vars
              PROVE  SessionOnConnection' /\ [Context!Next]_Context!vars
  OBVIOUS
<1>. USE DEF CInv, SessionOnConnection
<1>1. TypeOK' /\ Progress'
  OBVIOUS
<1>2. CASE Initialize
  <2>1. stage' = "applying" /\ connection' = NoConnection /\ session' = FALSE
    BY <1>2 DEF Initialize
  <2>2. State' = "initialized"
    BY <2>1 DEF State
  <2>. QED
    BY <2>1, <2>2 DEF Context!Next, Context!Replace
<1>3. CASE ApplyVersion \/ ApplyParameter \/ ApplyFails
  <2>1. /\ stage = "applying" /\ stage' \in {"applying", "failed"}
        /\ UNCHANGED <<session, connection>>
    BY <1>3 DEF ApplyVersion, ApplyParameter, ApplyFails
  <2>2. State = "initialized" /\ State' = "initialized"
    BY <2>1 DEF State
  <2>. QED
    BY <2>1, <2>2 DEF Context!vars
<1>4. CASE CheckContext
  <2>1. /\ stage = "applying" /\ stage' = "configured"
        /\ UNCHANGED <<session, connection>> /\ connection = NoConnection
    BY <1>4 DEF CheckContext, Progress
  <2>2. State = "initialized" /\ State' = "configured"
    BY <2>1 DEF State
  <2>. QED
    BY <2>1, <2>2 DEF Context!Next, Context!Configure
<1>5. CASE Connect
  <2>1. stage = "configured" /\ stage' = "configured" /\ session' = FALSE
    BY <1>5 DEF Connect
  <2>2. State \in {"configured", "negotiated"} /\ State' \in {"configured", "negotiated"}
    BY <2>1 DEF State
  <2>. QED
    BY <2>1, <2>2 DEF Context!Next, Context!Connect
<1>6. CASE OpenSession
  <2>1. /\ stage = "configured" /\ UNCHANGED <<stage, connection>> /\ ~session
        /\ session' = (connection # NoConnection) \/ session' = FALSE
    BY <1>6 DEF OpenSession
  <2>2. State' = State
    BY <2>1 DEF State
  <2>3. CASE session'
    <3>1. connection # NoConnection /\ session' = TRUE
      BY <2>1, <2>3
    <3>2. State = "negotiated"
      BY <2>1, <3>1 DEF State
    <3>. QED
      BY <2>1, <2>2, <3>1, <3>2 DEF Context!Next, Context!Open
  <2>4. CASE ~session'
    BY <1>1, <2>1, <2>2, <2>4 DEF Context!vars, TypeOK
  <2>. QED
    BY <2>3, <2>4
<1>7. CASE CloseSession
  <2>1. session' = FALSE /\ UNCHANGED <<stage, connection>>
    BY <1>7 DEF CloseSession
  <2>. QED
    BY <2>1 DEF Context!Next, Context!Close, State
<1>8. CASE DeviceChanges \/ UNCHANGED vars
  <2>1. UNCHANGED <<stage, connection, session>>
    BY <1>8 DEF DeviceChanges, vars
  <2>2. State' = State
    BY <2>1 DEF State
  <2>. QED
    BY <2>1, <2>2 DEF Context!vars
<1>. QED
  BY <1>2, <1>3, <1>4, <1>5, <1>6, <1>7, <1>8 DEF Next

(* However often the context is replaced and whatever fails in between,    *)
(* the configuration uses it in the order SpdmContext allows.              *)
THEOREM FollowsContextLifecycle == Spec => ConfigFollowsLifecycle
<1>1. Init => Context!Init /\ SessionOnConnection
  BY DEF Init, Context!Init, State, SessionOnConnection
<1>. QED
  BY <1>1, NextFollows, ConfigInvariant, PTL DEF Spec, ConfigFollowsLifecycle, Context!Spec

=============================================================================
