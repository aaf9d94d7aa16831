--------------------------- MODULE SpdmTransport ---------------------------
(***************************************************************************)
(* class SpdmTransport: the heap blocks behind one transport object, the   *)
(* libspdm context and its scratch buffer, and what initialize() may make  *)
(* of them.  TcpTransport and MctpTransport add their socket and link.     *)
(*                                                                         *)
(* initialize() is called once for every round of device processing and    *)
(* never looks at the pointers it finds: a block whose pointer is          *)
(* overwritten can no longer be freed, and joins lost.                     *)
(***************************************************************************)
VARIABLES
    spdmContext,    \* "null"; "raw": libspdm_init_context failed on it; "ready"
    scratchBuffer,  \* "null" or "owned"
    lost            \* kinds of heap block allocated and no longer reachable

heapVars == <<spdmContext, scratchBuffer, lost>>

HeapTypeOK ==
    /\ spdmContext \in {"null", "raw", "ready"}
    /\ scratchBuffer \in {"null", "owned"}
    /\ lost \subseteq {"context", "scratch", "reply"}

HeapInit == spdmContext = "null" /\ scratchBuffer = "null" /\ lost = {}

OldContext == IF spdmContext = "null" THEN {} ELSE {"context"}
OldScratch == IF scratchBuffer = "null" THEN {} ELSE {"scratch"}

(* allocateContext fails and leaves the pointer as left. *)
AllocateContextFails(left) ==
    /\ spdmContext' = left
    /\ lost' = lost \cup OldContext
    /\ UNCHANGED scratchBuffer

(* Variant: cleanupContext without resetting the pointer it freed. *)
SetupScratchBufferFailsDangling(frees) ==
    /\ spdmContext' = "dangling"
    /\ scratchBuffer' = "null"
    /\ lost' = lost \cup OldContext \cup OldScratch

(* setupScratchBuffer fails: its null overwrites the pointer, and          *)
(* cleanupContext drops the new context, freeing it if frees says so.      *)
SetupScratchBufferFails(frees) ==
    /\ spdmContext' = "null"
    /\ scratchBuffer' = "null"
    /\ lost' = lost \cup OldContext \cup OldScratch
                    \cup (IF frees THEN {} ELSE {"context"})

(* All four parts of initialize() succeed. *)
ContextBuilt ==
    /\ spdmContext' = "ready"
    /\ scratchBuffer' = "owned"
    /\ lost' = lost \cup OldContext \cup OldScratch

=============================================================================
