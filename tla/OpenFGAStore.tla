---------------------------- MODULE OpenFGAStore ----------------------------
(***************************************************************************)
(* The OpenFGA client (fsa_authz/openfga.py) and the server it talks to.   *)
(*                                                                         *)
(* The client turns every failure into an exception, and writes tuples in  *)
(* batches, each a transaction of its own on the server.  A request can be *)
(* refused (5xx or unreachable), rejected (4xx), or carried out and its    *)
(* answer lost, which the client's timeout makes of a slow one.            *)
(***************************************************************************)
EXTENDS AuthzModel

CONSTANT BatchSize  \* tuples of one write request

BatchAssumption == BatchSize \in Nat \ {0}

VARIABLES
    remote,   \* the server's tuples
    list,     \* the argument of the last write()
    next,     \* write's loop variable: tuples of list already acknowledged
    writing   \* "idle", "writing", "ok", "failclosed" or "rejected"

client == <<remote, list, next, writing>>

(* Tuples start..start+BatchSize-1 of a zero-based list. *)
BatchOf(s, start) ==
    SubSeq(s, start + 1, IF start + BatchSize < Len(s) THEN start + BatchSize ELSE Len(s))

Batch == BatchOf(list, next)

Elements(s) == {s[i] : i \in DOMAIN s}

(* The server accepts a transaction of new tuples only. *)
Acceptable(batch) == Elements(batch) \cap remote = {}

----------------------------------------------------------------------------
(* A call of write(); a call that failed may be made again. *)
Write(tuples) ==
    /\ writing # "writing"
    /\ list' = tuples
    /\ next' = 0
    /\ writing' = "writing"
    /\ UNCHANGED remote

WriteBatch ==
    /\ writing = "writing" /\ next < Len(list)
    /\ Acceptable(Batch)
    /\ remote' = remote \cup Elements(Batch)
    /\ next' = next + BatchSize
    /\ UNCHANGED <<list, writing>>

(* The loop has ended. *)
WriteReturns ==
    /\ writing = "writing" /\ next >= Len(list)
    /\ writing' = "ok"
    /\ UNCHANGED <<remote, list, next>>

(* Mutant: a request that was not answered is passed over. *)
WriteFailsSkipped ==
    /\ writing = "writing" /\ next < Len(list)
    /\ next' = next + BatchSize
    /\ UNCHANGED <<remote, list, writing>>

(* FailClosedError: the server is unreachable or answers 5xx. *)
WriteFails ==
    /\ writing = "writing" /\ next < Len(list)
    /\ writing' = "failclosed"
    /\ UNCHANGED <<remote, list, next>>

(* The same error, after the server has carried the request out. *)
AnswerLost ==
    /\ writing = "writing" /\ next < Len(list)
    /\ Acceptable(Batch)
    /\ remote' = remote \cup Elements(Batch)
    /\ writing' = "failclosed"
    /\ UNCHANGED <<list, next>>

(* DependencyError: the batch holds a tuple the server has. *)
WriteRejected ==
    /\ writing = "writing" /\ next < Len(list)
    /\ ~Acceptable(Batch)
    /\ writing' = "rejected"
    /\ UNCHANGED <<remote, list, next>>

(* list_objects over the server's tuples; the prefix of the type is cut. *)
RemoteListing(u, relation, type) ==
    {o \in {t.object : t \in remote} : TypeOf(o) = type /\ Holds(remote, u, relation, o)}
=============================================================================
