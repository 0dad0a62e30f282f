---------------------------- MODULE RequestBook ----------------------------
(***************************************************************************)
(* What an agent that asks the desktop for a scan or a fix may rely on,    *)
(* request by request: it is taken up once or it expires, what was taken   *)
(* up is begun once at most, and it is answered as fulfilled only after    *)
(* its work was done.  An answer stands.  Work may outlive its answer:     *)
(* what is begun late, or ends late, changes no answer.                    *)
(***************************************************************************)
EXTENDS Naturals

CONSTANT Ids

VARIABLES status,  \* of every request
          starts,  \* how often its work was begun
          done     \* requests whose work was completed

Init ==
  /\ status = [r \in Ids |-> "absent"]
  /\ starts = [r \in Ids |-> 0]
  /\ done = {}

Move(r, from, to) ==
  /\ status[r] = from
  /\ status' = [status EXCEPT ![r] = to]

Ask(r) == Move(r, "absent", "requested") /\ UNCHANGED <<starts, done>>

Take(r) == Move(r, "requested", "running") /\ UNCHANGED <<starts, done>>

\* A fix attempt is begun and completed at once.
Begin(r, completed) ==
  /\ status[r] \notin {"absent", "requested"} /\ starts[r] = 0
  /\ starts' = [starts EXCEPT ![r] = 1]
  /\ done' = done \cup completed /\ completed \subseteq {r}
  /\ UNCHANGED status

Complete(r) ==
  /\ starts[r] = 1
  /\ done' = done \cup {r}
  /\ UNCHANGED <<status, starts>>

Fulfil(r) ==
  /\ starts[r] = 1
  /\ Move(r, "running", "fulfilled")
  /\ done' = done \cup {r}
  /\ UNCHANGED starts

Fail(r) == Move(r, "running", "failed") /\ UNCHANGED <<starts, done>>

Expire(S) ==
  /\ \A r \in S : status[r] \in {"requested", "running"}
  /\ status' = [r \in Ids |-> IF r \in S THEN "expired" ELSE status[r]]
  /\ UNCHANGED <<starts, done>>

Next ==
  \/ \E r \in Ids :
       \/ Ask(r) \/ Take(r) \/ Complete(r) \/ Fulfil(r) \/ Fail(r)
       \/ \E completed \in SUBSET {r} : Begin(r, completed)
  \/ \E S \in SUBSET Ids : Expire(S)

Spec == Init /\ [][Next]_<<status, starts, done>>
=============================================================================
