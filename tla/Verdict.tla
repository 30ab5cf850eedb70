-------------------------------- MODULE Verdict --------------------------------
(***************************************************************************)
(* What the review of a task promises the pipeline: whatever is done to    *)
(* the company or contact under review was decided by a person, and the    *)
(* pipeline goes on behind the review only after a decision that says so.  *)
(***************************************************************************)
CONSTANTS Tasks, Decisions, Nil,
          Kind,                      \* what a task asks
          Effects,                   \* what may be written to the entity under review
          Effect(_, _),              \* the effect of a decision on a kind of task
          Continues(_, _)            \* whether the pipeline goes on after it

VARIABLES handed,   \* the decisions handed down so far
          effect,   \* what the entity under review was last told
          gone      \* the tasks behind which the pipeline has gone on

Init ==
    /\ handed = [t \in Tasks |-> {}]
    /\ effect = [t \in Tasks |-> Nil]
    /\ gone = {}

HandDown(t, d) ==
    /\ handed' = [handed EXCEPT ![t] = @ \cup {d}]
    /\ UNCHANGED <<effect, gone>>

TakeEffect(t) ==
    /\ \E d \in handed[t] : effect' = [effect EXCEPT ![t] = Effect(Kind[t], d)]
    /\ UNCHANGED <<handed, gone>>

GoOn(t) ==
    /\ \E d \in handed[t] : Continues(Kind[t], d)
    /\ gone' = gone \cup {t}
    /\ UNCHANGED <<handed, effect>>

Next ==
    \E t \in Tasks : \/ \E d \in Decisions : HandDown(t, d)
                     \/ TakeEffect(t)
                     \/ GoOn(t)

Spec == Init /\ [][Next]_<<handed, effect, gone>>
=============================================================================
