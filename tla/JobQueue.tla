------------------------------ MODULE JobQueue ------------------------------
(***************************************************************************)
(* What the transfer queue promises about a job to the one who enqueued    *)
(* it, whatever workers, events, tokens and tables there are behind it: it *)
(* is taken up a limited number of times and ends once each time, it is    *)
(* cancelled only on request, it goes back only after a failure that was   *)
(* recorded, and a success or a cancellation is final.                     *)
(***************************************************************************)
EXTENDS Naturals

CONSTANTS Job,
          MaxAttempts   \* how often a job may be taken up

VARIABLES state,   \* of each job: absent, queued, active or how it ended
          tries,   \* how often it was taken up
          asked,   \* somebody wants the attempt that is waiting or active cancelled
          torn     \* a job went back while an attempt at it had not let go of it

vars == <<state, tries, asked, torn>>

Ending == {"succeeded", "failed", "cancelled", "uncertain"}

Init == /\ state = [j \in Job |-> "absent"]
        /\ tries = [j \in Job |-> 0]
        /\ asked = [j \in Job |-> FALSE]
        /\ torn = FALSE

Become(j, s) == state' = [state EXCEPT ![j] = s]
Wanted(j, b) == asked' = [asked EXCEPT ![j] = b]

Submit(j) == state[j] = "absent" /\ Become(j, "queued") /\ UNCHANGED <<tries, asked, torn>>

Take(j) == /\ state[j] = "queued" /\ tries[j] < MaxAttempts
           /\ Become(j, "active")
           /\ tries' = [tries EXCEPT ![j] = @ + 1]
           /\ Wanted(j, FALSE)
           /\ UNCHANGED torn

Withdraw(j) == state[j] = "queued" /\ Become(j, "cancelled") /\ Wanted(j, TRUE) /\ UNCHANGED <<tries, torn>>

Ask(j) == state[j] = "active" /\ Wanted(j, TRUE) /\ UNCHANGED <<state, tries, torn>>

\* Nobody is cancelled unasked, unless attempts get into each other's way.
End(j, r) == /\ state[j] = "active" /\ (r = "cancelled" => asked[j] \/ torn)
             /\ Become(j, r)
             /\ UNCHANGED <<tries, asked, torn>>

Again(j) == /\ state[j] \in {"failed", "uncertain"} /\ tries[j] < MaxAttempts
            /\ Become(j, "queued") /\ Wanted(j, FALSE)
            /\ torn' \in {torn, TRUE}
            /\ UNCHANGED tries

\* A restart: nobody knows what became of the active ones.
Interrupt == /\ state' = [j \in Job |-> IF state[j] = "active" THEN "uncertain" ELSE state[j]]
             /\ UNCHANGED <<tries, asked, torn>>

Next == \/ \E j \in Job : \/ Submit(j) \/ Take(j) \/ Withdraw(j) \/ Ask(j) \/ Again(j)
                          \/ \E r \in Ending : End(j, r)
        \/ Interrupt

Spec == Init /\ [][Next]_vars
=============================================================================
