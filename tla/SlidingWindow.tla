--------------------------- MODULE SlidingWindow ---------------------------
(***************************************************************************)
(* What a sliding-window rate limiter promises: of the requests with one   *)
(* key it admits one exactly when fewer than Max were admitted within the  *)
(* window that ends now.  Only the end of its process makes it forget.     *)
(***************************************************************************)
EXTENDS Naturals, Sequences

CONSTANTS Keys, Max, Window
VARIABLES recent,   \* key -> ages of the requests admitted within the window, oldest first
          verdict,  \* key -> what became of its last request
          up        \* whether the process runs

Init == /\ recent = [k \in Keys |-> <<>>]
        /\ verdict = [k \in Keys |-> "none"]
        /\ up = TRUE

Admit(k) == /\ Len(recent[k]) < Max
            /\ recent' = [recent EXCEPT ![k] = Append(@, 0)]
            /\ verdict' = [verdict EXCEPT ![k] = "admitted"]

Reject(k) == /\ Len(recent[k]) >= Max
             /\ verdict' = [verdict EXCEPT ![k] = "rejected"]
             /\ UNCHANGED recent

\* One tick later: the first ones have left the window.
Older(ages) ==
  LET left == CHOOSE n \in 0..Len(ages) : \A i \in DOMAIN ages : i > n <=> ages[i] < Window
  IN [i \in 1..(Len(ages) - left) |-> ages[left + i] + 1]

Tick == /\ recent' = [k \in Keys |-> Older(recent[k])]
        /\ UNCHANGED verdict

Stop == /\ up = TRUE /\ up' = FALSE
        /\ recent' = [k \in Keys |-> <<>>]
        /\ UNCHANGED verdict

Start == up = FALSE /\ up' = TRUE /\ UNCHANGED <<recent, verdict>>

Next == \/ up = TRUE /\ UNCHANGED up /\ (Tick \/ \E k \in Keys : Admit(k) \/ Reject(k))
        \/ Stop
        \/ Start

Spec == Init /\ [][Next]_<<recent, verdict, up>>
=============================================================================
