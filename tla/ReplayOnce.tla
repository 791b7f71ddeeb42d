----------------------------- MODULE ReplayOnce -----------------------------
(***************************************************************************)
(* What a replay tier promises, whatever its backend: until its window     *)
(* closes a signed request is admitted at most once.  Presenting a request *)
(* is a call; each nonce has at most one owner among the calls that carry  *)
(* it, in the window only the owner is told Fresh and nobody takes a nonce *)
(* that was admitted, and at any time a call is told Replay only of a      *)
(* nonce somebody else took.                                               *)
(***************************************************************************)
CONSTANTS Call, Nonce, NonceOf(_), None

VARIABLES
  verdict, owner,
  closed          \* the nonces whose window has closed

vars == <<verdict, owner, closed>>

Admitted(n) == \E c \in Call : NonceOf(c) = n /\ verdict[c] = "Fresh"

Init ==
  /\ verdict = [c \in Call |-> "pending"]
  /\ owner = [n \in Nonce |-> None]
  /\ closed \subseteq Nonce

(* Nobody was admitted, or nobody is kept out any more.                    *)
Free(n) == ~Admitted(n) \/ n \in closed

Take(c) ==
  /\ Free(NonceOf(c))
  /\ owner' = [owner EXCEPT ![NonceOf(c)] = c]
  /\ UNCHANGED <<verdict, closed>>

Answer(c, v) ==
  /\ verdict[c] = "pending"
  /\ v = "Fresh" => owner[NonceOf(c)] = c \/ NonceOf(c) \in closed
  /\ v = "Replay" => owner[NonceOf(c)] \notin {None, c}
  /\ verdict' = [verdict EXCEPT ![c] = v]
  /\ UNCHANGED <<owner, closed>>

(* An in-process tier takes the nonce and answers in one step.             *)
TakeAndAnswer(c) ==
  /\ verdict[c] = "pending"
  /\ Free(NonceOf(c))
  /\ owner' = [owner EXCEPT ![NonceOf(c)] = c]
  /\ verdict' = [verdict EXCEPT ![c] = "Fresh"]
  /\ UNCHANGED closed

Close ==
  /\ closed' \in SUBSET Nonce /\ closed \subseteq closed'
  /\ UNCHANGED <<verdict, owner>>

Next ==
  \/ \E c \in Call :
       \/ Take(c)
       \/ TakeAndAnswer(c)
       \/ \E v \in {"Fresh", "Replay", "Unavailable"} : Answer(c, v)
  \/ Close

Spec == Init /\ [][Next]_vars
=============================================================================
