--------------------------- MODULE AdmissionProofs ---------------------------
(***************************************************************************)
(* What the admission gate promises, for any number of requests and        *)
(* generations, any policy, any wall clock and any fault of the store:     *)
(* degraded serving is bounded and not cut short, the revision floor never *)
(* rewinds, and, while the clocks agree within the skew, a revocation ends *)
(* live serving within the currentness budget.                             *)
(***************************************************************************)
EXTENDS Admission, FiniteSetTheorems, TLAPS

(* The wall clock is off by no more than the skew the policy allows for.   *)
ClocksAgree == \A o \in Offsets : o - Behind >= -Skew /\ o - Behind <= Skew

Claim == [kind : {"bare", "unsound", "held"}, iat : Int, generation : Int, sound : BOOLEAN]

Statement == [revision : Int, generation : Int, status : {"admitted", "revoked", "none"},
              iat : Int, exp : Int, sound : BOOLEAN]

Task == [pc : {"idle", "lookup", "answered", "verify", "done"}, start : Nat, now : Int,
         evidence : Claim, raw : Statement, floor : Int, before : Int, facet : Facets]

(* The types the argument needs.                                           *)
Typed ==
  /\ clock \in Nat /\ offset \in Offsets
  /\ store \in Statement /\ issued \subseteq Statement /\ IsFiniteSet(issued)
  /\ revoked \in [Generations -> Nat \cup {Never}]
  /\ floor \in Int /\ accepted \in Int
  /\ last_read \in Nat \cup {Never} /\ lastServed \in Nat \cup {Never}
  /\ answered \in Nat \cup {Never}
  /\ req \in [Requests -> Task]
  /\ \A r \in Requests : /\ req[r].start <= clock
                         /\ req[r].pc # "done" => req[r].facet = "none"

(* The window opens from a read the store executed; a lookup that has an   *)
(* answer was executed after it began.                                     *)
ReadsWereServed ==
  /\ last_read # Never => lastServed # Never /\ last_read <= lastServed
  /\ lastServed <= clock
  /\ \A r \in Requests : req[r].pc \in {"answered", "verify"} =>
       lastServed # Never /\ req[r].start <= lastServed

(* The floor is what was accepted, and a call's own floor is no lower than *)
(* what had been accepted when it read it.                                 *)
FloorIsAccepted ==
  /\ floor = accepted
  /\ \A r \in Requests : req[r].pc = "verify" => req[r].floor >= req[r].before

(* The window and the history of answered reads are one value.             *)
WindowIsAnswered == last_read = answered

IInv == Typed /\ ReadsWereServed /\ FloorIsAccepted /\ WindowIsAnswered
        /\ DegradedBounded /\ NoRewind

-----------------------------------------------------------------------------
(* What Max returns for two integers.                                      *)
LEMMA MaxOfTwo ==
  ASSUME NEW a \in Int, NEW b \in Int
  PROVE  Max({a, b}) \in {a, b} /\ Max({a, b}) >= a /\ Max({a, b}) >= b
<1> DEFINE S == {a, b}
<1>1. \E x \in S : \A y \in S : x >= y
  <2>1. CASE a >= b
    BY <2>1
  <2>2. CASE b >= a
    BY <2>2
  <2> QED BY <2>1, <2>2
<1>2. Max(S) \in S /\ \A y \in S : Max(S) >= y
  BY <1>1 DEF Max
<1> QED BY <1>2

(* The bound on degraded serving is a number of seconds.                   *)
LEMMA BoundIsInt == Max({P, 0}) \in Int /\ Max({P, 0}) >= P
<1>1. P \in Int /\ 0 \in Int
  BY AdmissionAssumption
<1>2. Max({P, 0}) \in {P, 0} /\ Max({P, 0}) >= P
  BY <1>1, MaxOfTwo
<1> QED BY <1>1, <1>2

LEMMA InitIInv == ASSUME Init PROVE IInv
<1> USE DEF Init, DegradedWindow_unearned
<1>1. Idle \in Task /\ NoRecord \in Statement
  BY DEF Idle, Task, Claim, Statement, NoRecord, Presented, Facets
<1>2. Typed
  BY <1>1, AdmissionAssumption, FS_EmptySet DEF Typed, Never, Idle
<1>3. ReadsWereServed /\ FloorIsAccepted /\ WindowIsAnswered
  BY DEF ReadsWereServed, FloorIsAccepted, WindowIsAnswered, Idle, Never
<1>4. DegradedBounded /\ NoRewind
  BY DEF DegradedBounded, NoRewind, Idle
<1> QED BY <1>2, <1>3, <1>4 DEF IInv

(* A step that touches none of the replica's own state.                    *)
LEMMA OutsideKeeps ==
  ASSUME IInv, Typed', UNCHANGED <<floor, last_read, req, lastServed, answered, accepted>>,
         clock' >= clock
  PROVE  IInv'
<1> USE DEF IInv
<1>1. ReadsWereServed'
  BY DEF ReadsWereServed, Typed, Never
<1>2. FloorIsAccepted' /\ WindowIsAnswered'
  BY DEF FloorIsAccepted, WindowIsAnswered
<1>3. DegradedBounded' /\ NoRewind'
  BY DEF DegradedBounded, NoRewind
<1> QED BY <1>1, <1>2, <1>3

(* What a caller may present is a claim about a generation, or nothing.    *)
LEMMA EvidenceIsClaim ==
  ASSUME clock \in Nat, NEW g \in Generations, NEW e \in Presents
  PROVE  /\ Evidence(g)[e] \in Claim
         /\ Evidence(g)[e].kind # "bare" => Evidence(g)[e].generation = g
<1>1. g \in Nat /\ e \in {"bare", "unsound", "fresh", "stale"}
  BY AdmissionAssumption
<1>2. Max({P, 0}) \in Int /\ Skew \in Int
  BY AdmissionAssumption, BoundIsInt
<1>3. CASE e = "bare"
  BY <1>3 DEF Evidence, Presented, Claim
<1>4. CASE e = "unsound"
  BY <1>1, <1>4 DEF Evidence, Assertion, Claim
<1>5. CASE e = "fresh"
  BY <1>1, <1>5 DEF Evidence, Assertion, Claim
<1>6. CASE e = "stale"
  BY <1>1, <1>2, <1>6 DEF Evidence, Assertion, Claim
<1> QED BY <1>1, <1>3, <1>4, <1>5, <1>6

(* What a decision leaves of its task.                                     *)
LEMMA FinishLeaves ==
  ASSUME Typed, NEW r \in Requests, NEW f \in Facets, Finish(r, f)
  PROVE  /\ req' \in [Requests -> Task]
         /\ \A s \in Requests : s # r => req'[s] = req[s]
         /\ req'[r].pc = "done" /\ req'[r].facet = f /\ req'[r].start <= clock
         /\ f \in {"LiveConfirmed", "Degraded"} =>
              /\ req'[r].start = req[r].start /\ req'[r].raw = req[r].raw
              /\ req'[r].before = req[r].before /\ req'[r].evidence = req[r].evidence
         /\ f \notin {"LiveConfirmed", "Degraded"} => req'[r].raw = NoRecord
<1> DEFINE q == IF f \in {"LiveConfirmed", "Degraded"}
                THEN [req[r] EXCEPT !.pc = "done", !.facet = f, !.now = 0, !.floor = 0]
                ELSE [Idle EXCEPT !.pc = "done", !.facet = f]
<1>1. req' = [req EXCEPT ![r] = q] /\ req[r] \in Task /\ req[r].start <= clock
  <2>1. req[r] \in Task /\ req[r].start <= clock
    BY DEF Typed
  <2>2. req' = [req EXCEPT ![r] = q]
    BY DEF Finish
  <2> QED BY <2>1, <2>2
<1>2. Idle \in Task /\ Idle.start = 0 /\ Idle.raw = NoRecord
  BY DEF Idle, Task, Claim, Statement, NoRecord, Presented, Facets
<1>3. CASE f \in {"LiveConfirmed", "Degraded"}
  <2>0. q = [req[r] EXCEPT !.pc = "done", !.facet = f, !.now = 0, !.floor = 0]
    BY <1>3
  <2>1. /\ q \in Task /\ q.pc = "done" /\ q.facet = f /\ q.start = req[r].start
        /\ q.raw = req[r].raw /\ q.before = req[r].before /\ q.evidence = req[r].evidence
    <3>1. q = [pc |-> "done", start |-> req[r].start, now |-> 0, evidence |-> req[r].evidence,
               raw |-> req[r].raw, floor |-> 0, before |-> req[r].before, facet |-> f]
      BY <1>1, <2>0 DEF Task
    <3> HIDE DEF q
    <3> QED BY <1>1, <3>1 DEF Task
  <2> QED BY <1>1, <1>3, <2>1 DEF Typed
<1>4. CASE f \notin {"LiveConfirmed", "Degraded"}
  <2>1. q \in Task /\ q.pc = "done" /\ q.facet = f /\ q.start = 0 /\ q.raw = NoRecord
    BY <1>2, <1>4 DEF Task
  <2> QED BY <1>1, <1>4, <2>1 DEF Typed
<1> QED BY <1>3, <1>4

LEMMA BeginKeeps ==
  ASSUME IInv, NEW r \in Requests, NEW e \in Claim, Begin(r, e)
  PROVE  IInv'
<1> USE DEF IInv
<1> DEFINE q == req'[r]
<1>1. Idle \in Task /\ wall \in Int
  BY AdmissionAssumption DEF Idle, Task, Claim, Statement, NoRecord, Presented, Facets, wall, Typed
<1>2. /\ q \in Task /\ q.start = clock /\ q.pc \in {"lookup", "done"}
      /\ q.facet \notin {"LiveConfirmed", "Degraded"}
      /\ req' \in [Requests -> Task] /\ (q.pc # "done" => q.facet = "none")
      /\ \A s \in Requests : s # r => req'[s] = req[s]
  BY <1>1 DEF Begin, Task, Facets, Typed, Idle
<1> HIDE DEF q
<1>3. UNCHANGED <<clock, offset, store, issued, revoked, floor, last_read, lastServed, answered, accepted>>
  BY DEF Begin
<1>4. Typed'
  BY <1>2, <1>3 DEF Typed, q
<1>5. ReadsWereServed' /\ FloorIsAccepted' /\ WindowIsAnswered'
  BY <1>2, <1>3 DEF ReadsWereServed, FloorIsAccepted, WindowIsAnswered, q
<1>6. DegradedBounded' /\ NoRewind'
  BY <1>2, <1>3 DEF DegradedBounded, NoRewind, Typed, q
<1> QED BY <1>4, <1>5, <1>6

(* What an executed lookup makes of its task.                              *)
LEMMA GetMoves ==
  ASSUME Typed, NEW r \in Requests, Get(r)
  PROVE  /\ req' \in [Requests -> Task] /\ \A s \in Requests : s # r => req'[s] = req[s]
         /\ req'[r].pc = "answered" /\ req'[r].start = req[r].start /\ req'[r].facet = "none"
         /\ req'[r].raw = store /\ req'[r].now = req[r].now /\ req[r].pc = "lookup"
<1>1. /\ req' = [req EXCEPT ![r].pc = "answered", ![r].raw = store]
      /\ req[r] \in Task /\ store \in Statement /\ req[r].facet = "none" /\ req[r].pc = "lookup"
  BY DEF Get, Typed
<1>2. PICK q : q = [[req[r] EXCEPT !.pc = "answered"] EXCEPT !.raw = store]
  OBVIOUS
<1>3. q = [pc |-> "answered", start |-> req[r].start, now |-> req[r].now,
           evidence |-> req[r].evidence, raw |-> store, floor |-> req[r].floor,
           before |-> req[r].before, facet |-> req[r].facet]
  BY <1>1, <1>2 DEF Task
<1>4. q \in Task
  BY <1>1, <1>3 DEF Task
<1>5. req' = [req EXCEPT ![r] = q]
  BY <1>1, <1>2 DEF Typed
<1>6. /\ req' \in [Requests -> Task] /\ \A s \in Requests : s # r => req'[s] = req[s]
      /\ req'[r] = q
  BY <1>4, <1>5 DEF Typed
<1> QED BY <1>1, <1>3, <1>6

(* And what the read of the floor does.                                    *)
LEMMA FloorReadMoves ==
  ASSUME Typed, NEW r \in Requests, req[r].pc = "answered",
         req' = [req EXCEPT ![r].pc = "verify", ![r].floor = floor, ![r].before = accepted]
  PROVE  /\ req' \in [Requests -> Task] /\ \A s \in Requests : s # r => req'[s] = req[s]
         /\ req'[r].pc = "verify" /\ req'[r].start = req[r].start /\ req'[r].facet = "none"
         /\ req'[r].floor = floor /\ req'[r].before = accepted
         /\ req'[r].raw = req[r].raw /\ req'[r].now = req[r].now
<1>1. req[r] \in Task /\ floor \in Int /\ accepted \in Int /\ req[r].facet = "none"
  BY DEF Typed
<1>2. PICK q : q = [[[req[r] EXCEPT !.pc = "verify"] EXCEPT !.floor = floor] EXCEPT !.before = accepted]
  OBVIOUS
<1>3. q = [pc |-> "verify", start |-> req[r].start, now |-> req[r].now,
           evidence |-> req[r].evidence, raw |-> req[r].raw, floor |-> floor,
           before |-> accepted, facet |-> req[r].facet]
  BY <1>1, <1>2 DEF Task
<1>4. q \in Task
  BY <1>1, <1>3 DEF Task
<1>5. req' = [req EXCEPT ![r] = q]
  BY <1>1, <1>2 DEF Typed
<1>6. /\ req' \in [Requests -> Task] /\ \A s \in Requests : s # r => req'[s] = req[s]
      /\ req'[r] = q
  BY <1>4, <1>5 DEF Typed
<1> QED BY <1>1, <1>3, <1>6

LEMMA GetKeeps ==
  ASSUME IInv, NEW r \in Requests, Get(r)
  PROVE  IInv'
<1> USE DEF IInv
<1>1. /\ lastServed' = clock
      /\ UNCHANGED <<clock, offset, store, issued, revoked, floor, last_read, answered, accepted>>
  BY DEF Get
<1>2. req' \in [Requests -> Task] /\ \A s \in Requests : s # r => req'[s] = req[s]
  BY GetMoves
<1>3. /\ req'[r].pc = "answered" /\ req'[r].start = req[r].start
      /\ req'[r].facet = "none" /\ req'[r].raw = store
  BY GetMoves
<1>4. Typed'
  BY <1>1, <1>2, <1>3 DEF Typed
<1>5. ReadsWereServed' /\ FloorIsAccepted' /\ WindowIsAnswered'
  BY <1>1, <1>2, <1>3 DEF ReadsWereServed, FloorIsAccepted, WindowIsAnswered, Typed, Never
<1>6. DegradedBounded' /\ NoRewind'
  <2>1. DOMAIN req = Requests /\ DOMAIN req' = Requests
    BY <1>2 DEF Typed
  <2>2. NoRewind'
    BY <1>2, <1>3, <2>1 DEF NoRewind
  <2>3. Max({P, 0}) \in Int
    BY BoundIsInt
  <2>4. ASSUME NEW s \in Requests, req'[s].facet = "Degraded"
        PROVE  lastServed' # Never /\ req'[s].start - lastServed' <= Max({P, 0})
    <3>1. s # r /\ req'[s] = req[s]
      BY <1>2, <1>3, <2>4
    <3>2. lastServed # Never /\ req[s].start - lastServed <= Max({P, 0}) /\ req[s].start \in Nat
      BY <2>1, <2>4, <3>1 DEF DegradedBounded, Typed, Task
    <3> QED BY <1>1, <2>3, <3>1, <3>2 DEF ReadsWereServed, Typed, Never
  <2> QED BY <2>1, <2>2, <2>4 DEF DegradedBounded
<1> QED BY <1>4, <1>5, <1>6

(* The lookup fails: what is served degraded began within the bound of a   *)
(* read the store served.                                                  *)
LEMMA GetFailsKeeps ==
  ASSUME IInv, NEW r \in Requests, GetFails(r)
  PROVE  IInv'
<1> USE DEF IInv
<1> DEFINE f == CheckDegraded(req[r].evidence, req[r].start, req[r].now)
<1>1. /\ Finish(r, f)
      /\ UNCHANGED <<clock, offset, store, issued, revoked, floor, last_read, lastServed, answered, accepted>>
  BY DEF GetFails
<1>2. f \in Facets /\ f # "LiveConfirmed"
  BY DEF CheckDegraded, Facets
<1>3. f = "Degraded" => last_read # Never /\ req[r].start - last_read <= Max({P, 0})
  BY BoundIsInt DEF CheckDegraded, exhausted, Typed, Task, Never
<1> HIDE DEF f
<1>4. /\ req' \in [Requests -> Task] /\ \A s \in Requests : s # r => req'[s] = req[s]
      /\ req'[r].pc = "done" /\ req'[r].facet = f /\ req'[r].start <= clock
      /\ f = "Degraded" => req'[r].start = req[r].start
  BY <1>1, <1>2, FinishLeaves
<1>5. Typed'
  BY <1>1, <1>4 DEF Typed
<1>6. ReadsWereServed' /\ FloorIsAccepted' /\ WindowIsAnswered'
  BY <1>1, <1>4 DEF ReadsWereServed, FloorIsAccepted, WindowIsAnswered
<1>7. DOMAIN req = Requests /\ DOMAIN req' = Requests
  BY <1>4 DEF Typed
<1>8. NoRewind'
  BY <1>1, <1>2, <1>4, <1>7 DEF NoRewind
<1>9. DegradedBounded'
  <2>1. f = "Degraded" => lastServed # Never /\ req[r].start - lastServed <= Max({P, 0})
    BY <1>3, BoundIsInt DEF ReadsWereServed, Typed, Task, Never
  <2> QED BY <1>1, <1>4, <1>7, <2>1 DEF DegradedBounded
<1> QED BY <1>5, <1>6, <1>8, <1>9

(* A read that is recorded was served, and the history takes the same      *)
(* value.                                                                  *)
LEMMA RecordRead ==
  ASSUME IInv, NEW r \in Requests, req[r].pc \in {"answered", "verify"},
         record_read(req[r].start), answered' = Max({answered, req[r].start}), lastServed' = lastServed
  PROVE  /\ last_read' \in Nat /\ answered' = last_read' /\ last_read' # Never
         /\ lastServed # Never /\ last_read' <= lastServed
<1> USE DEF IInv
<1>1. last_read \in Int /\ req[r].start \in Nat /\ answered = last_read /\ lastServed \in Int
  BY DEF Typed, Task, Never, WindowIsAnswered
<1>2. last_read' = Max({last_read, req[r].start}) /\ answered' = last_read'
  BY <1>1 DEF record_read
<1>3. /\ last_read' \in {last_read, req[r].start}
      /\ last_read' >= last_read /\ last_read' >= req[r].start
  BY <1>1, <1>2, MaxOfTwo
<1>4. lastServed # Never /\ req[r].start <= lastServed
  BY DEF ReadsWereServed
<1>5. last_read' \in Nat /\ last_read' # Never
  BY <1>1, <1>3 DEF Never
<1>6. last_read' <= lastServed
  BY <1>1, <1>3, <1>4, <1>5 DEF ReadsWereServed
<1> QED BY <1>2, <1>4, <1>5, <1>6

LEMMA ClassifyKeeps ==
  ASSUME IInv, NEW r \in Requests, Classify(r)
  PROVE  IInv'
<1> USE DEF IInv
<1>1. /\ UNCHANGED <<clock, offset, store, issued, revoked, floor, lastServed, accepted>>
      /\ req[r].pc = "answered" /\ DOMAIN req = Requests
  BY DEF Classify, Typed
<1>2. CASE /\ record_read(req[r].start) /\ answered' = Max({answered, req[r].start})
           /\ Finish(r, "AdmissionNotCurrent")
  <2>1. /\ last_read' \in Nat /\ answered' = last_read' /\ last_read' # Never
        /\ lastServed # Never /\ last_read' <= lastServed
    BY <1>1, <1>2, RecordRead
  <2>2. /\ req' \in [Requests -> Task] /\ \A s \in Requests : s # r => req'[s] = req[s]
        /\ req'[r].pc = "done" /\ req'[r].facet = "AdmissionNotCurrent" /\ req'[r].start <= clock
    BY <1>2, FinishLeaves DEF Facets
  <2>3. Typed'
    BY <1>1, <2>1, <2>2 DEF Typed
  <2>4. ReadsWereServed' /\ FloorIsAccepted' /\ WindowIsAnswered'
    BY <1>1, <2>1, <2>2 DEF ReadsWereServed, FloorIsAccepted, WindowIsAnswered
  <2>5. DegradedBounded' /\ NoRewind'
    BY <1>1, <2>2 DEF DegradedBounded, NoRewind
  <2> QED BY <2>3, <2>4, <2>5
<1>3. CASE /\ req' = [req EXCEPT ![r].pc = "verify", ![r].floor = floor, ![r].before = accepted]
           /\ UNCHANGED <<last_read, answered>>
  <2>1. req[r] \in Task /\ floor \in Int /\ accepted \in Int /\ floor = accepted
    BY DEF Typed, FloorIsAccepted
  <2>2. /\ req' \in [Requests -> Task] /\ \A s \in Requests : s # r => req'[s] = req[s]
        /\ req'[r].pc = "verify" /\ req'[r].facet = "none" /\ req'[r].start = req[r].start
        /\ req'[r].floor = floor /\ req'[r].before = accepted
    BY <1>1, <1>3, FloorReadMoves
  <2>3. Typed'
    BY <1>1, <1>3, <2>2 DEF Typed
  <2>4. ReadsWereServed' /\ FloorIsAccepted' /\ WindowIsAnswered'
    BY <1>1, <1>3, <2>1, <2>2 DEF ReadsWereServed, FloorIsAccepted, WindowIsAnswered
  <2>5. DegradedBounded' /\ NoRewind'
    BY <1>1, <2>2 DEF DegradedBounded, NoRewind
  <2> QED BY <2>3, <2>4, <2>5
<1> QED BY <1>2, <1>3 DEF Classify

LEMMA VerifyKeeps ==
  ASSUME IInv, NEW r \in Requests, Verify(r)
  PROVE  IInv'
<1> USE DEF IInv
<1> DEFINE q == req[r]
           ok == verify_admission_state_record(q.raw, q.floor, q.now)
           f == IF ok THEN CheckLive(q.evidence, q.raw, q.now) ELSE "AdmissionNotCurrent"
<1>1. /\ UNCHANGED <<clock, offset, store, issued, revoked, lastServed>>
      /\ q.pc = "verify" /\ DOMAIN req = Requests /\ q \in Task
      /\ record_read(q.start) /\ answered' = Max({answered, q.start})
      /\ Finish(r, f)
      /\ IF ok THEN floor' = Max({floor, q.raw.revision}) /\ accepted' = Max({accepted, q.raw.revision})
               ELSE UNCHANGED <<floor, accepted>>
  BY DEF Verify, record_observed, Typed
<1>2. f \in Facets /\ f # "Degraded" /\ (f = "LiveConfirmed" => q.raw.revision >= q.floor)
  BY DEF CheckLive, Facets, verify_admission_state_record
<1>3. floor' = accepted' /\ floor' \in Int
  <2>1. floor = accepted /\ floor \in Int /\ q.raw.revision \in Int
    BY <1>1 DEF Typed, FloorIsAccepted, Task, Statement
  <2>2. Max({floor, q.raw.revision}) \in {floor, q.raw.revision}
    BY <2>1, MaxOfTwo
  <2> QED BY <1>1, <2>1, <2>2
<1> HIDE DEF q, ok, f
<1>4. /\ last_read' \in Nat /\ answered' = last_read' /\ last_read' # Never
      /\ lastServed # Never /\ last_read' <= lastServed
  BY <1>1, RecordRead DEF q
<1>5. /\ req' \in [Requests -> Task] /\ \A s \in Requests : s # r => req'[s] = req[s]
      /\ req'[r].pc = "done" /\ req'[r].facet = f /\ req'[r].start <= clock
      /\ f = "LiveConfirmed" => req'[r].raw = q.raw /\ req'[r].before = q.before
  BY <1>1, <1>2, FinishLeaves DEF q
<1>6. Typed'
  BY <1>1, <1>3, <1>4, <1>5 DEF Typed
<1>7. ReadsWereServed' /\ FloorIsAccepted' /\ WindowIsAnswered'
  BY <1>1, <1>3, <1>4, <1>5 DEF ReadsWereServed, FloorIsAccepted, WindowIsAnswered
<1>8. DegradedBounded'
  BY <1>1, <1>2, <1>5 DEF DegradedBounded
<1>9. NoRewind'
  <2>1. q.floor >= q.before /\ q.floor \in Int /\ q.before \in Int /\ q.raw.revision \in Int
    BY <1>1 DEF FloorIsAccepted, q, Task, Statement
  <2>2. f = "LiveConfirmed" => q.raw.revision >= q.before
    BY <1>2, <2>1
  <2> QED BY <1>1, <1>5, <2>2 DEF NoRewind
<1> QED BY <1>6, <1>7, <1>8, <1>9

LEMMA RestartKeeps ==
  ASSUME IInv, Restart
  PROVE  IInv'
<1> USE DEF IInv, Restart, DegradedWindow_unearned
<1>1. Idle \in Task /\ Idle.pc = "idle" /\ Idle.facet = "none" /\ Idle.start = 0
  BY DEF Idle, Task, Claim, Statement, NoRecord, Presented, Facets
<1>2. Typed'
  BY <1>1 DEF Typed
<1>3. ReadsWereServed' /\ FloorIsAccepted' /\ WindowIsAnswered'
  BY <1>1 DEF ReadsWereServed, FloorIsAccepted, WindowIsAnswered
<1>4. DegradedBounded' /\ NoRewind'
  BY <1>1 DEF DegradedBounded, NoRewind
<1> QED BY <1>2, <1>3, <1>4

(* The authority, the substrate and the clocks.                            *)
LEMMA OutsideTyped ==
  ASSUME Typed, \/ \E g \in Generations, s \in {"admitted", "revoked"}, life \in {MaxAge, MaxAge + 1} :
                     Issue(g, s, life)
                \/ Substrate \/ Tick \/ Step
  PROVE  /\ Typed' /\ UNCHANGED <<floor, last_read, req, lastServed, answered, accepted>>
         /\ clock' >= clock
<1>1. ASSUME NEW g \in Generations, NEW s \in {"admitted", "revoked"},
             NEW life \in {MaxAge, MaxAge + 1}, Issue(g, s, life)
      PROVE  Typed'
  <2> DEFINE rec == [revision |-> Revision + 1, generation |-> g, status |-> s,
                     iat |-> clock, exp |-> clock + life, sound |-> TRUE]
  <2>1. rec \in Statement
    <3>1. Revision \in Nat
      BY FS_CardinalityType DEF Revision, Typed
    <3>2. g \in Int /\ life \in Int /\ clock \in Int
      BY AdmissionAssumption DEF Typed
    <3> QED BY <3>1, <3>2 DEF Statement
  <2>2. /\ issued' = issued \cup {rec} /\ store' \in {rec, store}
        /\ revoked' \in {revoked, [revoked EXCEPT ![g] = clock]}
        /\ UNCHANGED <<clock, offset, floor, last_read, req, lastServed, answered, accepted>>
    BY <1>1 DEF Issue
  <2> HIDE DEF rec
  <2>3. issued' \subseteq Statement /\ IsFiniteSet(issued') /\ store' \in Statement
    BY <2>1, <2>2, FS_AddElement DEF Typed
  <2>4. revoked' \in [Generations -> Nat \cup {Never}]
    BY <2>2 DEF Typed
  <2> QED BY <2>2, <2>3, <2>4 DEF Typed
<1>2. CASE Substrate
  <2>1. NoRecord \in Statement /\ Forged \in Statement
    <3>1. NoRecord \in Statement
      BY DEF NoRecord, Statement
    <3> QED BY <3>1 DEF Forged, Statement
  <2> QED BY <1>2, <2>1 DEF Substrate, Typed
<1>3. CASE Tick
  <2>1. \A r \in Requests : req[r].start \in Nat /\ req[r].start <= clock /\ clock \in Nat
    BY DEF Typed, Task
  <2>2. clock' = clock + 1
    BY <1>3 DEF Tick
  <2> QED BY <1>3, <2>1, <2>2 DEF Tick, Typed
<1>4. CASE Step
  BY <1>4 DEF Step, Typed
<1>5. /\ UNCHANGED <<floor, last_read, req, lastServed, answered, accepted>>
      /\ clock' >= clock
  <2>1. clock' = clock + 1 \/ clock' = clock
    BY DEF Issue, Substrate, Tick, Step
  <2>2. UNCHANGED <<floor, last_read, req, lastServed, answered, accepted>>
    BY DEF Issue, Substrate, Tick, Step
  <2> QED BY <2>1, <2>2 DEF Typed
<1> QED BY <1>1, <1>2, <1>3, <1>4, <1>5

LEMMA NextIInv ==
  ASSUME IInv, [Next]_vars
  PROVE  IInv'
<1>1. CASE UNCHANGED vars
  BY <1>1, OutsideKeeps DEF vars, IInv, Typed
<1>2. ASSUME NEW r \in Requests, NEW g \in Generations, NEW e \in Presents, Begin(r, Evidence(g)[e])
      PROVE  IInv'
  BY <1>2, EvidenceIsClaim, BeginKeeps DEF IInv, Typed
<1>3. ASSUME \/ \E g \in Generations, s \in {"admitted", "revoked"}, life \in {MaxAge, MaxAge + 1} :
                  Issue(g, s, life)
             \/ Substrate \/ Tick \/ Step
      PROVE  IInv'
  BY <1>3, OutsideTyped, OutsideKeeps DEF IInv
<1> QED BY <1>1, <1>2, <1>3, GetKeeps, GetFailsKeeps, ClassifyKeeps, VerifyKeeps, RestartKeeps DEF Next

LEMMA IInvHolds == Spec => []IInv
<1>1. Init => IInv
  BY InitIInv
<1>2. IInv /\ [Next]_vars => IInv'
  BY NextIInv
<1> QED BY <1>1, <1>2, PTL DEF Spec

(* A call served on its own assertion began at most P after the store last *)
(* executed a lookup, whatever the wall clock, the store and restarts did. *)
(* (DegradedWindow::exhausted, record_read)                                *)
THEOREM DegradedBoundedHolds == Spec => []DegradedBounded
<1>1. IInv => DegradedBounded
  BY DEF IInv
<1> QED BY <1>1, IInvHolds, PTL

(* No call is confirmed by a revision below one the process had accepted   *)
(* when the call's floor was read, though the floor is read under one lock *)
(* and raised under another.  (AdmissionRecordVerifier::record_observed)   *)
THEOREM NoRewindHolds == Spec => []NoRewind
<1>1. IInv => NoRewind
  BY DEF IInv
<1> QED BY <1>1, IInvHolds, PTL

(* A call with good evidence is refused for an outage only when no lookup  *)
(* this process saw answered began within the bound, in whatever order the *)
(* answers came back.  (DegradedWindow::record_read)                       *)
THEOREM WindowNotCutShortHolds ==
  ASSUME AllowDegraded
  PROVE  Spec => [][DegradedEntitledStep]_vars
<1>1. IInv /\ [Next]_vars => [DegradedEntitledStep]_vars
  <2> SUFFICES ASSUME IInv, Next PROVE DegradedEntitledStep
    OBVIOUS
  <2> SUFFICES ASSUME NEW r \in Requests, req[r].pc \in {"lookup", "answered"},
                      req'[r].facet = "AdmissionStateUnavailable",
                      req[r].evidence.iat >= req[r].now - (P + Skew)
               PROVE  answered = Never \/ req[r].start - answered > P
    BY DEF DegradedEntitledStep
  <2> USE DEF IInv
  <2>1. req[r].facet = "none" /\ req[r] \in Task
    BY DEF Typed
  <2>2. GetFails(r)
    <3>1. ASSUME NEW s \in Requests, s # r,
                 Get(s) \/ GetFails(s) \/ Classify(s) \/ Verify(s) \/ \E e \in Claim : Begin(s, e)
          PROVE  req'[r] = req[r]
      <4> USE DEF Typed
      <4>1. CASE Get(s)
        BY <3>1, <4>1, GetMoves
      <4>2. CASE GetFails(s)
        BY <3>1, <4>2 DEF GetFails, Finish
      <4>3. CASE Classify(s)
        BY <3>1, <4>3 DEF Classify, Finish
      <4>4. CASE Verify(s)
        BY <3>1, <4>4 DEF Verify, Finish
      <4>5. CASE \E e \in Claim : Begin(s, e)
        BY <3>1, <4>5 DEF Begin
      <4> QED BY <3>1, <4>1, <4>2, <4>3, <4>4, <4>5
    <3>2. ~Get(r) /\ ~Verify(r) /\ \A e \in Claim : ~Begin(r, e)
      BY GetMoves DEF Verify, Begin
    <3>3. ~Classify(r)
      <4>1. ASSUME Classify(r), Finish(r, "AdmissionNotCurrent") PROVE FALSE
        BY <4>1, FinishLeaves DEF Facets
      <4>2. ASSUME req[r].pc = "answered",
                   req' = [req EXCEPT ![r].pc = "verify", ![r].floor = floor, ![r].before = accepted]
            PROVE  FALSE
        BY <4>2, FloorReadMoves
      <4> QED BY <4>1, <4>2 DEF Classify
    <3>4. ASSUME NEW s \in Requests, NEW g \in Generations, NEW e \in Presents, Begin(s, Evidence(g)[e])
          PROVE  FALSE
      <4>1. Evidence(g)[e] \in Claim
        BY EvidenceIsClaim DEF Typed
      <4> QED BY <2>1, <3>1, <3>2, <3>4, <4>1
    <3>5. ~Restart
      BY DEF Restart, Idle
    <3>6. req' # req
      BY <2>1
    <3>7. ASSUME \/ \E g \in Generations, s \in {"admitted", "revoked"}, life \in {MaxAge, MaxAge + 1} :
                      Issue(g, s, life)
                 \/ Substrate \/ Tick \/ Step
          PROVE  FALSE
      BY <3>6, <3>7, OutsideTyped
    <3> QED BY <2>1, <3>1, <3>2, <3>3, <3>4, <3>5, <3>7 DEF Next
  <2>3. PICK f : f = CheckDegraded(req[r].evidence, req[r].start, req[r].now)
    OBVIOUS
  <2>4. Finish(r, f) /\ f \in Facets
    BY <2>2, <2>3 DEF GetFails, CheckDegraded, Facets
  <2>5. f = "AdmissionStateUnavailable"
    BY <2>4, FinishLeaves
  <2>6. ~AllowDegraded \/ req[r].now - req[r].evidence.iat > P + Skew \/ exhausted(req[r].start)
    BY <2>3, <2>5 DEF CheckDegraded
  <2>7. /\ req[r].now \in Int /\ req[r].evidence.iat \in Int /\ P \in Int /\ Skew \in Int
        /\ req[r].start \in Int /\ last_read \in Int
    BY <2>1, AdmissionAssumption DEF Task, Claim, Typed, Never
  <2>8. exhausted(req[r].start)
    BY <2>6, <2>7
  <2>9. last_read = Never \/ req[r].start - last_read > Max({P, 0})
    BY <2>8 DEF exhausted
  <2> QED BY <2>7, <2>9, BoundIsInt DEF WindowIsAnswered
<1> QED BY <1>1, IInvHolds, PTL DEF Spec


-----------------------------------------------------------------------------
(* What a revocation needs besides: an admitted record was signed before   *)
(* its generation was revoked, and what is sound was signed.               *)
SignedBeforeRevoked ==
  \A x \in issued : x.status = "admitted" =>
    /\ x.generation \in Generations /\ x.iat <= clock
    /\ revoked[x.generation] # Never => x.iat <= revoked[x.generation]

SoundIsIssued ==
  /\ store.sound => store \in issued
  /\ \A r \in Requests : req[r].raw.sound => req[r].raw \in issued

(* A call on its way reads the wall clock within the skew of its start.    *)
NowIsNear ==
  \A r \in Requests : req[r].pc \in {"lookup", "answered", "verify"} =>
    req[r].start - Skew <= req[r].now

(* A confirmed call was confirmed by a record still inside its budget.     *)
Confirmed ==
  \A r \in Requests : req[r].facet = "LiveConfirmed" =>
    LET q == req[r] IN
    /\ q.raw.sound /\ q.raw.status = "admitted" /\ q.evidence.generation = q.raw.generation
    /\ q.start < q.raw.iat + MaxAge + 2 * Skew

RInv == SignedBeforeRevoked /\ SoundIsIssued /\ NowIsNear /\ Confirmed

LEMMA InitRInv == ASSUME Init PROVE RInv
  BY DEF Init, RInv, SignedBeforeRevoked, SoundIsIssued, NowIsNear, Confirmed, Idle, NoRecord

(* A step that only moves one task, and keeps its record or takes the      *)
(* store's.                                                                *)
LEMMA TaskKeeps ==
  ASSUME Typed, RInv, NEW r \in Requests, UNCHANGED <<clock, store, issued, revoked>>,
         req' \in [Requests -> Task], \A s \in Requests : s # r => req'[s] = req[s],
         req'[r].raw \in {req[r].raw, store, NoRecord},
         req'[r].pc \in {"lookup", "answered", "verify"} =>
           req'[r].start - Skew <= req'[r].now,
         req'[r].facet = "LiveConfirmed" =>
           LET q == req'[r] IN
           /\ q.raw.sound /\ q.raw.status = "admitted" /\ q.evidence.generation = q.raw.generation
           /\ q.start < q.raw.iat + MaxAge + 2 * Skew
  PROVE  RInv'
<1> USE DEF RInv
<1>1. SignedBeforeRevoked'
  BY DEF SignedBeforeRevoked
<1>2. SoundIsIssued'
  <2>1. req'[r].raw.sound => req'[r].raw \in issued
    BY DEF SoundIsIssued, NoRecord
  <2> QED BY <2>1 DEF SoundIsIssued
<1>3. NowIsNear'
  BY DEF NowIsNear
<1>4. Confirmed'
  BY DEF Confirmed
<1> QED BY <1>1, <1>2, <1>3, <1>4

(* The record that confirms a call is judged at a clock within the skew.   *)
LEMMA VerifyConfirms ==
  ASSUME Typed, RInv, NEW r \in Requests, Verify(r)
  PROVE  RInv'
<1> DEFINE q == req[r]
           ok == verify_admission_state_record(q.raw, q.floor, q.now)
           f == IF ok THEN CheckLive(q.evidence, q.raw, q.now) ELSE "AdmissionNotCurrent"
<1>1. /\ UNCHANGED <<clock, store, issued, revoked>> /\ q.pc = "verify" /\ q \in Task /\ Finish(r, f)
  BY DEF Verify, Typed
<1>2. f \in Facets
  BY DEF CheckLive, Facets
<1>3. /\ q.start \in Int /\ q.now \in Int /\ q.raw.iat \in Int /\ q.raw.exp \in Int
      /\ Skew \in Int /\ MaxAge \in Int
  BY <1>1, AdmissionAssumption DEF Task, Statement
<1>4. f = "LiveConfirmed" =>
        /\ q.raw.sound /\ q.raw.status = "admitted" /\ q.evidence.generation = q.raw.generation
        /\ q.start < q.raw.iat + MaxAge + 2 * Skew
  <2> SUFFICES ASSUME f = "LiveConfirmed"
               PROVE  /\ q.raw.sound /\ q.raw.status = "admitted"
                      /\ q.evidence.generation = q.raw.generation
                      /\ q.start < q.raw.iat + MaxAge + 2 * Skew
    OBVIOUS
  <2>1. /\ q.raw.sound /\ q.raw.status = "admitted" /\ q.evidence.generation = q.raw.generation
        /\ q.now < q.raw.exp + Skew /\ q.raw.exp - q.raw.iat <= MaxAge
    BY DEF CheckLive, verify_admission_state_record, check_currentness
  <2>2. q.start - Skew <= q.now
    BY <1>1 DEF RInv, NowIsNear
  <2> HIDE DEF q
  <2> QED BY <1>3, <2>1, <2>2
<1> HIDE DEF f
<1>5. /\ req' \in [Requests -> Task] /\ \A s \in Requests : s # r => req'[s] = req[s]
      /\ req'[r].pc = "done" /\ req'[r].facet = f
      /\ f \in {"LiveConfirmed", "Degraded"} =>
           req'[r].raw = q.raw /\ req'[r].start = q.start /\ req'[r].evidence = q.evidence
      /\ f \notin {"LiveConfirmed", "Degraded"} => req'[r].raw = NoRecord
  BY <1>1, <1>2, FinishLeaves
<1>6. f = "LiveConfirmed" =>
        LET p == req'[r] IN
        /\ p.raw.sound /\ p.raw.status = "admitted" /\ p.evidence.generation = p.raw.generation
        /\ p.start < p.raw.iat + MaxAge + 2 * Skew
  BY <1>4, <1>5
<1> QED BY <1>1, <1>5, <1>6, TaskKeeps

LEMMA IssueKeeps ==
  ASSUME Typed, RInv, NEW g \in Generations, NEW s \in {"admitted", "revoked"},
         NEW life \in {MaxAge, MaxAge + 1}, Issue(g, s, life)
  PROVE  RInv'
<1> USE DEF RInv
<1> DEFINE rec == [revision |-> Revision + 1, generation |-> g, status |-> s,
                   iat |-> clock, exp |-> clock + life, sound |-> TRUE]
<1>1. /\ issued' = issued \cup {rec} /\ store' \in {rec, store}
      /\ revoked' = IF s = "revoked" /\ revoked[g] = Never
                    THEN [revoked EXCEPT ![g] = clock] ELSE revoked
      /\ s = "admitted" => revoked[g] = Never
      /\ UNCHANGED <<clock, req>>
  BY DEF Issue
<1>2. rec.generation = g /\ rec.status = s /\ rec.iat = clock /\ rec.sound
  OBVIOUS
<1> HIDE DEF rec
<1>3. SignedBeforeRevoked'
  <2> SUFFICES ASSUME NEW x \in issued', x.status = "admitted"
               PROVE  /\ x.generation \in Generations /\ x.iat <= clock
                      /\ revoked'[x.generation] # Never => x.iat <= revoked'[x.generation]
    BY <1>1 DEF SignedBeforeRevoked
  <2>1. CASE x = rec
    BY <1>1, <1>2, <2>1 DEF Typed
  <2>2. CASE x \in issued
    BY <1>1, <2>2 DEF SignedBeforeRevoked, Typed
  <2> QED BY <1>1, <2>1, <2>2
<1>4. SoundIsIssued'
  BY <1>1 DEF SoundIsIssued
<1>5. NowIsNear' /\ Confirmed'
  BY <1>1 DEF NowIsNear, Confirmed
<1> QED BY <1>3, <1>4, <1>5

LEMMA BeginNear ==
  ASSUME ClocksAgree, Typed, RInv, NEW r \in Requests, NEW e \in Claim, Begin(r, e)
  PROVE  RInv'
<1>1. wall \in Int /\ clock - Skew <= wall
  BY AdmissionAssumption DEF ClocksAgree, wall, Typed
<1>2. Idle \in Task
  BY DEF Idle, Task, Claim, Statement, NoRecord, Presented, Facets
<1>3. /\ req'[r] \in Task /\ req'[r].start = clock /\ req'[r].now = wall
      /\ req'[r].facet # "LiveConfirmed" /\ req'[r].raw = NoRecord
      /\ req' \in [Requests -> Task]
      /\ \A s \in Requests : s # r => req'[s] = req[s]
  BY <1>1, <1>2 DEF Begin, Task, Facets, Typed, Idle
<1>4. UNCHANGED <<clock, store, issued, revoked>>
  BY DEF Begin
<1> QED BY <1>1, <1>3, <1>4, TaskKeeps

LEMMA NextRInv ==
  ASSUME ClocksAgree, Typed, RInv, [Next]_vars
  PROVE  RInv'
<1>1. CASE UNCHANGED vars
  BY <1>1 DEF vars, RInv, SignedBeforeRevoked, SoundIsIssued, NowIsNear, Confirmed
<1>2. ASSUME NEW r \in Requests, NEW g \in Generations, NEW e \in Presents, Begin(r, Evidence(g)[e])
      PROVE  RInv'
  BY <1>2, EvidenceIsClaim, BeginNear DEF Typed
<1>3. ASSUME NEW r \in Requests, Get(r)
      PROVE  RInv'
  <2>1. UNCHANGED <<clock, store, issued, revoked>> /\ req[r].start - Skew <= req[r].now
    BY <1>3 DEF Get, RInv, NowIsNear
  <2>2. /\ req' \in [Requests -> Task] /\ \A s \in Requests : s # r => req'[s] = req[s]
        /\ req'[r].start = req[r].start /\ req'[r].facet = "none"
        /\ req'[r].raw = store /\ req'[r].now = req[r].now
    BY <1>3, GetMoves
  <2> QED BY <2>1, <2>2, TaskKeeps
<1>4. ASSUME NEW r \in Requests, NEW f \in Facets \ {"LiveConfirmed"}, Finish(r, f),
             UNCHANGED <<clock, store, issued, revoked>>
      PROVE  RInv'
  <2>1. /\ req' \in [Requests -> Task] /\ \A s \in Requests : s # r => req'[s] = req[s]
        /\ req'[r].pc = "done" /\ req'[r].facet = f /\ req'[r].raw \in {req[r].raw, NoRecord}
    BY <1>4, FinishLeaves
  <2> QED BY <1>4, <2>1, TaskKeeps
<1>5. ASSUME NEW r \in Requests, GetFails(r)
      PROVE  RInv'
  <2>1. CheckDegraded(req[r].evidence, req[r].start, req[r].now) \in Facets \ {"LiveConfirmed"}
    BY DEF CheckDegraded, Facets
  <2> QED BY <1>4, <1>5, <2>1 DEF GetFails
<1>6. ASSUME NEW r \in Requests, Classify(r)
      PROVE  RInv'
  <2>1. UNCHANGED <<clock, store, issued, revoked>> /\ req[r].pc = "answered"
    BY <1>6 DEF Classify
  <2>2. CASE Finish(r, "AdmissionNotCurrent")
    BY <1>4, <2>1, <2>2 DEF Facets
  <2>3. CASE req' = [req EXCEPT ![r].pc = "verify", ![r].floor = floor, ![r].before = accepted]
    <3>1. /\ req' \in [Requests -> Task] /\ \A s \in Requests : s # r => req'[s] = req[s]
          /\ req'[r].start = req[r].start /\ req'[r].facet = "none"
          /\ req'[r].raw = req[r].raw /\ req'[r].now = req[r].now
      BY <2>1, <2>3, FloorReadMoves
    <3>2. req[r].start - Skew <= req[r].now
      BY <2>1 DEF RInv, NowIsNear
    <3> QED BY <2>1, <3>1, <3>2, TaskKeeps
  <2> QED BY <1>6, <2>2, <2>3 DEF Classify
<1>7. CASE Substrate
  <2>1. SoundIsIssued'
    BY <1>7 DEF Substrate, RInv, SoundIsIssued, NoRecord, Forged
  <2> QED BY <1>7, <2>1 DEF Substrate, RInv, SignedBeforeRevoked, NowIsNear, Confirmed
<1>8. CASE Restart
  BY <1>8 DEF Restart, RInv, SignedBeforeRevoked, SoundIsIssued, NowIsNear, Confirmed, Idle, NoRecord
<1>9. CASE Tick
  <2>1. clock' = clock + 1 /\ UNCHANGED <<store, issued, revoked, req>> /\ clock \in Nat
    BY <1>9 DEF Tick, Typed
  <2>2. SignedBeforeRevoked'
    <3>1. \A x \in issued : x.iat \in Int
      BY DEF Typed, Statement
    <3> QED BY <2>1, <3>1 DEF RInv, SignedBeforeRevoked
  <2> QED BY <2>1, <2>2 DEF RInv, SoundIsIssued, NowIsNear, Confirmed
<1>10. CASE Step
  BY <1>10 DEF Step, RInv, SignedBeforeRevoked, SoundIsIssued, NowIsNear, Confirmed
<1> QED BY <1>1, <1>2, <1>3, <1>5, <1>6, <1>7, <1>8, <1>9, <1>10, VerifyConfirms, IssueKeeps DEF Next

(* A revocation ends live serving within the currentness budget: no call   *)
(* that starts a record's age and both clocks' error after it is confirmed *)
(* by what was signed before, wherever the store was put back to.          *)
(* (check_currentness)                                                     *)
THEOREM RevokedOutHolds ==
  ASSUME ClocksAgree
  PROVE  Spec => []RevokedOut
<1>1. Init => RInv
  BY InitRInv
<1>2. IInv /\ RInv /\ [Next]_vars => RInv'
  BY NextRInv DEF IInv
<1>3. IInv /\ RInv => RevokedOut
  <2> SUFFICES ASSUME IInv, RInv, NEW r \in Requests, req[r].facet = "LiveConfirmed",
                      revoked[req[r].evidence.generation] # Never
               PROVE  req[r].start < revoked[req[r].evidence.generation] + MaxAge + 2 * Skew
    BY DEF RevokedOut, IInv, Typed
  <2>1. /\ req[r].raw \in issued /\ req[r].raw.status = "admitted"
        /\ req[r].evidence.generation = req[r].raw.generation
        /\ req[r].start < req[r].raw.iat + MaxAge + 2 * Skew
    BY DEF RInv, Confirmed, SoundIsIssued
  <2>2. /\ req[r].raw.generation \in Generations
        /\ req[r].raw.iat <= revoked[req[r].raw.generation]
    BY <2>1 DEF RInv, SignedBeforeRevoked
  <2>3. /\ req[r].start \in Int /\ req[r].raw.iat \in Int /\ MaxAge \in Int /\ Skew \in Int
        /\ revoked[req[r].raw.generation] \in Int
    BY <2>2, AdmissionAssumption DEF IInv, Typed, Task, Statement, Never
  <2> QED BY <2>1, <2>2, <2>3
<1> QED BY <1>1, <1>2, <1>3, IInvHolds, PTL DEF Spec
=============================================================================
