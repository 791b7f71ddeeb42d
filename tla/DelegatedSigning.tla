-------------------------- MODULE DelegatedSigning --------------------------
(***************************************************************************)
(* Response signing: the custody of the delegated key, the rotation worker *)
(* that keeps it fresh and moves it to the shared trust epoch, the         *)
(* snapshot the serving cores read, and the window one exchange signs in.  *)
(*                                                                         *)
(* Time is kept as countdowns: a key's left is exp - now, and a tick is    *)
(* the unit of every duration constant.  An absent key and an expired one  *)
(* decide alike everywhere, so left = 0 stands for both.                   *)
(***************************************************************************)
EXTENDS Integers, FiniteSets, FiniteSetsExt

CONSTANTS
  ttl, overlap,                    \* DelegatedKeyWindow
  ISSUANCE_ATTEMPTS_PER_OVERLAP, MIN_ISSUANCE_RETRY_SECS,
  ROTATION_BACKOFF_BASE_MS, ROTATION_BACKOFF_MAX_MS, ROTATION_BACKOFF_MIN_MS,
  Watch,                           \* a shared trust epoch is configured
  MaxEpoch,                        \* operator INCRs
  MaxOutages,                      \* times the root issuer goes away
  MaxCall,                         \* ticks one root call may take
  MaxAge,                          \* how far an outage's age is told apart
  Faults,                          \* of "regress", "unreadable", "drop", "panic"
  Exchange, sig_ttl_secs, completion_bound, MaxPre

ASSUME SigningAssumption ==
  /\ ttl \in Nat /\ overlap \in Nat /\ 0 < overlap /\ overlap < ttl
  /\ ISSUANCE_ATTEMPTS_PER_OVERLAP \in Nat \ {0} /\ MIN_ISSUANCE_RETRY_SECS \in Nat \ {0}
  /\ ROTATION_BACKOFF_BASE_MS \in Nat \ {0} /\ ROTATION_BACKOFF_MIN_MS \in Nat \ {0}
  /\ ROTATION_BACKOFF_MAX_MS \in Nat /\ ROTATION_BACKOFF_MAX_MS >= ROTATION_BACKOFF_MIN_MS
  /\ MaxEpoch \in Nat /\ MaxOutages \in Nat /\ MaxCall \in Nat /\ MaxPre \in Nat
  /\ MaxAge \in Nat
  /\ Faults \subseteq {"regress", "unreadable", "drop", "panic"}
  /\ sig_ttl_secs \in Nat /\ completion_bound \in Nat

VARIABLES
  counter, seen_max,   \* the shared trust epoch, and the highest it has been
  rootUp, outages, upFor, downFor,
  active,              \* custody: the key it holds
  cfg_epoch,           \* custody: CustodyConfig::trust_epoch
  hold,                \* custody: next_attempt_at - now
  snapshot,            \* DelegatedServerSigner: what the cores read
  pc,                  \* the rotation worker
  timer,               \* ticks left of its wait or its back-off
  root_call,           \* the root call in flight
  high_water, last_label, failures,
  halted,              \* the owner's halt flag
  ex                   \* exchange -> its window and where it stands

rootVars  == <<rootUp, outages, upFor, downFor>>
epochVars == <<counter, seen_max>>
custody   == <<active, cfg_epoch, hold>>
rotor     == <<pc, timer, root_call, high_water, last_label, failures>>
signingVars == <<epochVars, rootVars, custody, snapshot, rotor, halted, ex>>

Epoch == 0..MaxEpoch
Key == [kid : 0..1, left : 0..ttl, epoch : Epoch]
NoKey == [kid |-> 0, left |-> 0, epoch |-> 0]

retry_interval == Max({overlap \div ISSUANCE_ATTEMPTS_PER_OVERLAP, MIN_ISSUANCE_RETRY_SECS})

(* Failures beyond the ceiling of the schedule change nothing.             *)
FailureCap == ROTATION_BACKOFF_MAX_MS + 1
Ages == 0..MaxAge

Call == [kind : {"rotate", "advance"}, left : 0..ttl, hold : 0..retry_interval,
         was : BOOLEAN, before : 0..2, label : Epoch, age : 0..MaxCall]
NoCall == [kind |-> "rotate", left |-> 0, hold |-> 0, was |-> FALSE, before |-> 2,
           label |-> 0, age |-> 0]

NoWindow == [phase |-> "idle", len |-> 0, since |-> 0, pre |-> 0, key |-> NoKey]

SigningTypeOK ==
  /\ counter \in Epoch /\ seen_max \in Epoch
  /\ rootUp \in BOOLEAN /\ outages \in 0..MaxOutages
  /\ upFor \in Ages /\ downFor \in Ages
  /\ active \in Key /\ cfg_epoch \in Epoch /\ hold \in 0..retry_interval
  /\ snapshot \in [state : {"Empty", "Active", "Terminal"}, key : Key]
  /\ pc \in {"wait", "observe", "due", "root", "sleep", "stopped"}
  /\ timer \in 0..Max({ttl, ROTATION_BACKOFF_MAX_MS})
  /\ root_call \in Call
  /\ high_water \in Epoch /\ last_label \in Epoch /\ failures \in 0..FailureCap
  /\ halted \in BOOLEAN
  /\ ex \in [Exchange -> [phase : {"idle", "open", "dispatched", "replied"},
                          len : 0..sig_ttl_secs, since : Nat, pre : 0..MaxPre, key : Key]]

Valid == snapshot.state = "Active" /\ snapshot.key.left > 0

Current == IF Valid THEN snapshot.key ELSE NoKey

(* SigningPlane::materialize: the label is resolved, the first key minted. *)
SigningInit ==
  /\ counter = 0 /\ seen_max = 0
  /\ rootUp = TRUE /\ outages = 0 /\ upFor = 0 /\ downFor = 0
  /\ active = [kid |-> 0, left |-> ttl, epoch |-> 0]
  /\ cfg_epoch = 0 /\ hold = 0
  /\ snapshot = [state |-> "Active", key |-> active]
  /\ pc = "wait" /\ timer = ttl - overlap /\ root_call = NoCall
  /\ high_water = 0 /\ last_label = 0 /\ failures = 0
  /\ halted = FALSE
  /\ ex = [x \in Exchange |-> NoWindow]

-----------------------------------------------------------------------------
(* DelegatedServerSigner: the snapshot and its terminal state.             *)

(* Mutant of Publish: a terminal retirement does not stop it.              *)
PublishRegardless(k) == [state |-> "Active", key |-> k]

Publish(k) == IF snapshot.state = "Terminal" THEN snapshot ELSE [state |-> "Active", key |-> k]
Retire == IF snapshot.state = "Terminal" THEN snapshot ELSE [state |-> "Empty", key |-> NoKey]
RetirePermanently == [state |-> "Terminal", key |-> NoKey]

-----------------------------------------------------------------------------
(* The rotation worker's own steps: back to the top of its loop, or asleep. *)
SecondsToExpiry == snapshot'.key.left

(* Mutant of rotation_backoff: the schedule has no ceiling.                *)
rotation_backoff_unbounded(f, left) ==
  LET half == (ROTATION_BACKOFF_BASE_MS * 2^(f - 1)) \div 2
  IN {half + j : j \in 0..half}

rotation_backoff(f, left) ==
  LET capped == Min({ROTATION_BACKOFF_BASE_MS * 2^(f - 1), ROTATION_BACKOFF_MAX_MS})
      inside == IF left > 0 THEN Min({capped, left}) ELSE capped
      half == Max({inside, ROTATION_BACKOFF_MIN_MS}) \div 2
  IN {half + j : j \in 0..half}

wait_for_window ==
  IF snapshot'.state = "Active" /\ snapshot'.key.left > overlap
    THEN snapshot'.key.left - overlap ELSE 0

Top ==
  /\ failures' = 0
  /\ pc' = "wait"
  /\ timer' = wait_for_window

(* record_failure, then halt.sleep(rotation_backoff(..)).                  *)
BackOff ==
  /\ failures' = Min({failures + 1, FailureCap})
  /\ pc' = "sleep"
  /\ timer' \in rotation_backoff(failures', SecondsToExpiry)

Stop == pc' = "stopped" /\ timer' = 0

(* DelegatedEpochWatch::current_label                                      *)
Readable == counter >= high_water

(* The read fails, or the counter went back.                               *)
Unreadable == "unreadable" \in Faults \/ ~Readable

(* Mutant of LabelRead: the high-water mark is not consulted.              *)
LabelReadRebased == high_water' = counter

LabelRead == Readable /\ high_water' = counter

HaltSeen ==
  /\ halted
  /\ pc \in {"wait", "observe", "sleep"}
  /\ Stop
  /\ UNCHANGED <<epochVars, rootVars, custody, snapshot, root_call, high_water,
                 last_label, failures, halted, ex>>

WaitEnds ==
  /\ pc = "wait" /\ ~halted /\ timer = 0
  /\ pc' = "observe"
  /\ UNCHANGED <<epochVars, rootVars, custody, snapshot, timer, root_call, high_water,
                 last_label, failures, halted, ex>>

(* The poll of the shared epoch during the wait; a new label ends it.      *)
WaitPolls ==
  /\ pc = "wait" /\ ~halted /\ Watch /\ timer > 0
  /\ LabelRead
  /\ counter # last_label
  /\ pc' = "observe"
  /\ timer' = 0
  /\ UNCHANGED <<epochVars, rootVars, custody, snapshot, root_call, last_label,
                 failures, halted, ex>>

Wakes ==
  /\ pc = "sleep" /\ ~halted /\ timer = 0
  /\ pc' = "observe"
  /\ UNCHANGED <<epochVars, rootVars, custody, snapshot, timer, root_call, high_water,
                 last_label, failures, halted, ex>>

(* observe_trust_epoch: no source, or the label this replica mints under.  *)
ObserveSame ==
  /\ pc = "observe" /\ ~halted
  /\ \/ ~Watch /\ UNCHANGED high_water
     \/ Watch /\ LabelRead /\ counter = last_label
  /\ pc' = "due"
  /\ UNCHANGED <<epochVars, rootVars, custody, snapshot, timer, root_call, last_label,
                 failures, halted, ex>>

(* refuse_to_mint_without_a_comparable_epoch                               *)
ObserveNothing ==
  /\ pc = "observe" /\ ~halted /\ Watch /\ Unreadable
  /\ UNCHANGED <<epochVars, rootVars, custody, snapshot, root_call, high_water,
                 last_label, halted, ex>>
  /\ BackOff

Asks(kind, label) ==
  /\ pc' = "root"
  /\ root_call' = [kind |-> kind, left |-> ttl, hold |-> retry_interval, was |-> active.left > 0,
                   before |-> IF Valid THEN snapshot.key.kid ELSE 2, label |-> label, age |-> 0]

(* apply_epoch_advance: set_trust_epoch, then reissue, whatever the gate.  *)
ObserveAdvance ==
  /\ pc = "observe" /\ ~halted /\ Watch /\ LabelRead /\ counter # last_label
  /\ cfg_epoch' = counter
  /\ hold' = 0
  /\ Asks("advance", counter)
  /\ UNCHANGED <<epochVars, rootVars, active, snapshot, timer, last_label, failures,
                 halted, ex>>

-----------------------------------------------------------------------------
(* DelegatedSigningCustody and DelegatedRotor::rotate.                     *)
(* Mutant of rotation_due: the overlap is forgotten.                       *)
rotation_due_at_exp == active.left = 0

rotation_due == active.left <= overlap

attempt_allowed == hold = 0

rotation_made_progress(before) ==
  /\ snapshot'.state = "Active" /\ snapshot'.key.left > 0
  /\ snapshot'.key.kid # before \/ snapshot'.key.left > overlap

Rotated(before) == IF rotation_made_progress(before) THEN Top ELSE BackOff

StartRotation ==
  /\ pc = "due"
  /\ rotation_due /\ attempt_allowed
  /\ Asks("rotate", last_label)
  /\ UNCHANGED <<epochVars, rootVars, custody, snapshot, timer, high_water, last_label,
                 failures, halted, ex>>

(* ensure_active without an issuance: not due, or the root is held off.    *)
KeepKey ==
  /\ pc = "due"
  /\ ~(rotation_due /\ attempt_allowed)
  /\ snapshot' = IF active.left > 0 THEN Publish(active) ELSE Retire
  /\ IF active.left > 0 THEN Rotated(IF Valid THEN snapshot.key.kid ELSE 2) ELSE BackOff
  /\ UNCHANGED <<epochVars, rootVars, custody, root_call, high_water, last_label, halted, ex>>

Minted == [kid |-> 1 - active.kid, left |-> root_call.left, epoch |-> cfg_epoch]

(* The root signs: adopt, then publish.                                    *)
RootIssues ==
  /\ pc = "root" /\ rootUp
  /\ active' = Minted
  /\ hold' = 0
  /\ snapshot' = Publish(Minted)
  /\ \/ root_call.kind = "rotate" /\ UNCHANGED last_label /\ Rotated(root_call.before)
     \/ root_call.kind = "advance" /\ last_label' = root_call.label /\ Top
  /\ root_call' = NoCall
  /\ UNCHANGED <<epochVars, rootVars, cfg_epoch, high_water, halted, ex>>

(* Mutant of Declined: the declined advance is recorded as applied.        *)
DeclinedRecorded ==
  /\ root_call.kind = "advance" /\ root_call.was
  /\ last_label' = root_call.label
  /\ UNCHANGED snapshot
  /\ BackOff

(* TrustEpochAdvance::Declined: the predecessor serves on, nothing is said *)
(* to have advanced.                                                       *)
Declined ==
  /\ root_call.kind = "advance" /\ root_call.was
  /\ UNCHANGED <<snapshot, last_label>>
  /\ BackOff

(* Mutant of IssuanceFails: the worker leaves its loop.                    *)
IssuanceFailsStops ==
  /\ ~root_call.was
  /\ snapshot' = Retire
  /\ UNCHANGED <<last_label, failures>>
  /\ Stop

(* Nothing usable is left: the snapshot is retired.                        *)
IssuanceFails ==
  /\ ~root_call.was
  /\ snapshot' = Retire
  /\ UNCHANGED last_label
  /\ BackOff

(* The root declines: hold_off, and the key held serves to its exp.        *)
RootDeclines ==
  /\ pc = "root" /\ ~rootUp
  /\ hold' = root_call.hold
  /\ active' = IF root_call.was THEN active ELSE NoKey
  /\ \/ Declined
     \/ IssuanceFails
     \/ /\ root_call.kind = "rotate" /\ root_call.was
        /\ snapshot' = Publish(active)
        /\ UNCHANGED last_label
        /\ Rotated(root_call.before)
  /\ root_call' = NoCall
  /\ UNCHANGED <<epochVars, rootVars, cfg_epoch, high_water, halted, ex>>

-----------------------------------------------------------------------------
(* The owner: SigningPlane::drop, and the supervisor of a panicking worker. *)
DropPlane ==
  /\ "drop" \in Faults /\ ~halted
  /\ snapshot' = RetirePermanently
  /\ halted' = TRUE
  /\ UNCHANGED <<epochVars, rootVars, custody, rotor, ex>>

Panic ==
  /\ "panic" \in Faults /\ pc # "stopped"
  /\ snapshot' = RetirePermanently
  /\ Stop
  /\ failures' = Min({failures + 1, FailureCap})
  /\ UNCHANGED <<epochVars, rootVars, custody, root_call, high_water, last_label, halted, ex>>

-----------------------------------------------------------------------------
(* One exchange: SigningWindow::open, covers, and the reply signed in it.  *)

(* Mutant of WindowLength: the credential's own exp does not bound it.     *)
WindowLengthUnclamped(k) == sig_ttl_secs

WindowLength(k) == Min({sig_ttl_secs, k.left})

covers(len) == completion_bound < len

Open(x) ==
  /\ ex[x].phase = "idle"
  /\ Valid /\ WindowLength(snapshot.key) > 0
  /\ ex' = [ex EXCEPT ![x] = [phase |-> "open", len |-> WindowLength(snapshot.key),
                              since |-> 0, pre |-> 0, key |-> snapshot.key]]
  /\ UNCHANGED <<epochVars, rootVars, custody, snapshot, rotor, halted>>

(* commit_to_dispatch: the window must cover the dispatch, or it is refused. *)
RefuseUncovered(x) ==
  /\ ex[x].phase = "open" /\ ~covers(ex[x].len)
  /\ ex' = [ex EXCEPT ![x] = NoWindow]
  /\ UNCHANGED <<epochVars, rootVars, custody, snapshot, rotor, halted>>

Dispatch(x) ==
  /\ ex[x].phase = "open" /\ covers(ex[x].len)
  /\ ex' = [ex EXCEPT ![x].phase = "dispatched", ![x].pre = ex[x].since]
  /\ UNCHANGED <<epochVars, rootVars, custody, snapshot, rotor, halted>>

Reply(x) ==
  /\ ex[x].phase = "dispatched"
  /\ ex' = [ex EXCEPT ![x].phase = "replied"]
  /\ UNCHANGED <<epochVars, rootVars, custody, snapshot, rotor, halted>>

Deliver(x) ==
  /\ ex[x].phase = "replied"
  /\ ex' = [ex EXCEPT ![x] = NoWindow]
  /\ UNCHANGED <<epochVars, rootVars, custody, snapshot, rotor, halted>>

-----------------------------------------------------------------------------
(* Surroundings: the operator's counter, the root issuer and time.         *)
IncrEpoch ==
  /\ Watch /\ counter < MaxEpoch
  /\ counter' = counter + 1
  /\ seen_max' = Max({seen_max, counter + 1})
  /\ UNCHANGED <<rootVars, custody, snapshot, rotor, halted, ex>>

(* A failover to a stale replica of the counter, or the way back from one. *)
ShiftEpoch ==
  /\ "regress" \in Faults
  /\ counter' \in {seen_max, Max({0, seen_max - 1})} \ {counter}
  /\ UNCHANGED <<seen_max, rootVars, custody, snapshot, rotor, halted, ex>>

RootChanges ==
  /\ \/ rootUp /\ outages < MaxOutages /\ outages' = outages + 1 /\ downFor' = 0 /\ upFor' = 0
     \/ ~rootUp /\ upFor' = 0 /\ UNCHANGED <<outages, downFor>>
  /\ rootUp' = ~rootUp
  /\ UNCHANGED <<epochVars, custody, snapshot, rotor, halted, ex>>

Less(n) == IF n = 0 THEN 0 ELSE n - 1
More(n) == IF n + 1 \in Ages THEN n + 1 ELSE n
Aged(k) == [k EXCEPT !.left = Less(@)]

(* The worker is prompt: a tick passes only while it waits, sleeps or has  *)
(* a root call out.                                                        *)
SigningTick ==
  /\ \/ pc = "stopped"
     \/ pc \in {"wait", "sleep"} /\ timer > 0 /\ ~halted
     \/ pc = "root" /\ root_call.age < MaxCall
  /\ \A x \in Exchange :
       /\ ex[x].phase = "open" => ex[x].since < MaxPre
       /\ ex[x].phase = "dispatched" => ex[x].since - ex[x].pre < completion_bound
       /\ ex[x].phase # "replied"
  /\ active' = Aged(active)
  /\ hold' = Less(hold)
  /\ snapshot' = [snapshot EXCEPT !.key = Aged(@)]
  /\ timer' = Less(timer)
  /\ root_call' = IF pc = "root"
                    THEN [root_call EXCEPT !.left = Less(@), !.hold = Less(@), !.age = @ + 1]
                    ELSE root_call
  /\ ex' = [x \in Exchange |-> IF ex[x].phase = "idle" THEN ex[x]
              ELSE [ex[x] EXCEPT !.since = @ + 1, !.key = Aged(@)]]
  /\ upFor' = IF rootUp THEN More(upFor) ELSE 0
  /\ downFor' = IF rootUp THEN downFor ELSE More(downFor)
  /\ UNCHANGED <<epochVars, rootUp, outages, cfg_epoch, pc, high_water, last_label, failures,
                 halted>>

Rotor ==
  \/ HaltSeen \/ WaitEnds \/ WaitPolls \/ Wakes
  \/ ObserveSame \/ ObserveNothing \/ ObserveAdvance
  \/ StartRotation \/ KeepKey \/ RootIssues \/ RootDeclines

SigningNext ==
  \/ Rotor
  \/ DropPlane \/ Panic
  \/ \E x \in Exchange : Open(x) \/ RefuseUncovered(x) \/ Dispatch(x) \/ Reply(x) \/ Deliver(x)
  \/ IncrEpoch \/ ShiftEpoch \/ RootChanges \/ SigningTick

SigningSpec == SigningInit /\ [][SigningNext]_signingVars

-----------------------------------------------------------------------------
(* Once the plane is dropped no exchange opens a window any more, though a *)
(* mint may still be in flight and the worker still publishes it.          *)
(* (DelegatedServerSigner::publish against SigningPlane::drop)             *)
NoWindowAfterRetirement ==
  [][\A x \in Exchange : halted /\ ex[x].phase = "idle" => ex'[x].phase = "idle"]_signingVars

(* The key in service carries the label the worker has announced: a        *)
(* declined advance is not taken for one, and after an announced advance   *)
(* nothing is signed in a new window under the prior epoch.                *)
(* (apply_epoch_advance, DelegatedRotor::advance_trust_epoch)              *)
EpochInForce == snapshot.state = "Active" => snapshot.key.epoch = last_label

(* The epoch this replica mints under never goes back, whatever the store  *)
(* answers.  (DelegatedEpochWatch::current_label)                          *)
MintsForward == [][active'.left > active.left => active'.epoch >= active.epoch]_signingVars

(* The epoch is the operator's: the key in service carries the announced   *)
(* label, and the label minted under never goes back.                      *)
EpochHonoured == []EpochInForce /\ MintsForward

(* A reply whose dispatch kept its bound is signed in a window that has    *)
(* not closed, by a credential that has not expired, but for the local     *)
(* delay before the dispatch.  (SigningWindow::covers)                     *)
ReplyVerifiable ==
  \A x \in Exchange : ex[x].phase = "replied" =>
    ex[x].since - ex[x].pre < ex[x].len /\ ex[x].key.left + ex[x].pre > 0

(* A reply is signed inside its window by a credential that has not        *)
(* expired, if its dispatch kept the bound it stated; and none opens a     *)
(* window once the plane is dropped.                                       *)
RepliesVerify == [](SigningTypeOK /\ ReplyVerifiable) /\ NoWindowAfterRetirement

(* An outage of the root no longer than this never interrupts signing.     *)
Tolerated == overlap - retry_interval - ROTATION_BACKOFF_MAX_MS - 2 * MaxCall

(* One outage, the time to call for a key before it and no other fault: a  *)
(* call is shorter than the overlap and leaves a new key its own.          *)
OneOutage ==
  /\ ~ Watch /\ Faults \cap {"drop", "panic"} = {} /\ MaxOutages <= 1
  /\ MaxCall < overlap /\ overlap + MaxCall <= ttl
  /\ Tolerated <= MaxAge

(* A passing outage of the root issuer is recovered from before the key    *)
(* expires: the overlap leaves room for the call that failed, the hold-off *)
(* and one back-off.  (rotation_backoff, attempt_allowed)                  *)
OutageRidden == pc # "stopped" /\ downFor < Tolerated => Valid

Recovered(delay) == rootUp /\ outages > 0 /\ upFor > delay /\ pc # "stopped" => Valid

(* Signing is back at the latest one hold-off, one back-off and two calls  *)
(* after the root answers again.                                           *)
ResumesWithinHoldOff == Recovered(retry_interval + ROTATION_BACKOFF_MAX_MS + 2 * MaxCall)

(* The root's outage is ridden out, or recovered from at once.             *)
RootOutageRidden == OutageRidden /\ ResumesWithinHoldOff

(* Signing comes back after every outage.                                  *)
SigningComesBack == []<>(Valid \/ snapshot.state = "Terminal")

(* The operator's last INCR is in force in the end.                        *)
AdvanceTakesEffect == (counter = MaxEpoch) ~> (EpochInForce /\ last_label = MaxEpoch /\ Valid)
=============================================================================
