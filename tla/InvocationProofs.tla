--------------------------- MODULE InvocationProofs ---------------------------
(***************************************************************************)
(* Proofs about how a run is begun, licensed and answered, for any number  *)
(* of invocations that overlap, any policies, payloads, edits and          *)
(* failures, and any license.                                              *)
(*                                                                         *)
(* What the properties say of a step rests on what an invocation holds     *)
(* when it takes it, and is proved of each invocation by itself: whatever  *)
(* the others do, and however often the policy is edited meanwhile, it     *)
(* runs as the policy it read and its payload say (Authorized), and counts *)
(* what becomes of its targets (Counted).                                  *)
(***************************************************************************)
EXTENDS Invocation, SequenceTheorems, TLAPS

Statuses == {"none", "SUCCESS", "PARTIAL_SUCCESS", "FAILED"}

(* The states of an invocation. *)
InvSet ==
  [phase : {"idle", "load", "engine", "run", "answered"},
   kind : {"none", "s3", "schedule", "direct", "command"},
   payload : PayloadSet, records : Seq({"policy", "other"}), event : Nat, version : Int,
   dry : BOOLEAN, todo : SUBSET Targets, failed : SUBSET Targets, errors : BOOLEAN,
   matched : BOOLEAN, lastDry : BOOLEAN, status : Statuses, said : BOOLEAN,
   governed : SUBSET Targets, wrote : BOOLEAN, expired : BOOLEAN]

PolicySet == [dry : {"on", "off", "unset"}, valid : BOOLEAN]

InvocationTypes ==
  /\ policies \in Seq(PolicySet) /\ Len(policies) > 0 /\ pending \subseteq Nat
  /\ inv \in [Slots -> InvSet]

(* The policy that an invocation in the state r read, of the versions ps.  *)
PolicyRead(r, ps) ==
  IF r.version = Inline THEN [dry |-> r.payload.own, valid |-> r.payload.valid]
  ELSE ps[r.version]

Authorized(r, ps) ==
  r.phase \in {"engine", "run"} =>
    /\ r.version = Inline \/ r.version \in 1..Len(ps)
    /\ r.payload.dry # "garbled"
    /\ r.dry = EffectiveDryRun(r.payload, PolicyRead(r, ps).dry)
    /\ r.payload.from # "object" => PolicyRead(r, ps).valid

Counted(r) ==
  /\ r.phase = "run" => r.todo \cup r.governed \cup r.failed = Targets
  /\ r.matched => r.expired \/ r.governed \cup r.failed = Targets
  /\ r.kind = "s3" /\ r.phase \in {"load", "engine", "run"} => r.records # << >>
  /\ r.kind # "s3" =>
       /\ r.records = << >> /\ ~r.errors
       /\ r.phase \in {"load", "engine"} => ~r.wrote
       /\ r.phase = "run" /\ r.wrote => ~r.dry

(* What AnswerIsTruthful says of the step of an invocation from r to s. *)
Truthful(r, s) ==
  r.phase # "answered" /\ s.phase = "answered" =>
    /\ s.status = "SUCCESS" => ~r.errors
    /\ r.kind # "s3" =>
         /\ s.status = "SUCCESS" => r.failed = {} /\ (r.expired \/ r.governed = Targets)
         /\ s.status = "PARTIAL_SUCCESS" => r.failed # {}
         /\ s.said => ~r.wrote
    /\ s.status = "PARTIAL_SUCCESS" /\ r.kind = "s3" =>
         r.expired \/ r.governed \cup r.failed = Targets

(* The inductive invariant of the invocations. *)
InvocationInv ==
  InvocationTypes /\ \A i \in Slots : Authorized(inv[i], policies) /\ Counted(inv[i])

-----------------------------------------------------------------------------
(* An event that says nothing of dry_run or the policy has a payload too. *)
LEMMA SilentType == Silent \in PayloadSet
BY DEF Silent, PayloadSet, Unset

(* A slot between two invocations meets the invariants of a slot. *)
LEMMA IdleState ==
  ASSUME NEW ps PROVE Idle \in InvSet /\ Authorized(Idle, ps) /\ Counted(Idle)
<1>1. Idle \in InvSet
  BY SilentType DEF Idle, InvSet, Statuses
<1> QED BY <1>1 DEF Idle, Authorized, Counted

(* So does one that has just been answered, whatever the answer says. *)
LEMMA AnsweredState ==
  ASSUME NEW status \in Statuses, NEW said \in BOOLEAN, NEW ps
  PROVE  /\ Answered(status, said) \in InvSet
         /\ Authorized(Answered(status, said), ps) /\ Counted(Answered(status, said))
         /\ Answered(status, said).phase = "answered"
         /\ Answered(status, said).status = status /\ Answered(status, said).said = said
<1>1. Answered(status, said) \in InvSet
  BY IdleState DEF Answered, InvSet
<1> QED BY <1>1 DEF Answered, Idle, Authorized, Counted

Begun(kind, p, records, event) ==
  [Idle EXCEPT !.phase = "load", !.kind = kind, !.payload = p, !.records = records,
               !.event = event]

(* So does one that has just begun, on an event of any kind. *)
LEMMA BegunState ==
  ASSUME NEW kind \in {"s3", "schedule", "direct", "command"}, NEW p \in PayloadSet,
         NEW records \in Seq({"policy", "other"}), NEW event \in Nat,
         (kind = "s3") <=> (records # << >>), NEW ps,
         NEW r, r = Begun(kind, p, records, event)
  PROVE  r \in InvSet /\ Authorized(r, ps) /\ Counted(r) /\ r.phase = "load"
<1>1. r \in InvSet
  BY IdleState DEF InvSet, Begun
<1>2. /\ r.phase = "load" /\ r.kind = kind /\ r.records = records /\ ~r.errors /\ ~r.wrote
      /\ ~r.matched
  BY DEF Idle, Begun
<1> QED BY <1>1, <1>2 DEF Authorized, Counted

(* After one of several records there is another. *)
LEMMA TailIsNotEmpty ==
  ASSUME NEW S, NEW s \in Seq(S), Len(s) > 1
  PROVE  Tail(s) \in Seq(S) /\ Tail(s) # << >>
<1>1. PICK t : t = Tail(s)
  OBVIOUS
<1>2. Len(s) \in Nat /\ s # << >>
  BY LenProperties, EmptySeq
<1>3. t \in Seq(S) /\ Len(t) = Len(s) - 1
  BY <1>1, <1>2, HeadTailProperties
<1>4. Len(t) # 0
  BY <1>2, <1>3
<1> QED BY <1>1, <1>3, <1>4

(* The loop over the records of an S3 event goes on, or answers. *)
LEMMA AfterRecordState ==
  ASSUME NEW r \in InvSet, Counted(r), r.records # << >>, r.kind = "s3", NEW ps
  PROVE  /\ AfterRecord(r) \in InvSet
         /\ Authorized(AfterRecord(r), ps) /\ Counted(AfterRecord(r))
         /\ AfterRecord(r).phase = "answered" =>
              /\ AfterRecord(r).status = "SUCCESS" => ~r.errors
              /\ AfterRecord(r).status = "PARTIAL_SUCCESS" => r.matched
<1>1. CASE Len(r.records) > 1
  <2>1. AfterRecord(r) = [r EXCEPT !.phase = "load", !.records = Tail(@)]
    BY <1>1 DEF AfterRecord
  <2>2. /\ r.records \in Seq({"policy", "other"}) /\ Tail(r.records) \in Seq({"policy", "other"})
        /\ Tail(r.records) # << >>
    <3>1. r.records \in Seq({"policy", "other"})
      BY DEF InvSet
    <3> QED BY <1>1, <3>1, TailIsNotEmpty
  <2>3. AfterRecord(r) \in InvSet
    BY <2>1, <2>2 DEF InvSet
  <2>4. /\ AfterRecord(r).phase = "load" /\ AfterRecord(r).matched = r.matched
        /\ AfterRecord(r).governed = r.governed /\ AfterRecord(r).failed = r.failed
        /\ AfterRecord(r).kind = "s3" /\ AfterRecord(r).records = Tail(r.records)
        /\ AfterRecord(r).expired = r.expired
    BY <2>1 DEF InvSet
  <2> QED BY <2>2, <2>3, <2>4 DEF Authorized, Counted
<1>2. CASE ~(Len(r.records) > 1)
  <2>1. AfterRecord(r) = Answered(StatusOfRecords(r), r.lastDry)
    BY <1>2 DEF AfterRecord
  <2>2. r.lastDry \in BOOLEAN /\ r.errors \in BOOLEAN /\ r.matched \in BOOLEAN
    BY DEF InvSet
  <2>3. /\ StatusOfRecords(r) \in Statuses
        /\ StatusOfRecords(r) = "SUCCESS" => ~r.errors
        /\ StatusOfRecords(r) = "PARTIAL_SUCCESS" => r.matched
    BY <2>2 DEF StatusOfRecords, Statuses
  <2> QED BY <2>1, <2>2, <2>3, AnsweredState
<1> QED BY <1>1, <1>2

(* What fails early goes on with the next record, or is answered FAILED.   *)
LEMMA FailedEarlyState ==
  ASSUME NEW i \in Slots, inv[i] \in InvSet, Counted(inv[i]), NEW said \in BOOLEAN, NEW ps,
         inv[i].kind = "s3" => inv[i].records # << >>
  PROVE  /\ FailedEarly(i, said) \in InvSet
         /\ Authorized(FailedEarly(i, said), ps) /\ Counted(FailedEarly(i, said))
         /\ FailedEarly(i, said).phase = "answered" =>
              /\ FailedEarly(i, said).status # "SUCCESS"
              /\ FailedEarly(i, said).status = "PARTIAL_SUCCESS" =>
                   inv[i].kind = "s3" /\ inv[i].matched
              /\ inv[i].kind # "s3" => FailedEarly(i, said).said = said
<1>1. CASE inv[i].kind = "s3"
  <2> DEFINE r == [inv[i] EXCEPT !.errors = TRUE]
  <2>1. r \in InvSet /\ r.errors /\ r.matched = inv[i].matched /\ r.kind = "s3"
    BY <1>1 DEF InvSet
  <2>2. r.records = inv[i].records /\ r.phase = inv[i].phase /\ r.todo = inv[i].todo
    BY DEF InvSet
  <2>3. r.governed = inv[i].governed /\ r.failed = inv[i].failed /\ r.expired = inv[i].expired
    BY DEF InvSet
  <2>4. FailedEarly(i, said) = AfterRecord(r)
    BY <1>1 DEF FailedEarly
  <2> HIDE DEF r
  <2>5. Counted(r)
    BY <1>1, <2>1, <2>2, <2>3 DEF Counted
  <2> QED BY <1>1, <2>1, <2>2, <2>4, <2>5, AfterRecordState
<1>2. CASE inv[i].kind # "s3"
  BY <1>2, AnsweredState DEF FailedEarly, Statuses
<1> QED BY <1>1, <1>2

-----------------------------------------------------------------------------
(* A step of one invocation, to a state that is right by itself. *)
LEMMA SlotStep ==
  ASSUME InvocationInv, NEW i \in Slots, NEW r \in InvSet, inv' = [inv EXCEPT ![i] = r],
         policies' = policies, pending' \subseteq Nat,
         Authorized(r, policies), Counted(r), Truthful(inv[i], r)
  PROVE  InvocationInv' /\ \A j \in Slots : Truthful(inv[j], inv'[j])
<1>1. inv \in [Slots -> InvSet]
  BY DEF InvocationInv, InvocationTypes
<1>2. inv'[i] = r /\ \A j \in Slots \ {i} : inv'[j] = inv[j]
  BY <1>1
<1>3. InvocationTypes'
  BY <1>1 DEF InvocationInv, InvocationTypes
<1>4. \A j \in Slots : Authorized(inv'[j], policies) /\ Counted(inv'[j])
  BY <1>2 DEF InvocationInv
<1>5. \A j \in Slots \ {i} : Truthful(inv[j], inv'[j])
  BY <1>2 DEF Truthful
<1> QED BY <1>2, <1>3, <1>4, <1>5 DEF InvocationInv

(* The invariant holds initially. *)
LEMMA InvocationInvInit ==
  ASSUME Init PROVE InvocationInv
<1>1. PICK p \in Policies : policies = <<p>>
  BY DEF Init
<1>2. policies \in Seq(PolicySet) /\ Len(policies) = 1
  BY <1>1, InvocationAssumption DEF PolicySet
<1>3. inv = [i \in Slots |-> Idle] /\ pending = {}
  BY DEF Init
<1>4. InvocationTypes
  BY <1>2, <1>3, IdleState DEF InvocationTypes
<1> QED BY <1>3, <1>4, IdleState DEF InvocationInv

(* An edit of the policy changes nothing for the invocations that read one *)
(* of the earlier versions.                                                *)
LEMMA EditPolicyStep ==
  ASSUME InvocationInv, EditPolicy
  PROVE  InvocationInv' /\ \A j \in Slots : Truthful(inv[j], inv'[j])
<1>1. PICK p \in Policies : policies' = Append(policies, p)
  BY DEF EditPolicy
<1>2. pending' = pending \cup {Len(policies) + 1} /\ inv' = inv
  BY DEF EditPolicy
<1>3. policies \in Seq(PolicySet) /\ Len(policies) \in Nat /\ p \in PolicySet
  BY InvocationAssumption, LenProperties DEF InvocationInv, InvocationTypes, PolicySet
<1>4. /\ policies' \in Seq(PolicySet) /\ Len(policies') = Len(policies) + 1
      /\ \A k \in 1..Len(policies) : policies'[k] = policies[k]
  BY <1>1, <1>3, AppendProperties
<1>5. InvocationTypes'
  <2>1. Len(policies') > 0 /\ Len(policies) + 1 \in Nat
    BY <1>3, <1>4
  <2>2. pending' \subseteq Nat /\ inv' \in [Slots -> InvSet]
    BY <1>2, <2>1 DEF InvocationInv, InvocationTypes
  <2> QED BY <1>4, <2>1, <2>2 DEF InvocationTypes
<1>6. ASSUME NEW i \in Slots PROVE Authorized(inv[i], policies')
  <2> SUFFICES ASSUME inv[i].phase \in {"engine", "run"} PROVE Authorized(inv[i], policies')
    BY DEF Authorized
  <2>1. Authorized(inv[i], policies)
    BY DEF InvocationInv
  <2>2. inv[i].version = Inline \/ inv[i].version \in 1..Len(policies)
    BY <2>1 DEF Authorized
  <2>3. PolicyRead(inv[i], policies') = PolicyRead(inv[i], policies)
    BY <1>4, <2>2 DEF PolicyRead
  <2> QED BY <1>3, <1>4, <2>1, <2>2, <2>3 DEF Authorized
<1> QED BY <1>2, <1>5, <1>6 DEF InvocationInv, Truthful

(* An invocation begins. *)
LEMMA BeginStep ==
  ASSUME InvocationInv, NEW i \in Slots,
         NEW kind \in {"s3", "schedule", "direct", "command"}, NEW p \in PayloadSet,
         NEW records \in Seq({"policy", "other"}), NEW event \in Nat,
         (kind = "s3") <=> (records # << >>), Begin(i, kind, p, records, event),
         policies' = policies, pending' \subseteq Nat
  PROVE  InvocationInv' /\ \A j \in Slots : Truthful(inv[j], inv'[j])
<1>0. PICK r : r = Begun(kind, p, records, event)
  OBVIOUS
<1>1. inv' = [inv EXCEPT ![i] = r]
  BY <1>0 DEF Begin, Begun
<1>2. r \in InvSet /\ Authorized(r, policies) /\ Counted(r) /\ r.phase = "load"
  BY <1>0, BegunState
<1>3. Truthful(inv[i], r)
  BY <1>2 DEF Truthful
<1> QED BY <1>1, <1>2, <1>3, SlotStep

(* An S3 event, the schedule or a person starts an invocation. *)
LEMMA EventStep ==
  ASSUME InvocationInv, NEW i \in Slots, S3Event(i) \/ ScheduledEvent(i) \/ ManualEvent(i)
  PROVE  InvocationInv' /\ \A j \in Slots : Truthful(inv[j], inv'[j])
<1>1. pending \subseteq Nat /\ << >> \in Seq({"policy", "other"})
  BY DEF InvocationInv, InvocationTypes
<1>2. CASE S3Event(i)
  <2>1. PICK n \in pending, r \in S3Records : Begin(i, "s3", Silent, r, n)
    BY <1>2 DEF S3Event
  <2>2. policies' = policies /\ pending' \subseteq Nat
    BY <1>1, <1>2 DEF S3Event
  <2>3. r \in Seq({"policy", "other"}) /\ r # << >> /\ n \in Nat
    BY <1>1, InvocationAssumption
  <2> QED BY <2>1, <2>2, <2>3, SilentType, BeginStep
<1>3. CASE ScheduledEvent(i)
  <2>1. PICK p \in Scheduled : Begin(i, "schedule", Decoded(p), << >>, 0)
    BY <1>3 DEF ScheduledEvent
  <2>2. policies' = policies /\ pending' \subseteq Nat
    BY <1>1, <1>3 DEF ScheduledEvent
  <2>3. Decoded(p) \in PayloadSet
    BY InvocationAssumption DEF Decoded, PayloadSet, Unset
  <2> QED BY <1>1, <2>1, <2>2, <2>3, BeginStep
<1>4. CASE ManualEvent(i)
  <2>1. PICK p \in Payloads, k \in {"direct", "command"} : Begin(i, k, p, << >>, 0)
    BY <1>4 DEF ManualEvent
  <2>2. policies' = policies /\ pending' \subseteq Nat
    BY <1>1, <1>4 DEF ManualEvent
  <2>3. p \in PayloadSet
    BY InvocationAssumption
  <2> QED BY <1>1, <2>1, <2>2, <2>3, BeginStep
<1> QED BY <1>2, <1>3, <1>4

(* What is known of an invocation before its step. *)
LEMMA SlotFacts ==
  ASSUME InvocationInv, NEW i \in Slots
  PROVE  /\ inv \in [Slots -> InvSet] /\ inv[i] \in InvSet /\ pending \subseteq Nat
         /\ Authorized(inv[i], policies) /\ Counted(inv[i])
BY DEF InvocationInv, InvocationTypes

(* A record that is not a policy is skipped. *)
LEMMA SkipRecordStep ==
  ASSUME InvocationInv, NEW i \in Slots, SkipRecord(i)
  PROVE  InvocationInv' /\ \A j \in Slots : Truthful(inv[j], inv'[j])
<1>1. PICK r : r = AfterRecord(inv[i])
  OBVIOUS
<1>2. /\ inv[i].phase = "load" /\ inv[i].records # << >> /\ inv' = [inv EXCEPT ![i] = r]
      /\ policies' = policies /\ pending' = pending
  BY <1>1 DEF SkipRecord
<1>3. inv[i].kind = "s3"
  BY <1>2, SlotFacts DEF Counted
<1>4. /\ r \in InvSet /\ Authorized(r, policies) /\ Counted(r)
      /\ r.phase = "answered" => /\ r.status = "SUCCESS" => ~inv[i].errors
                                 /\ r.status = "PARTIAL_SUCCESS" => inv[i].matched
  BY <1>1, <1>2, <1>3, SlotFacts, AfterRecordState
<1>5. Truthful(inv[i], r)
  BY <1>3, <1>4, SlotFacts DEF Truthful, Counted
<1> QED BY <1>2, <1>4, <1>5, SlotFacts, SlotStep

(* A policy is read: the invocation goes on as it and the payload say.     *)
LEMMA LoadPolicyStep ==
  ASSUME InvocationInv, NEW i \in Slots, LoadPolicy(i)
  PROVE  InvocationInv' /\ \A j \in Slots : Truthful(inv[j], inv'[j])
<1>1. PICK p : p = inv[i].payload
  OBVIOUS
<1>2. PICK dry : dry = EffectiveDryRun(p, DryOf(p))
  OBVIOUS
<1>3. PICK r : r = [inv[i] EXCEPT !.phase = "engine", !.version = NumberOf(p),
                                  !.dry = dry, !.lastDry = dry]
  OBVIOUS
<1>4. /\ inv[i].phase = "load" /\ IsLoadable(p) /\ inv' = [inv EXCEPT ![i] = r]
      /\ policies' = policies /\ pending' = pending
  BY <1>1, <1>2, <1>3, SlotFacts DEF LoadPolicy, IsReading
<1>5. /\ policies \in Seq(PolicySet) /\ Len(policies) \in Nat \ {0}
      /\ p \in PayloadSet /\ inv[i] \in InvSet /\ dry \in BOOLEAN
  BY <1>1, <1>2, SlotFacts, LenProperties
     DEF InvocationInv, InvocationTypes, InvSet, EffectiveDryRun
<1>6. NumberOf(p) \in Int
  BY <1>5 DEF NumberOf, Inline, Current
<1>7. r \in InvSet
  BY <1>3, <1>5, <1>6 DEF InvSet
<1>8. /\ r.phase = "engine" /\ r.version = NumberOf(p) /\ r.dry = dry /\ r.payload = p
      /\ r.kind = inv[i].kind /\ r.records = inv[i].records /\ r.errors = inv[i].errors
      /\ r.wrote = inv[i].wrote /\ r.matched = inv[i].matched
      /\ r.governed = inv[i].governed /\ r.failed = inv[i].failed /\ r.expired = inv[i].expired
  BY <1>1, <1>3, <1>5 DEF InvSet
<1>9. Authorized(r, policies)
  <2>1. p.dry # "garbled"
    BY <1>4 DEF IsLoadable
  <2>2. CASE IsOwn(p)
    <3>1. r.version = Inline /\ DryOf(p) = p.own
      BY <1>8, <2>2 DEF NumberOf, DryOf
    <3>2. PolicyRead(r, policies).dry = p.own /\ PolicyRead(r, policies).valid = p.valid
      BY <1>8, <3>1 DEF PolicyRead
    <3>3. p.from # "object" => p.valid
      BY <1>4, <2>2 DEF IsLoadable, IsOwn
    <3> QED BY <1>2, <1>8, <2>1, <3>1, <3>2, <3>3 DEF Authorized
  <2>3. CASE ~IsOwn(p)
    <3>1. /\ r.version = Len(policies) /\ DryOf(p) = policies[Len(policies)].dry
          /\ r.version # Inline /\ r.version \in 1..Len(policies)
      BY <1>5, <1>8, <2>3 DEF NumberOf, DryOf, Current, Inline
    <3>2. PolicyRead(r, policies) = policies[Len(policies)]
      BY <3>1 DEF PolicyRead
    <3>3. p.from = "stored"
      BY <1>5, <2>3 DEF IsOwn, PayloadSet
    <3>4. policies[Len(policies)].valid
      BY <1>4, <3>3 DEF IsLoadable, Current
    <3> QED BY <1>2, <1>8, <2>1, <3>1, <3>2, <3>4 DEF Authorized
  <2> QED BY <2>2, <2>3
<1>10. Counted(r) /\ Truthful(inv[i], r)
  BY <1>4, <1>8, SlotFacts DEF Counted, Truthful
<1> QED BY <1>4, <1>7, <1>9, <1>10, SlotFacts, SlotStep

(* Reading or the engine fails before a target is reached. *)
LEMMA EarlyFailureStep ==
  ASSUME InvocationInv, NEW i \in Slots, inv[i].phase \in {"load", "engine"},
         NEW said \in BOOLEAN, said => inv[i].phase = "engine",
         inv' = [inv EXCEPT ![i] = FailedEarly(i, said)],
         policies' = policies, pending' = pending
  PROVE  InvocationInv' /\ \A j \in Slots : Truthful(inv[j], inv'[j])
<1>1. PICK r : r = FailedEarly(i, said)
  OBVIOUS
<1>2. inv[i].kind = "s3" => inv[i].records # << >>
  BY SlotFacts DEF Counted
<1>3. /\ r \in InvSet /\ Authorized(r, policies) /\ Counted(r)
      /\ r.phase = "answered" =>
           /\ r.status # "SUCCESS"
           /\ r.status = "PARTIAL_SUCCESS" => inv[i].kind = "s3" /\ inv[i].matched
           /\ inv[i].kind # "s3" => r.said = said
  BY <1>1, <1>2, SlotFacts, FailedEarlyState
<1>4. Truthful(inv[i], r)
  BY <1>3, SlotFacts DEF Truthful, Counted
<1> QED BY <1>1, <1>3, <1>4, SlotFacts, SlotStep

(* The policy cannot be loaded, or the engine fails before any target: the *)
(* answer is a failure, or a partial success after other S3 records.       *)
LEMMA EarlyFailuresStep ==
  ASSUME InvocationInv, NEW i \in Slots, LoadFails(i) \/ EngineFails(i)
  PROVE  InvocationInv' /\ \A j \in Slots : Truthful(inv[j], inv'[j])
<1>1. CASE LoadFails(i)
  <2>1. /\ inv[i].phase = "load" /\ inv' = [inv EXCEPT ![i] = FailedEarly(i, FALSE)]
        /\ policies' = policies /\ pending' = pending
    BY <1>1 DEF LoadFails, IsReading
  <2> QED BY <2>1, EarlyFailureStep
<1>2. CASE EngineFails(i)
  <2>1. /\ inv[i].phase = "engine" /\ inv' = [inv EXCEPT ![i] = FailedEarly(i, inv[i].dry)]
        /\ policies' = policies /\ pending' = pending
    BY <1>2 DEF EngineFails
  <2>2. inv[i].dry \in BOOLEAN
    BY SlotFacts DEF InvSet
  <2> QED BY <2>1, <2>2, EarlyFailureStep
<1> QED BY <1>1, <1>2

(* The targets are taken up. *)
LEMMA BeginTargetsStep ==
  ASSUME InvocationInv, NEW i \in Slots, BeginTargets(i)
  PROVE  InvocationInv' /\ \A j \in Slots : Truthful(inv[j], inv'[j])
<1>1. PICK r : r = [inv[i] EXCEPT !.phase = "run", !.todo = Targets]
  OBVIOUS
<1>2. inv[i] \in InvSet /\ inv \in [Slots -> InvSet]
  BY SlotFacts
<1>3. /\ inv[i].phase = "engine" /\ policies' = policies /\ pending' = pending
      /\ inv' = [inv EXCEPT ![i] = r]
  BY <1>1, <1>2 DEF BeginTargets
<1>4. r \in InvSet
  BY <1>1, <1>2 DEF InvSet
<1>5. /\ r.phase = "run" /\ r.todo = Targets /\ r.version = inv[i].version
      /\ r.dry = inv[i].dry /\ r.payload = inv[i].payload
      /\ r.kind = inv[i].kind /\ r.records = inv[i].records /\ r.errors = inv[i].errors
      /\ r.wrote = inv[i].wrote /\ r.matched = inv[i].matched
      /\ r.governed = inv[i].governed /\ r.failed = inv[i].failed /\ r.expired = inv[i].expired
      /\ r.governed \subseteq Targets /\ r.failed \subseteq Targets
  BY <1>1, <1>2 DEF InvSet
<1>6. Authorized(r, policies)
  BY <1>3, <1>5, SlotFacts DEF Authorized, PolicyRead
<1>7. Counted(r) /\ Truthful(inv[i], r)
  BY <1>3, <1>5, SlotFacts DEF Counted, Truthful
<1> QED BY <1>3, <1>4, <1>6, <1>7, SlotFacts, SlotStep

(* A target is governed, or fails. *)
LEMMA GovernStep ==
  ASSUME InvocationInv, NEW i \in Slots, NEW t \in Targets, Govern(i, t) \/ GovernFails(i, t)
  PROVE  InvocationInv' /\ \A j \in Slots : Truthful(inv[j], inv'[j])
<1>1. PICK wrote : wrote = (inv[i].wrote \/ ~inv[i].dry)
  OBVIOUS
<1>2. inv[i] \in InvSet /\ inv \in [Slots -> InvSet] /\ wrote \in BOOLEAN
  BY <1>1, SlotFacts
<1>3. PICK r : r \in {[inv[i] EXCEPT !.todo = @ \ {t}, !.governed = @ \cup {t}, !.wrote = wrote],
                      [inv[i] EXCEPT !.todo = @ \ {t}, !.failed = @ \cup {t}]}
               /\ inv' = [inv EXCEPT ![i] = r]
  BY <1>1, <1>2 DEF Govern, GovernFails
<1>4. inv[i].phase = "run" /\ policies' = policies /\ pending' = pending
  BY DEF Govern, GovernFails
<1>5. r \in InvSet
  <2>1. CASE r = [inv[i] EXCEPT !.todo = @ \ {t}, !.governed = @ \cup {t}, !.wrote = wrote]
    BY <1>2, <2>1 DEF InvSet
  <2>2. CASE r = [inv[i] EXCEPT !.todo = @ \ {t}, !.failed = @ \cup {t}]
    BY <1>2, <2>2 DEF InvSet
  <2> QED BY <1>3, <2>1, <2>2
<1>6. /\ r.phase = "run" /\ r.version = inv[i].version
      /\ r.dry = inv[i].dry /\ r.payload = inv[i].payload
      /\ r.kind = inv[i].kind /\ r.records = inv[i].records /\ r.errors = inv[i].errors
      /\ r.matched = inv[i].matched /\ r.expired = inv[i].expired
  BY <1>2, <1>3, <1>4 DEF InvSet
<1>7. /\ r.wrote \in {wrote, inv[i].wrote} /\ r.todo = inv[i].todo \ {t}
      /\ \/ r.governed = inv[i].governed \cup {t} /\ r.failed = inv[i].failed
         \/ r.failed = inv[i].failed \cup {t} /\ r.governed = inv[i].governed
  BY <1>2, <1>3 DEF InvSet
<1>8. Authorized(r, policies)
  BY <1>4, <1>6, SlotFacts DEF Authorized, PolicyRead
<1>9. Counted(r)
  <2>1. r.todo \cup r.governed \cup r.failed = Targets
    BY <1>4, <1>7, SlotFacts DEF Counted
  <2>2. ASSUME r.matched, ~r.expired PROVE r.governed \cup r.failed = Targets
    <3>1. inv[i].governed \cup inv[i].failed = Targets
      BY <1>6, <2>2, SlotFacts DEF Counted
    <3> QED BY <1>7, <3>1
  <2>3. r.kind # "s3" /\ r.wrote => ~r.dry
    BY <1>1, <1>4, <1>6, <1>7, SlotFacts DEF Counted
  <2> QED BY <1>4, <1>6, <2>1, <2>2, <2>3, SlotFacts DEF Counted
<1>10. Truthful(inv[i], r)
  BY <1>6 DEF Truthful
<1> QED BY <1>3, <1>4, <1>5, <1>8, <1>9, <1>10, SlotFacts, SlotStep

(* The engine returns: the next record, or the answer. *)
LEMMA EndRunStep ==
  ASSUME InvocationInv, NEW i \in Slots, EndRun(i)
  PROVE  InvocationInv' /\ \A j \in Slots : Truthful(inv[j], inv'[j])
<1>1. /\ inv[i].phase = "run" /\ policies' = policies /\ pending' = pending
      /\ inv[i].todo = {} \/ inv[i].expired
  BY DEF EndRun
<1>2. inv[i] \in InvSet /\ (inv[i].expired \/ inv[i].governed \cup inv[i].failed = Targets)
  BY <1>1, SlotFacts DEF Counted
<1>3. CASE inv[i].kind = "s3"
  <2>1. PICK q : q = [inv[i] EXCEPT !.matched = TRUE]
    OBVIOUS
  <2>2. PICK r : r = AfterRecord(q)
    OBVIOUS
  <2>3. inv' = [inv EXCEPT ![i] = r]
    BY <1>3, <2>1, <2>2 DEF EndRun
  <2>4. q \in InvSet
    BY <1>2, <2>1 DEF InvSet
  <2>5. /\ q.kind = "s3" /\ q.records = inv[i].records /\ q.errors = inv[i].errors
        /\ q.governed = inv[i].governed /\ q.failed = inv[i].failed
        /\ q.expired = inv[i].expired /\ q.phase = "run" /\ q.todo = inv[i].todo
    BY <1>1, <1>2, <1>3, <2>1 DEF InvSet
  <2>6. q.records # << >>
    BY <1>1, <1>3, <2>5, SlotFacts DEF Counted
  <2>7. Counted(q)
    BY <1>1, <1>2, <2>5, <2>6, SlotFacts DEF Counted
  <2>8. /\ r \in InvSet /\ Authorized(r, policies) /\ Counted(r)
        /\ r.phase = "answered" => (r.status = "SUCCESS" => ~q.errors)
    BY <2>2, <2>4, <2>5, <2>6, <2>7, AfterRecordState
  <2>9. Truthful(inv[i], r)
    BY <1>2, <1>3, <2>5, <2>8 DEF Truthful
  <2> QED BY <1>1, <2>3, <2>8, <2>9, SlotFacts, SlotStep
<1>4. CASE inv[i].kind # "s3"
  <2>1. PICK r : r = Answered(StatusOfRun(i), inv[i].dry)
    OBVIOUS
  <2>2. inv' = [inv EXCEPT ![i] = r]
    BY <1>4, <2>1 DEF EndRun
  <2>3. /\ StatusOfRun(i) \in Statuses
        /\ StatusOfRun(i) = "SUCCESS" => inv[i].failed = {}
        /\ StatusOfRun(i) = "PARTIAL_SUCCESS" => inv[i].failed # {}
    BY DEF StatusOfRun, Statuses
  <2>4. inv[i].dry \in BOOLEAN
    BY <1>2 DEF InvSet
  <2>5. /\ r \in InvSet /\ Authorized(r, policies) /\ Counted(r)
        /\ r.status = StatusOfRun(i) /\ r.said = inv[i].dry
    BY <2>1, <2>3, <2>4, AnsweredState
  <2>6. Truthful(inv[i], r)
    BY <1>1, <1>2, <1>4, <2>3, <2>5, SlotFacts DEF Truthful, Counted
  <2> QED BY <1>1, <2>2, <2>5, <2>6, SlotFacts, SlotStep
<1> QED BY <1>3, <1>4

(* The context of a run is done. *)
LEMMA ExpireStep ==
  ASSUME InvocationInv, NEW i \in Slots, Expire(i)
  PROVE  InvocationInv' /\ \A j \in Slots : Truthful(inv[j], inv'[j])
<1>1. PICK r : r = [inv[i] EXCEPT !.expired = TRUE]
  OBVIOUS
<1>2. inv[i] \in InvSet /\ inv \in [Slots -> InvSet]
  BY SlotFacts
<1>3. /\ inv[i].phase # "answered" /\ policies' = policies /\ pending' = pending
      /\ inv' = [inv EXCEPT ![i] = r]
  BY <1>1, <1>2 DEF Expire
<1>4. r \in InvSet
  BY <1>1, <1>2 DEF InvSet
<1>5. /\ r.phase = inv[i].phase /\ r.todo = inv[i].todo /\ r.version = inv[i].version
      /\ r.dry = inv[i].dry /\ r.payload = inv[i].payload
      /\ r.kind = inv[i].kind /\ r.records = inv[i].records /\ r.errors = inv[i].errors
      /\ r.wrote = inv[i].wrote /\ r.governed = inv[i].governed /\ r.failed = inv[i].failed
      /\ r.expired
  BY <1>1, <1>2 DEF InvSet
<1>6. Authorized(r, policies)
  BY <1>5, SlotFacts DEF Authorized, PolicyRead
<1>7. Counted(r) /\ Truthful(inv[i], r)
  BY <1>3, <1>5, SlotFacts DEF Counted, Truthful
<1> QED BY <1>3, <1>4, <1>6, <1>7, SlotFacts, SlotStep

(* An invocation panics, or is killed. *)
LEMMA EndedStep ==
  ASSUME InvocationInv, NEW i \in Slots, Panic(i) \/ Kill(i)
  PROVE  InvocationInv' /\ \A j \in Slots : Truthful(inv[j], inv'[j])
<1>1. CASE Panic(i)
  <2>1. PICK r : r = Answered("FAILED", FALSE)
    OBVIOUS
  <2>2. inv' = [inv EXCEPT ![i] = r] /\ policies' = policies /\ pending' = pending
    BY <1>1, <2>1 DEF Panic
  <2>3. /\ r \in InvSet /\ Authorized(r, policies) /\ Counted(r)
        /\ r.status = "FAILED" /\ r.said = FALSE
    BY <2>1, AnsweredState DEF Statuses
  <2>4. Truthful(inv[i], r)
    BY <2>3 DEF Truthful
  <2> QED BY <2>2, <2>3, <2>4, SlotFacts, SlotStep
<1>2. CASE Kill(i)
  <2>1. inv' = [inv EXCEPT ![i] = Idle] /\ policies' = policies /\ inv[i].event \in Nat
    BY <1>2, SlotFacts DEF Kill, InvSet
  <2>2. pending' \subseteq Nat
    BY <1>2, <2>1, SlotFacts DEF Kill
  <2>3. Truthful(inv[i], Idle)
    BY DEF Truthful, Idle
  <2> QED BY <2>1, <2>2, <2>3, IdleState, SlotStep
<1> QED BY <1>1, <1>2

(* Every step keeps the invariant, and answers truthfully. *)
LEMMA InvocationInvStep ==
  ASSUME InvocationInv, [Next]_vars
  PROVE  InvocationInv' /\ \A j \in Slots : Truthful(inv[j], inv'[j])
<1>1. CASE UNCHANGED vars
  BY <1>1 DEF vars, InvocationInv, InvocationTypes, Truthful
<1>2. CASE EditPolicy
  BY <1>2, EditPolicyStep
<1>3. ASSUME NEW i \in Slots, \/ S3Event(i) \/ ScheduledEvent(i) \/ ManualEvent(i)
                              \/ Work(i) \/ Panic(i) \/ Expire(i) \/ Kill(i)
      PROVE  InvocationInv' /\ \A j \in Slots : Truthful(inv[j], inv'[j])
  BY <1>3, EventStep, ExpireStep, EndedStep, SkipRecordStep, LoadPolicyStep, EarlyFailuresStep,
     BeginTargetsStep, EndRunStep, GovernStep DEF Work
<1> QED BY <1>1, <1>2, <1>3 DEF Next

(* The invariant is an invariant of the specification. *)
LEMMA InvocationInvAlways == Spec => []InvocationInv
<1>1. Init => InvocationInv
  BY InvocationInvInit
<1>2. InvocationInv /\ [Next]_vars => InvocationInv'
  BY InvocationInvStep
<1> QED BY <1>1, <1>2, PTL DEF Spec

-----------------------------------------------------------------------------
(* For any invocations that overlap, any edits of the policy and any       *)
(* failures: GitLab is written only under a valid policy, when the last    *)
(* word on dry_run is that it is off (ResolveFromDirectPayload,            *)
(* applyPayloadOverrides, SetDefaults).                                    *)
THEOREM WritesAreAlwaysAuthorized == Spec => WritesAreAuthorized
<1> DEFINE Step ==
      \A i \in Slots, t \in Targets :
        (t \in inv[i].todo \ inv'[i].todo /\ fleet'[t] # fleet[t]) =>
          LET p == inv[i].payload
              policy == IF inv[i].version = Inline THEN [dry |-> p.own, valid |-> p.valid]
                        ELSE policies[inv[i].version]
          IN /\ p.action \notin {"plan", "dry_run"}
             /\ \/ p.action = "apply"
                \/ p.dry = "off"
                \/ p.dry = Unset /\ policy.dry = "off"
             /\ p.from # "object" => policy.valid
<1>1. ASSUME InvocationInv, Next PROVE Step
  <2> SUFFICES ASSUME NEW i \in Slots, NEW t \in Targets,
                      t \in inv[i].todo \ inv'[i].todo, fleet'[t] # fleet[t]
               PROVE  LET p == inv[i].payload
                          policy == PolicyRead(inv[i], policies)
                      IN /\ p.action \notin {"plan", "dry_run"}
                         /\ \/ p.action = "apply"
                            \/ p.dry = "off"
                            \/ p.dry = Unset /\ policy.dry = "off"
                         /\ p.from # "object" => policy.valid
    BY DEF PolicyRead
  <2>1. PICK j \in Slots, u \in Targets : Govern(j, u)
    <3>1. fleet' # fleet
      OBVIOUS
    <3> QED BY <1>1, <3>1 DEF Next, EditPolicy, S3Event, ScheduledEvent, ManualEvent, Work,
               SkipRecord, LoadPolicy, LoadFails, BeginTargets, EngineFails, GovernFails,
               EndRun, Panic, Expire, Kill
  <2>2. j = i
    <3> SUFFICES ASSUME j # i PROVE FALSE
      OBVIOUS
    <3>1. inv'[i] = inv[i]
      BY <1>1, <2>1, SlotFacts DEF Govern
    <3> QED BY <3>1
  <2>3. inv[i].phase = "run" /\ ~inv[i].dry
    BY <2>1, <2>2 DEF Govern
  <2>4. PICK p : p = inv[i].payload
    OBVIOUS
  <2>5. PICK policy : policy = PolicyRead(inv[i], policies)
    OBVIOUS
  <2>6. /\ inv[i].version = Inline \/ inv[i].version \in 1..Len(policies)
        /\ p.dry # "garbled" /\ ~EffectiveDryRun(p, policy.dry)
        /\ p.from # "object" => policy.valid
    BY <1>1, <2>3, <2>4, <2>5, SlotFacts DEF Authorized
  <2>7. p \in PayloadSet
    BY <1>1, <2>4, SlotFacts DEF InvSet
  <2>8. policy.dry \in {"on", "off", "unset"}
    <3>1. CASE inv[i].version = Inline
      BY <2>4, <2>5, <2>7, <3>1 DEF PolicyRead, PayloadSet
    <3>2. CASE inv[i].version # Inline
      <4>1. policies \in Seq(PolicySet) /\ policy = policies[inv[i].version]
        BY <1>1, <2>5, <3>2 DEF InvocationInv, InvocationTypes, PolicyRead
      <4>2. policy \in PolicySet
        BY <2>6, <3>2, <4>1
      <4> QED BY <4>2 DEF PolicySet
    <3> QED BY <3>1, <3>2
  <2>9. /\ p.action \notin {"plan", "dry_run"}
        /\ \/ p.action = "apply"
           \/ p.dry = "off"
           \/ p.dry = Unset /\ policy.dry = "off"
    BY <2>6, <2>7, <2>8 DEF EffectiveDryRun, Override, DryDefault, Unset, PayloadSet
  <2> QED BY <2>4, <2>5, <2>6, <2>9
<1>2. InvocationInv /\ [Next]_vars => [Step]_vars
  BY <1>1
<1> HIDE DEF Step
<1>3. Spec => [][Step]_vars
  BY <1>2, InvocationInvAlways, PTL DEF Spec
<1> QED BY <1>3 DEF Step, WritesAreAuthorized

(* For any invocations that overlap, any edits of the policy and any       *)
(* failures, and a context that may be done at any point: an answer does   *)
(* not promise more than was done (BuildLambdaResponse, handleS3Event,     *)
(* executeRun).                                                            *)
THEOREM AnswersAreTruthful == Spec => AnswerIsTruthful
<1> DEFINE Step ==
      \A i \in Slots : inv[i].phase # "answered" /\ inv'[i].phase = "answered" =>
        LET answer == inv'[i]
        IN /\ answer.status = "SUCCESS" => ~inv[i].errors
           /\ inv[i].kind # "s3" =>
                /\ answer.status = "SUCCESS" =>
                     inv[i].failed = {} /\ (inv[i].expired \/ inv[i].governed = Targets)
                /\ answer.status = "PARTIAL_SUCCESS" => inv[i].failed # {}
                /\ answer.said => ~inv[i].wrote
           /\ answer.status = "PARTIAL_SUCCESS" /\ inv[i].kind = "s3" =>
                inv[i].expired \/ inv[i].governed \cup inv[i].failed = Targets
<1>1. InvocationInv /\ [Next]_vars => [Step]_vars
  BY InvocationInvStep DEF Truthful
<1> HIDE DEF Step
<1>2. Spec => [][Step]_vars
  BY <1>1, InvocationInvAlways, PTL DEF Spec
<1> QED BY <1>2 DEF Step, AnswerIsTruthful

-----------------------------------------------------------------------------
(* The license step, on any situation: it lets a run change GitLab only if *)
(* that may be, and lets through what it must (Enforce).                   *)
LEMMA EnforceIsRight ==
  ASSUME NEW s \in SituationSet
  PROVE  /\ Enforce(s) /\ ~s.dryRun => MayGovern(s)
         /\ s.dryRun /\ ResolveToken(s) # Unreadable => Enforce(s)
         /\ /\ ResolveToken(s) = NoToken
            /\ s.projects <= FreeTierMaxProjects /\ s.required \subseteq CommunityFeatures
            => Enforce(s)
<1>1. /\ s.local \in Int /\ s.server \in Int /\ s.attested \in BOOLEAN /\ s.dryRun \in BOOLEAN
      /\ s.key \in Given /\ s.file \in Given /\ s.found \in Given
  BY DEF SituationSet
<1>2. ResolveToken(s) \in {s.key, s.file, s.found} /\ ResolveToken(s) \in Given
  BY <1>1 DEF ResolveToken
<1>3. ASSUME IsApacheConverted(s, EvaluationTime(s)) PROVE IsApacheConverted(s, Clock(s))
  BY <1>1, <1>3 DEF EvaluationTime, IsApacheConverted, Clock
<1>4. EvaluationTime(s) \in Int /\ Clock(s) \in Int /\ Clock(s) <= EvaluationTime(s) + 1
  BY <1>1 DEF EvaluationTime, Clock, Unknown
<1>5. ASSUME NEW t \in Tokens, IsEntitled(t, s)
      PROVE  /\ \A f \in (s.required \cap EnterpriseFeatures) \ Attributes[t].features :
                  Attributes[t].plan = "enterprise"
             /\ \A f \in (s.required \cap ProFeatures) \ Attributes[t].features :
                  Attributes[t].plan \in {"pro", "enterprise"}
  <2>1. ASSUME NEW f \in s.required, f \notin CommunityFeatures, f \notin Attributes[t].features
        PROVE  f \in TierFeatures(Attributes[t].plan)
    BY <1>5, <2>1 DEF IsEntitled, FeaturesOf
  <2>2. ASSUME NEW f \in s.required, f \in EnterpriseFeatures, f \notin Attributes[t].features
        PROVE  Attributes[t].plan = "enterprise"
    <3>1. f \notin CommunityFeatures /\ f \notin {"push_rules"} \cup ProFeatures
      BY <2>2 DEF EnterpriseFeatures, CommunityFeatures, ProFeatures
    <3> QED BY <2>1, <2>2, <3>1 DEF TierFeatures
  <2>3. ASSUME NEW f \in s.required, f \in ProFeatures, f \notin Attributes[t].features
        PROVE  Attributes[t].plan \in {"pro", "enterprise"}
    <3>1. f \notin CommunityFeatures
      BY <2>3 DEF ProFeatures, CommunityFeatures
    <3> QED BY <2>1, <2>3, <3>1 DEF TierFeatures
  <2> QED BY <2>2, <2>3
<1>6. ASSUME Enforce(s), ~s.dryRun PROVE MayGovern(s)
  <2>1. CASE IsApacheConverted(s, EvaluationTime(s))
    BY <1>3, <2>1 DEF MayGovern
  <2>2. CASE ResolveToken(s) = NoToken /\ s.required \subseteq CommunityFeatures /\ IsFree(s)
    BY <2>2 DEF MayGovern, IsFree
  <2>3. ASSUME NEW t \in Tokens, t = ResolveToken(s), IsVerified(t, EvaluationTime(s)),
               HasCapacity(t, s), IsHostAllowed(t, s), IsNamespaceAllowed(t, s),
               IsEntitled(t, s)
        PROVE  MayGovern(s)
    <3>1. t \in Tokens \cap {s.key, s.file, s.found}
      BY <1>2, <2>3
    <3>2. Attributes[t].until \in Int /\ EvaluationTime(s) <= Attributes[t].until
      BY <2>3, LicenseAssumption DEF IsVerified
    <3>3. Attributes[t].until + 1 >= Clock(s)
      BY <1>4, <3>2
    <3>4. /\ \A f \in (s.required \cap EnterpriseFeatures) \ Attributes[t].features :
               Attributes[t].plan = "enterprise"
          /\ \A f \in (s.required \cap ProFeatures) \ Attributes[t].features :
               Attributes[t].plan \in {"pro", "enterprise"}
      BY <1>5, <2>3
    <3> QED BY <2>3, <3>1, <3>3, <3>4
            DEF MayGovern, IsVerified, HasCapacity, IsHostAllowed, IsNamespaceAllowed
  <2> QED BY <1>6, <2>1, <2>2, <2>3 DEF Enforce
<1>7. ASSUME s.dryRun, ResolveToken(s) # Unreadable PROVE Enforce(s)
  BY <1>2, <1>7 DEF Enforce, Given
<1>8. ASSUME ResolveToken(s) = NoToken, s.projects <= FreeTierMaxProjects,
             s.required \subseteq CommunityFeatures
      PROVE  Enforce(s)
  BY <1>8 DEF Enforce, IsFree
<1> QED BY <1>6, <1>7, <1>8

(* For any licenses, clocks and fleets: no invocation gets past the        *)
(* license step to change GitLab unless it may, and none is held that must *)
(* be let through (Enforce).                                               *)
THEOREM LicensesAreEnforced == Spec => []LicenseIsEnforced
<1>1. InvocationInv => LicenseIsEnforced
  <2> SUFFICES ASSUME InvocationInv, NEW i \in Slots, NEW l \in Licenses
               PROVE  LET s == RequestIn(l, i)
                      IN /\ Enforce(s) /\ ~s.dryRun => MayGovern(s)
                         /\ s.dryRun /\ ResolveToken(s) # Unreadable => Enforce(s)
                         /\ /\ ResolveToken(s) = NoToken
                            /\ s.projects <= FreeTierMaxProjects
                            /\ s.required \subseteq CommunityFeatures
                            => Enforce(s)
    BY DEF LicenseIsEnforced
  <2>1. l \in SituationSet /\ inv[i].dry \in BOOLEAN
    BY InvocationAssumption, SlotFacts DEF InvSet
  <2>2. RequestIn(l, i) \in SituationSet
    BY <2>1 DEF RequestIn, SituationSet, Features, EnterpriseFeatures
  <2> QED BY <2>2, EnforceIsRight
<1> QED BY <1>1, InvocationInvAlways, PTL
=============================================================================
