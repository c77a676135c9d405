-------------------------- MODULE EnrollmentProofs --------------------------
(***************************************************************************)
(* Proofs about Enrollment, for any number of tokens, sequences, power     *)
(* losses, failing operations and card replacements: the hand-over of the  *)
(* card to a new identity is whole whenever the device runs under it, and  *)
(* a token the operator was told is accepted is kept until it is claimed.  *)
(***************************************************************************)
EXTENDS Enrollment, TLAPS

-----------------------------------------------------------------------------
(* Numbers                                                                 *)

\* The larger of two numbers.
LEMMA MaxOfTwo ==
  ASSUME NEW a \in Int, NEW b \in Int
  PROVE  Max({a, b}) \in {a, b} /\ Max({a, b}) >= a /\ Max({a, b}) >= b
<1>1. \E x \in {a, b} : \A y \in {a, b} : x >= y
  OBVIOUS
<1>2. /\ Max({a, b}) \in {a, b}
      /\ \A y \in {a, b} : Max({a, b}) >= y
  BY <1>1 DEF Max
<1>. QED  BY <1>2

\* The largest of four numbers.
LEMMA MaxOfFour ==
  ASSUME NEW a \in Int, NEW b \in Int, NEW c \in Int, NEW d \in Int
  PROVE  /\ Max({a, b, c, d}) \in {a, b, c, d}
         /\ Max({a, b, c, d}) >= a /\ Max({a, b, c, d}) >= b
         /\ Max({a, b, c, d}) >= c /\ Max({a, b, c, d}) >= d
<1>1. \E x \in {a, b, c, d} : \A y \in {a, b, c, d} : x >= y
  <2>1. PICK x \in {a, b} : x >= a /\ x >= b
    OBVIOUS
  <2>2. PICK y \in {c, d} : y >= c /\ y >= d
    OBVIOUS
  <2>. QED  BY <2>1, <2>2
<1>2. /\ Max({a, b, c, d}) \in {a, b, c, d}
      /\ \A y \in {a, b, c, d} : Max({a, b, c, d}) >= y
  BY <1>1 DEF Max
<1>. QED  BY <1>2

-----------------------------------------------------------------------------
(* Types                                                                   *)

\* The shapes of the stored record, the NVS keys, a reading, the card, the
\* published identity and a claim.
RecordType ==
  [kind : {"none", "clear", "pending", "staged", "active"}, dev : Nat, tok : Nat,
   src : Int, card : Nat, bnd : Nat, floor : Nat]
KeyType == [tok : Nat, ack : Nat, rem : Nat, bnd : Nat]
ReadingType == [seq : Nat, dev : Nat, sent : BOOLEAN]
CardType ==
  [gen : Nat, target : Int, tmp : Int, bak : Int, next : Nat \ {0},
   recs : SUBSET ReadingType]
RamType == [dev : Nat, tok : Nat, staged : BOOLEAN, ack : Nat, reboot : BOOLEAN]
ClaimType == [tok : Nat, ans : {"none", "assigned"}, bnd : Nat]

\* Every variable keeps its shape.
Typed ==
  /\ rec \in RecordType /\ nvs \in KeyType /\ card \in CardType /\ ram \in RamType
  /\ mount \in Int /\ claim \in ClaimType
  /\ issued \in Nat /\ given \in Nat /\ overtaken \in BOOLEAN

\* The records, keys, cards and claims that the actions build have their
\* shapes.
LEMMA Shapes ==
  /\ NoRecord \in RecordType /\ Tombstone \in RecordType
  /\ \A tok \in Nat : Pending(tok) \in RecordType
  /\ \A dev \in Nat, src \in Int, gen \in Nat, bnd \in Nat :
       Staged(dev, src, gen, bnd) \in RecordType
  /\ \A r \in RecordType, floor \in Nat : Activated(r, floor) \in RecordType
  /\ ClearedKeys \in KeyType /\ NoRam \in RamType /\ NoClaim \in ClaimType
  /\ \A gen \in Nat : BlankCard(gen) \in CardType
  BY DEF NoRecord, Tombstone, Pending, Staged, Activated, Record, RecordType,
         ClearedKeys, KeyType, NoRam, RamType, NoClaim, ClaimType, BlankCard,
         CardType, NoDevice

\* The fields of the variables.
LEMMA Fields ==
  ASSUME Typed
  PROVE  /\ rec.dev \in Nat /\ rec.tok \in Nat /\ rec.src \in Int /\ rec.card \in Nat
         /\ rec.bnd \in Nat /\ rec.floor \in Nat
         /\ nvs.tok \in Nat /\ nvs.ack \in Nat /\ nvs.rem \in Nat /\ nvs.bnd \in Nat
         /\ card.gen \in Nat /\ card.target \in Int /\ card.tmp \in Int
         /\ card.bak \in Int /\ card.next \in Nat \ {0} /\ card.recs \subseteq ReadingType
         /\ ram.dev \in Nat /\ ram.tok \in Nat /\ ram.ack \in Nat /\ ram.staged \in BOOLEAN
         /\ claim.tok \in Nat /\ claim.bnd \in Nat
         /\ issued \in Nat /\ given \in Nat /\ mount \in Int
         /\ \A r \in card.recs : r.seq \in Nat /\ r.dev \in Nat /\ r.sent \in BOOLEAN
  BY DEF Typed, RecordType, KeyType, CardType, RamType, ClaimType, ReadingType

\* The floor a mounted card is raised to is at or above the cursor.
LEMMA FloorOfMount ==
  ASSUME Typed
  PROVE  RequiredFloor \in Nat /\ RequiredFloor >= nvs.ack
<1>. DEFINE staged == IF ram.staged THEN rec.bnd ELSE 0
<1>1. staged \in Nat /\ {nvs.ack, nvs.rem, nvs.bnd} \subseteq Nat
  BY Fields
<1>2. RequiredFloor = Max({nvs.ack, nvs.rem, nvs.bnd, staged})
  BY DEF RequiredFloor
<1>. HIDE DEF staged
<1>3. /\ Max({nvs.ack, nvs.rem, nvs.bnd, staged}) \in {nvs.ack, nvs.rem, nvs.bnd, staged}
      /\ Max({nvs.ack, nvs.rem, nvs.bnd, staged}) >= nvs.ack
  <2>1. nvs.ack \in Int /\ nvs.rem \in Int /\ nvs.bnd \in Int /\ staged \in Int
    BY <1>1
  <2>. QED  BY ONLY <2>1, MaxOfFour
<1>. QED  BY <1>1, <1>2, <1>3

\* The floor of an activation is at or above the boundary, the cursors and
\* every sequence of the card.
LEMMA FloorOfActivation ==
  ASSUME Typed
  PROVE  /\ ActivationFloor \in Nat
         /\ ActivationFloor >= rec.bnd /\ ActivationFloor >= card.next - 1
         /\ ActivationFloor >= ram.ack /\ ActivationFloor >= nvs.rem
         /\ ActivationFloor \in {rec.bnd, card.next - 1, ram.ack, nvs.rem}
<1>1. card.next - 1 \in Nat /\ {rec.bnd, ram.ack, nvs.rem} \subseteq Nat
  BY Fields
<1>. DEFINE last == card.next - 1
<1>2. rec.bnd \in Int /\ last \in Int /\ ram.ack \in Int /\ nvs.rem \in Int
  BY <1>1
<1>3. ActivationFloor = Max({rec.bnd, last, ram.ack, nvs.rem})
  BY DEF ActivationFloor
<1>4. last \in Nat
  BY <1>1
<1>. HIDE DEF last
<1>5. /\ Max({rec.bnd, last, ram.ack, nvs.rem}) \in {rec.bnd, last, ram.ack, nvs.rem}
      /\ Max({rec.bnd, last, ram.ack, nvs.rem}) >= rec.bnd
      /\ Max({rec.bnd, last, ram.ack, nvs.rem}) >= last
      /\ Max({rec.bnd, last, ram.ack, nvs.rem}) >= ram.ack
      /\ Max({rec.bnd, last, ram.ack, nvs.rem}) >= nvs.rem
  BY ONLY <1>2, MaxOfFour
<1>6. /\ ActivationFloor \in {rec.bnd, last, ram.ack, nvs.rem}
      /\ ActivationFloor >= rec.bnd /\ ActivationFloor >= last
      /\ ActivationFloor >= ram.ack /\ ActivationFloor >= nvs.rem
  BY <1>3, <1>5
<1>7. ActivationFloor \in Nat
  BY <1>1, <1>4, <1>6
<1>. QED  BY <1>6, <1>7 DEF last

\* The marks for no device and a torn file are numbers.
LEMMA Marks == NoDevice \in Int /\ Torn \in Int
  BY DEF NoDevice, Torn

\* A change of one field leaves a card a card.
LEMMA CardUpdates ==
  ASSUME NEW c \in CardType, NEW x \in Int
  PROVE  /\ [c EXCEPT !.target = x] \in CardType /\ [c EXCEPT !.tmp = x] \in CardType
         /\ [c EXCEPT !.bak = x] \in CardType
  BY DEF CardType

\* Recovering or tidying a manifest leaves a card a card, and its readings
\* and its next sequence as they were.
LEMMA ManifestShapes ==
  ASSUME NEW c \in CardType, NEW id \in Int, NEW prev \in Int
  PROVE  LET m == RecoverManifest(c, id, prev) IN
         /\ m \in CardType /\ m.recs = c.recs /\ m.next = c.next
         /\ Tidy(m, id) \in CardType /\ Tidy(m, id).recs = c.recs
         /\ Tidy(m, id).next = c.next /\ Tidy(m, id).target = m.target
<1>1. \A t \in Int : /\ [c EXCEPT !.target = t, !.tmp = NoDevice, !.bak = NoDevice] \in CardType
                     /\ [c EXCEPT !.target = t] \in CardType
  BY Marks DEF CardType
<1>2. c.tmp \in Int /\ c.bak \in Int
  BY DEF CardType
<1>3. RecoverManifest(c, id, prev) \in CardType
  BY <1>1, <1>2 DEF RecoverManifest
<1>4. /\ RecoverManifest(c, id, prev).recs = c.recs
      /\ RecoverManifest(c, id, prev).next = c.next
  BY DEF RecoverManifest, CardType
<1>5. \A m \in CardType : /\ Tidy(m, id) \in CardType /\ Tidy(m, id).recs = m.recs
                          /\ Tidy(m, id).next = m.next /\ Tidy(m, id).target = m.target
  BY Marks DEF Tidy, CardType
<1>. QED  BY <1>3, <1>4, <1>5

\* WriteManifest keeps the shape of the card, its readings, and never lowers
\* its next sequence; on a card it accepts the next sequence is above the
\* cursor.
LEMMA WriteManifestEffect ==
  ASSUME Typed, WriteManifest
  PROVE  /\ card' \in CardType /\ mount' \in Int
         /\ card'.recs = card.recs /\ card'.next >= card.next
         /\ LET c == RecoverManifest(card, StorageDevice, AcceptedPrevious) IN
            \/ /\ Accepted(c, StorageDevice, AcceptedPrevious)
               /\ mount' = c.target /\ card'.target = c.target
               /\ card'.next > nvs.ack
               /\ card'.tmp = Tidy(c, StorageDevice).tmp
               /\ card'.bak = Tidy(c, StorageDevice).bak
            \/ mount' = NoDevice /\ card' = c
<1>. DEFINE c == RecoverManifest(card, StorageDevice, AcceptedPrevious)
            t == Tidy(c, StorageDevice)
<1>1. StorageDevice \in Int /\ AcceptedPrevious \in Int /\ card \in CardType
  BY Fields DEF StorageDevice, AcceptedPrevious, NoDevice, Typed
<1>2. /\ c \in CardType /\ c.recs = card.recs /\ c.next = card.next
      /\ t \in CardType /\ t.recs = card.recs /\ t.next = card.next /\ t.target = c.target
  BY <1>1, ManifestShapes
<1>3. RequiredFloor \in Nat /\ RequiredFloor >= nvs.ack /\ nvs.ack \in Nat
  BY FloorOfMount, Fields
<1>4. /\ card.next \in Nat \ {0} /\ c.target \in Int
  BY <1>1, <1>2 DEF CardType
<1>5. CASE Accepted(c, StorageDevice, AcceptedPrevious)
  <2>1. card' = [t EXCEPT !.next = Max({@, RequiredFloor + 1})] /\ mount' = c.target
    BY <1>5 DEF WriteManifest
  <2>. DEFINE n == Max({card.next, RequiredFloor + 1})
  <2>2. n \in Nat \ {0} /\ n >= card.next /\ n > nvs.ack
    <3>1. card.next \in Int /\ RequiredFloor + 1 \in Int
      BY <1>3, <1>4
    <3>2. n \in {card.next, RequiredFloor + 1} /\ n >= card.next /\ n >= RequiredFloor + 1
      BY ONLY <3>1, MaxOfTwo
    <3>. HIDE DEF n
    <3>. QED  BY <3>2, <1>3, <1>4
  <2>3. card' = [t EXCEPT !.next = n]
    BY <1>2, <2>1
  <2>. HIDE DEF n, t, c
  <2>4. /\ card' \in CardType /\ card'.recs = t.recs /\ card'.next = n
        /\ card'.target = t.target /\ card'.tmp = t.tmp /\ card'.bak = t.bak
    BY <1>2, <2>2, <2>3 DEF CardType
  <2>. QED  BY <1>2, <1>4, <1>5, <2>1, <2>2, <2>4 DEF t, c
<1>6. CASE ~Accepted(c, StorageDevice, AcceptedPrevious)
  BY <1>2, <1>4, <1>6 DEF WriteManifest, NoDevice
<1>. QED  BY <1>5, <1>6

\* The initial state has the shapes.
LEMMA TypedInit == Init => Typed
<1>. SUFFICES ASSUME Init PROVE Typed
  OBVIOUS
<1>1. BlankCard(1) \in CardType
  BY Shapes
<1>2. NoDevice \in Int
  BY Marks
<1>. QED  BY <1>1, <1>2, Shapes DEF Init, Typed

\* Every step keeps the shapes.
LEMMA TypedStep ==
  ASSUME Typed, [Next]_vars
  PROVE  Typed'
<1>. USE DEF Others, cloud
<1>1. CASE UNCHANGED vars
  BY <1>1 DEF vars, Typed
<1>2. CASE PowerOn
  BY <1>2 DEF PowerOn, Typed
<1>3. CASE LoadRecord
  <2>1. rec' \in RecordType
    BY <1>3, Shapes DEF LoadRecord, Typed
  <2>2. ram' \in RamType
    <3>1. ram' \in {ram, [ram EXCEPT !.dev = IF rec.kind = "active" THEN rec.dev ELSE 0,
                                     !.staged = (rec.kind = "staged")]}
      BY <1>3 DEF LoadRecord
    <3>2. (IF rec.kind = "active" THEN rec.dev ELSE 0) \in Nat
      BY Fields
    <3>. QED  BY <3>1, <3>2 DEF Typed, RamType
  <2>. QED  BY <1>3, <2>1, <2>2 DEF LoadRecord, Typed
<1>4. CASE \/ RestoreToken \/ RestoreAck \/ RestoreRemoval \/ EraseToken
           \/ ActivateAck \/ ActivateRemoval \/ ActivateBoundary
           \/ ReenrollToken \/ ReenrollAck \/ ReenrollRemoval \/ ResetKeys
  <2>1. nvs' \in KeyType
    <3>1. rec.tok \in Nat /\ rec.bnd \in Nat /\ ActivationFloor \in Nat /\ issued \in Nat
      BY Fields, FloorOfActivation
    <3>2. \A n \in Nat : /\ [nvs EXCEPT !.tok = n] \in KeyType /\ [nvs EXCEPT !.ack = n] \in KeyType
                         /\ [nvs EXCEPT !.rem = n] \in KeyType /\ [nvs EXCEPT !.bnd = n] \in KeyType
      BY DEF Typed, KeyType
    <3>. QED  BY <1>4, <3>1, <3>2, Shapes
              DEF RestoreToken, RestoreAck, RestoreRemoval, EraseToken, ActivateAck,
                  ActivateRemoval, ActivateBoundary, ReenrollToken, ReenrollAck,
                  ReenrollRemoval, ResetKeys, WriteKey, Typed
  <2>. QED
    BY <1>4, <2>1 DEF RestoreToken, RestoreAck, RestoreRemoval, EraseToken,
               ActivateAck, ActivateRemoval, ActivateBoundary, ReenrollToken,
               ReenrollAck, ReenrollRemoval, ResetKeys, OnlyKeys, Typed
<1>5. CASE PublishPending \/ QueueReboot \/ EndReenrollment \/ FinishActivation
  <2>1. nvs' \in KeyType
    BY <1>5 DEF PublishPending, QueueReboot, EndReenrollment, FinishActivation,
       Typed, KeyType
  <2>2. ram' \in RamType
    BY <1>5, Fields DEF PublishPending, QueueReboot, EndReenrollment,
       FinishActivation, OnlyKeys,
       Typed, RamType
  <2>. QED
    BY <1>5, <2>1, <2>2 DEF PublishPending, QueueReboot, EndReenrollment,
               FinishActivation, OnlyKeys, Typed
<1>6. CASE MountCard
  <2>1. card' \in CardType /\ mount' \in Int
    BY <1>6, WriteManifestEffect DEF MountCard, Typed, NoDevice
  <2>2. ram' \in RamType
    BY <1>6, Fields DEF MountCard, Typed, RamType
  <2>. QED  BY <1>6, <2>1, <2>2 DEF MountCard, Typed
<1>7. CASE \/ CheckBinding \/ ClearReadings \/ StageManifest \/ WriteTemporary
           \/ BackupManifest \/ InstallManifest \/ DropBackup
  <2>1. card' \in CardType
    <3>1. CASE CheckBinding \/ ClearReadings
      BY <3>1 DEF CheckBinding, ClearReadings, Typed, CardType
    <3>2. CASE StageManifest
      BY <3>2, Marks DEF StageManifest, Typed, CardType
    <3>3. CASE WriteTemporary \/ DropBackup
      <4>1. rec.dev \in Int
        BY Fields
      <4>. QED
        BY <3>3, <4>1, Marks, CardUpdates DEF WriteTemporary, DropBackup, Typed
    <3>4. CASE BackupManifest
      BY <3>4, Marks, Fields DEF BackupManifest, Typed, CardType
    <3>5. CASE InstallManifest
      BY <3>5, Marks, Fields DEF InstallManifest, Typed, CardType
    <3>. QED  BY <1>7, <3>1, <3>2, <3>3, <3>4, <3>5
  <2>. QED
    BY <1>7, <2>1 DEF CheckBinding, ClearReadings, StageManifest,
       WriteTemporary,
               BackupManifest, InstallManifest, DropBackup, OnlyCard, Typed
<1>8. CASE AdvanceFloor
  <2>. DEFINE n == Max({card.next, ActivationFloor + 1})
  <2>1. n \in Nat \ {0}
    <3>1. /\ card.next \in Nat \ {0} /\ ActivationFloor + 1 \in Nat \ {0}
      BY Fields, FloorOfActivation
    <3>2. card.next \in Int /\ ActivationFloor + 1 \in Int
      BY <3>1
    <3>3. n \in {card.next, ActivationFloor + 1}
      BY ONLY <3>2, MaxOfTwo
    <3>. QED  BY <3>1, <3>3
  <2>2. card' \in {card, [card EXCEPT !.next = n]}
    BY <1>8 DEF AdvanceFloor
  <2>. HIDE DEF n
  <2>3. card' \in CardType
    BY <2>1, <2>2 DEF Typed, CardType
  <2>. QED  BY <1>8, <2>3 DEF AdvanceFloor, OnlyCard, Typed
<1>9. CASE ActivateRecord
  <2>1. ActivationFloor \in Nat
    BY FloorOfActivation
  <2>2. [NoRam EXCEPT !.dev = rec.dev, !.ack = ActivationFloor] \in RamType
    BY <2>1, Fields DEF NoRam, RamType
  <2>3. Activated(rec, ActivationFloor) \in RecordType
    BY <2>1, Shapes DEF Typed
  <2>4. rec.dev \in Int
    BY Fields
  <2>5. rec' \in RecordType /\ ram' \in RamType /\ mount' \in Int
    BY <1>9, <2>2, <2>3, <2>4 DEF ActivateRecord, Typed
  <2>. QED  BY <1>9, <2>5 DEF ActivateRecord, Typed
<1>10. CASE SendClaim \/ ServerAnswers \/ LoseClaim
  <2>1. Token \in Nat
    BY Fields DEF Token
  <2>2. claim' \in ClaimType
    <3>1. CASE SendClaim
      BY <3>1, <2>1 DEF SendClaim, ClaimType, NoClaim
    <3>2. CASE ServerAnswers
      <4>1. \A b \in 0 .. MaxBound : b \in Nat
        BY BoundsAssumption
      <4>. QED  BY <3>2, <4>1, Shapes DEF ServerAnswers, ClaimType, Typed
    <3>. QED  BY <1>10, <3>1, <3>2, Shapes DEF LoseClaim
  <2>. QED  BY <1>10, <2>2 DEF SendClaim, ServerAnswers, LoseClaim, Typed
<1>11. CASE StageActivation
  <2>1. Staged(claim.tok, mount, card.gen, claim.bnd) \in RecordType
    BY Shapes, Fields
  <2>2. rec' \in RecordType /\ claim' \in ClaimType
    BY <1>11, <2>1, Shapes DEF StageActivation, Typed
  <2>3. ram' \in RamType /\ overtaken' \in BOOLEAN
    <3>1. [ram EXCEPT !.dev = 0, !.tok = 0, !.staged = TRUE] \in RamType
      BY DEF Typed, RamType
    <3>2. (overtaken \/ claim.tok # given) \in BOOLEAN
      OBVIOUS
    <3>3. ram' \in RamType
      BY <1>11, <3>1 DEF StageActivation, Typed
    <3>4. overtaken' \in BOOLEAN
      BY <1>11, <3>2 DEF StageActivation, Typed
    <3>. QED  BY <3>3, <3>4
  <2>. QED  BY <1>11, <2>2, <2>3 DEF StageActivation, Typed
<1>12. CASE ActivationReboot \/ PowerLoss \/ PowerCycle
  BY <1>12, Shapes DEF ActivationReboot, PowerLoss, PowerCycle, Off, Typed,
     NoDevice
<1>13. CASE GiveToken \/ RequestReenrollment
  BY <1>13 DEF GiveToken, RequestReenrollment, Typed, KeyType
<1>14. CASE CommitPending
  <2>1. ram' \in RamType
    <3>1. [ram EXCEPT !.dev = 0, !.tok = issued, !.staged = FALSE, !.ack = 0] \in RamType
      BY Fields DEF Typed, RamType
    <3>. QED  BY <1>14, <3>1 DEF CommitPending, Typed
  <2>. QED  BY <1>14, <2>1, Shapes DEF CommitPending, Typed
<1>15. CASE FactoryReset \/ ResetRecord
  BY <1>15, Shapes DEF FactoryReset, ResetRecord, Off, Typed, NoDevice
<1>16. CASE AppendReading
  <2>1. [seq |-> card.next, dev |-> ram.dev, sent |-> FALSE] \in ReadingType
    BY Fields DEF ReadingType
  <2>2. card' \in CardType
    <3>1. card.next + 1 \in Nat \ {0}
      BY Fields
    <3>2. card.recs \union {[seq |-> card.next, dev |-> ram.dev, sent |-> FALSE]}
            \in SUBSET ReadingType
      BY <2>1, Fields
    <3>. QED  BY <1>16, <3>1, <3>2 DEF AppendReading, Typed, CardType
  <2>. QED  BY <1>16, <2>2 DEF AppendReading, OnlyCard, Typed
<1>17. CASE Acknowledge
  <2>1. PICK s \in {r.seq : r \in {x \in card.recs : x.seq > ram.ack}} :
          /\ nvs' = [nvs EXCEPT !.ack = s]
          /\ ram' = [ram EXCEPT !.ack = s]
          /\ card' = [card EXCEPT !.recs =
                {IF r.seq > ram.ack /\ r.seq <= s THEN [r EXCEPT !.sent = TRUE] ELSE r :
                 r \in card.recs}]
    BY <1>17 DEF Acknowledge
  <2>2. s \in Nat
    BY <2>1, Fields
  <2>3. nvs' \in KeyType /\ ram' \in RamType
    BY <2>1, <2>2 DEF Typed, KeyType, RamType
  <2>4. \A r \in card.recs :
          (IF r.seq > ram.ack /\ r.seq <= s THEN [r EXCEPT !.sent = TRUE] ELSE r) \in ReadingType
    BY Fields DEF ReadingType
  <2>5. card' \in CardType
    BY <2>1, <2>4 DEF Typed, CardType
  <2>. QED  BY <1>17, <2>3, <2>5 DEF Acknowledge, Typed
<1>18. CASE ReplaceCard
  <2>1. card.gen + 1 \in Nat
    BY Fields
  <2>. QED  BY <1>18, <2>1, Shapes DEF ReplaceCard, Typed
<1>. QED
  BY <1>1, <1>2, <1>3, <1>4, <1>5, <1>6, <1>7, <1>8, <1>9, <1>10, <1>11, <1>12,
             <1>13, <1>14, <1>15, <1>16, <1>17, <1>18
          DEF Next, Boot, Activate, Claim, Reenroll

-----------------------------------------------------------------------------
(* Places                                                                  *)

\* The steps of the boot by the record they work on, and those of the
\* activation that follow the deletion of the readings and the rebinding.
PendingSteps == {"ptok", "pack", "prem", "ppub"}
ClearedSteps == {"rebind", "tmp", "backup", "install", "unback"}
CursorSteps == {"aack", "arem", "abnd", "arec"}
StagedSteps == {"bound", "clear", "advance"} \cup ClearedSteps \cup CursorSteps

\* A switched-off device has nothing in RAM; each step of the boot works on a
\* record of its kind, and what RAM says of staged credentials is true of the
\* record.
PlaceInv ==
  /\ phase = "off" => pc = "idle" /\ ram = NoRam
  /\ pc = "load" => ram = NoRam
  /\ pc \in PendingSteps => rec.kind = "pending" /\ ~ram.staged
  /\ pc \in {"etok", "mount"} /\ ram.staged => rec.kind = "staged"
  /\ pc = "etok" => rec.kind \in {"staged", "active"}
  /\ pc \in StagedSteps => rec.kind = "staged" /\ ram.staged
  /\ pc = "atok" => rec.kind = "active"
  /\ pc = "stok" => rec.kind = "staged"
  /\ rec.kind = "staged" => rec.src # NoDevice

\* The kinds of the records that the actions write.
LEMMA RecordKinds ==
  /\ NoRecord.kind = "none" /\ Tombstone.kind = "clear" /\ Tombstone.tok = 0
  /\ \A tok : Pending(tok).kind = "pending" /\ Pending(tok).tok = tok
  /\ \A dev, src, gen, bnd : /\ Staged(dev, src, gen, bnd).kind = "staged"
                             /\ Staged(dev, src, gen, bnd).dev = dev
                             /\ Staged(dev, src, gen, bnd).src = src
  /\ \A r, floor : /\ Activated(r, floor).kind = "active"
                   /\ Activated(r, floor).dev = r.dev
                   /\ Activated(r, floor).floor = floor
  BY DEF NoRecord, Tombstone, Pending, Staged, Activated, Record

\* The initial state.
LEMMA PlaceInit == Init => PlaceInv
  BY RecordKinds DEF Init, PlaceInv, PendingSteps, ClearedSteps, CursorSteps,
     StagedSteps

\* Every step keeps the places.
LEMMA PlaceStep ==
  ASSUME Typed, PlaceInv, [Next]_vars
  PROVE  PlaceInv'
<1>. USE DEF PlaceInv, PendingSteps, ClearedSteps, CursorSteps, StagedSteps, Booting, Running,
             GoTo, Halt, Others, cloud
<1>1. CASE UNCHANGED vars
  BY <1>1 DEF vars
<1>2. CASE PowerOn
  BY <1>2 DEF PowerOn
<1>3. CASE LoadRecord
  <2>1. ram = NoRam /\ pc = "load" /\ phase = "boot" /\ ~ram.staged
    BY <1>3 DEF LoadRecord, NoRam
  <2>2. CASE \/ rec.kind \in {"none", "clear", "pending"}
             \/ rec.kind = "active" /\ CursorsBehindRecord
    BY <1>3, <2>1, <2>2, RecordKinds DEF LoadRecord
  <2>3. CASE rec.kind = "staged" \/ (rec.kind = "active" /\ ~CursorsBehindRecord)
    <3>1. /\ ram' = [ram EXCEPT !.dev = IF rec.kind = "active" THEN rec.dev ELSE 0,
                                !.staged = (rec.kind = "staged")]
          /\ pc' = "etok" /\ phase' = "boot" /\ rec' = rec
      BY <1>3, <2>1, <2>3 DEF LoadRecord
    <3>2. ram'.staged = (rec.kind = "staged")
      BY <3>1 DEF Typed, RamType
    <3>. QED  BY <2>3, <3>1, <3>2
  <2>. QED  BY <2>2, <2>3 DEF Typed, RecordType
<1>4. CASE RestoreToken \/ RestoreAck \/ RestoreRemoval \/ EraseToken
  BY <1>4 DEF RestoreToken, RestoreAck, RestoreRemoval, EraseToken, WriteKey,
     OnlyKeys
<1>5. CASE ActivateAck \/ ActivateRemoval \/ ActivateBoundary \/ FinishActivation
  BY <1>5 DEF ActivateAck, ActivateRemoval, ActivateBoundary, FinishActivation,
     WriteKey, OnlyKeys
<1>6. CASE ReenrollToken \/ ReenrollAck \/ ReenrollRemoval \/ ResetKeys
  BY <1>6 DEF ReenrollToken, ReenrollAck, ReenrollRemoval, ResetKeys, WriteKey,
     Refused, OnlyKeys
<1>7. CASE PublishPending \/ QueueReboot \/ EndReenrollment
  <2>1. ram'.staged = ram.staged
    BY <1>7 DEF PublishPending, QueueReboot, EndReenrollment, Typed, RamType
  <2>. QED  BY <1>7, <2>1 DEF PublishPending, QueueReboot, EndReenrollment
<1>8. CASE MountCard
  <2>1. ram'.staged = ram.staged
    BY <1>8 DEF MountCard, Typed, RamType
  <2>. QED  BY <1>8, <2>1 DEF MountCard
<1>9. CASE CheckBinding \/ ClearReadings \/ AdvanceFloor \/ StageManifest
  BY <1>9 DEF CheckBinding, ClearReadings, AdvanceFloor, StageManifest,
     OnlyCard
<1>10. CASE WriteTemporary \/ BackupManifest \/ InstallManifest \/ DropBackup
  BY <1>10 DEF WriteTemporary, BackupManifest, InstallManifest, DropBackup,
     OnlyCard
<1>11. CASE ActivateRecord
  BY <1>11, RecordKinds DEF ActivateRecord
<1>12. CASE SendClaim \/ ServerAnswers \/ LoseClaim
  BY <1>12 DEF SendClaim, ServerAnswers, LoseClaim
<1>13. CASE StageActivation
  BY <1>13, RecordKinds DEF StageActivation, StageAllowed
<1>14. CASE ActivationReboot \/ PowerLoss \/ PowerCycle
  BY <1>14 DEF ActivationReboot, PowerLoss, PowerCycle, Off
<1>15. CASE GiveToken \/ RequestReenrollment
  BY <1>15 DEF GiveToken, RequestReenrollment
<1>16. CASE CommitPending \/ FactoryReset
  BY <1>16, RecordKinds DEF CommitPending, FactoryReset, Refused
<1>17. CASE ResetRecord
  BY <1>17, RecordKinds DEF ResetRecord, Refused, Off
<1>18. CASE AppendReading \/ Acknowledge
  BY <1>18 DEF AppendReading, Acknowledge, OnlyCard
<1>19. CASE ReplaceCard
  BY <1>19 DEF ReplaceCard
<1>. QED
  BY <1>1, <1>2, <1>3, <1>4, <1>5, <1>6, <1>7, <1>8, <1>9, <1>10, <1>11, <1>12,
             <1>13, <1>14, <1>15, <1>16, <1>17, <1>18, <1>19
          DEF Next, Boot, Activate, Claim, Reenroll

-----------------------------------------------------------------------------
(* The token                                                               *)

\* The operator was told that a token is accepted, and neither has the server
\* seen it nor was the answer to an older claim staged over it.
Owed == given # 0 /\ given \notin spent /\ ~overtaken

\* An owed token, or a later one, is in the pending record or, without a
\* record, in its NVS key; and it is the token the running device would claim.
TokenInv ==
  /\ pc = "rend" => rec = Pending(issued) /\ ram.tok = issued
  /\ pc \in {"fkeys", "frec"} => given = 0
  /\ claim.ans = "assigned" => claim.tok \in spent
  /\ given <= issued
  /\ Owed => \/ rec.kind = "pending" /\ rec.tok >= given
             \/ rec.kind = "clear" /\ nvs.tok >= given
  /\ Owed /\ (phase = "up" \/ pc = "mount") => Token >= given

\* The initial state.
LEMMA TokenInit == Init => TokenInv
  BY DEF Init, TokenInv, Owed, NoClaim

\* A write of NVS keys that leaves enroll_tok alone changes nothing here.
LEMMA TokenFrame ==
  ASSUME Typed, TokenInv, nvs'.tok = nvs.tok, UNCHANGED <<rec, ram.tok, claim, cloud>>,
         pc' \notin {"rend", "fkeys", "frec"},
         phase' = "up" => phase = "up" \/ pc = "mount" \/ ~Owed,
         pc' = "mount" => pc = "mount" \/ ~Owed
  PROVE  TokenInv'
  BY DEF TokenInv, Owed, Token, cloud

\* Every step keeps the token.
LEMMA TokenStep ==
  ASSUME Typed, PlaceInv, TokenInv, [Next]_vars
  PROVE  TokenInv'
<1>. USE DEF Booting, Running, GoTo, Halt, Others, cloud
<1>0. /\ rec.tok \in Nat /\ nvs.tok \in Nat /\ ram.tok \in Nat /\ issued \in Nat /\ given \in Nat
  BY Fields
<1>1. CASE UNCHANGED vars
  BY <1>1 DEF vars, TokenInv, Owed, Token
<1>2. CASE PowerOn
  BY <1>2 DEF PowerOn, TokenInv, Owed, Token
<1>3. CASE LoadRecord
  <2>1. ram = NoRam /\ ram.tok = 0
    BY <1>3 DEF LoadRecord, PlaceInv, NoRam
  <2>2. /\ UNCHANGED <<nvs, claim, issued, spent, given, overtaken>>
        /\ phase' # "up" /\ pc' \in {"idle", "mount", "ptok", "etok"}
        /\ rec' # rec => rec.kind = "none"
    BY <1>3 DEF LoadRecord
  <2>3. Owed' => Owed /\ rec' = rec
    BY <2>2 DEF Owed, TokenInv
  <2>4. Owed /\ pc' = "mount" => rec.kind = "clear" /\ ram' = ram
    BY <1>3 DEF LoadRecord, TokenInv
  <2>. QED  BY <2>1, <2>2, <2>3, <2>4 DEF TokenInv, Token, Owed
<1>4. CASE RestoreToken
  BY <1>4, <1>0 DEF RestoreToken, WriteKey, OnlyKeys, TokenInv, PlaceInv,
     PendingSteps, Owed, Token
<1>5. CASE RestoreAck \/ RestoreRemoval \/ ActivateAck \/ ActivateRemoval \/ ActivateBoundary
  <2>1. nvs'.tok = nvs.tok
    BY <1>5 DEF RestoreAck, RestoreRemoval, ActivateAck, ActivateRemoval,
       ActivateBoundary,
       WriteKey, Typed, KeyType
  <2>. QED
    BY <1>5, <2>1, TokenFrame DEF RestoreAck, RestoreRemoval, ActivateAck,
               ActivateRemoval, ActivateBoundary, WriteKey, OnlyKeys
<1>6. CASE EraseToken \/ FinishActivation
  <2>1. ~Owed
    BY <1>6 DEF EraseToken, FinishActivation, TokenInv, PlaceInv
  <2>2. UNCHANGED <<rec, ram, claim, issued, spent, given, overtaken>> /\ pc' \in {"mount", "idle"}
    BY <1>6 DEF EraseToken, FinishActivation, WriteKey, OnlyKeys
  <2>. QED  BY <2>1, <2>2 DEF TokenInv, Owed
<1>7. CASE PublishPending
  <2>1. /\ rec.kind = "pending" /\ ram'.tok = rec.tok /\ pc' = "mount"
        /\ UNCHANGED <<rec, claim, issued, spent, given, overtaken>>
    BY <1>7 DEF PublishPending, PlaceInv, PendingSteps, Typed, RamType
  <2>2. Owed => rec.tok >= given /\ given # 0
    BY <2>1 DEF TokenInv, Owed
  <2>. QED  BY <1>0, <2>1, <2>2 DEF TokenInv, Owed, Token
<1>8. CASE QueueReboot
  <2>1. ~Owed
    BY <1>8 DEF QueueReboot, TokenInv, PlaceInv
  <2>. QED  BY <1>8, <2>1 DEF QueueReboot, TokenInv, Owed
<1>9. CASE MountCard
  <2>1. ram'.tok = ram.tok
    BY <1>9 DEF MountCard, Typed, RamType
  <2>. QED  BY <1>9, <2>1, TokenFrame DEF MountCard
<1>10. CASE CheckBinding \/ ClearReadings \/ AdvanceFloor \/ StageManifest
  BY <1>10, TokenFrame DEF CheckBinding, ClearReadings, AdvanceFloor,
     StageManifest, OnlyCard
<1>11. CASE WriteTemporary \/ BackupManifest \/ InstallManifest \/ DropBackup
  BY <1>11, TokenFrame DEF WriteTemporary, BackupManifest, InstallManifest,
     DropBackup, OnlyCard
<1>12. CASE ActivateRecord
  <2>1. ~Owed
    BY <1>12 DEF ActivateRecord, TokenInv, PlaceInv, StagedSteps, CursorSteps
  <2>. QED  BY <1>12, <2>1 DEF ActivateRecord, TokenInv, Owed
<1>13. CASE SendClaim \/ LoseClaim
  BY <1>13 DEF SendClaim, LoseClaim, TokenInv, Owed, Token, NoClaim
<1>14. CASE ServerAnswers
  <2>1. claim'.ans = "assigned" => claim'.tok = claim.tok
    <3>1. \A b : [claim EXCEPT !.ans = "assigned", !.bnd = b].tok = claim.tok
      BY DEF Typed, ClaimType
    <3>2. NoClaim.ans # "assigned"
      BY DEF NoClaim
    <3>. QED  BY <1>14, <3>1, <3>2 DEF ServerAnswers
  <2>2. /\ UNCHANGED <<rec, nvs, ram, phase, pc, issued, given, overtaken>>
        /\ spent' = spent \cup {claim.tok}
    BY <1>14 DEF ServerAnswers
  <2>. QED  BY <2>1, <2>2 DEF TokenInv, Owed, Token
<1>15. CASE StageActivation
  <2>1. claim.tok \in spent /\ claim' = NoClaim /\ UNCHANGED <<nvs, issued, spent, given>>
        /\ pc' \in {"stok", "idle"}
    BY <1>15 DEF StageActivation, TokenInv
  <2>2. CASE StageAllowed
    <3>1. ~Owed'
      BY <1>15, <2>1, <2>2 DEF StageActivation, Owed
    <3>. QED  BY <2>1, <3>1 DEF TokenInv, NoClaim
  <2>3. CASE ~StageAllowed
    <3>1. UNCHANGED <<rec, ram, overtaken, phase, pc>>
      BY <1>15, <2>3 DEF StageActivation
    <3>. QED  BY <2>1, <3>1 DEF TokenInv, NoClaim, Owed, Token
  <2>. QED  BY <2>2, <2>3
<1>16. CASE ActivationReboot \/ PowerLoss \/ PowerCycle
  BY <1>16 DEF ActivationReboot, PowerLoss, PowerCycle, Off, TokenInv, Owed,
     NoClaim
<1>17. CASE GiveToken
  <2>1. nvs'.tok = issued + 1 /\ rec'.kind = "clear"
    BY <1>17, RecordKinds DEF GiveToken, Typed, KeyType
  <2>. QED  BY <1>0, <1>17, <2>1 DEF GiveToken, TokenInv, Owed, Token
<1>18. CASE RequestReenrollment
  BY <1>0, <1>18 DEF RequestReenrollment, TokenInv, Owed, Token
<1>19. CASE ReenrollToken
  <2>1. nvs'.tok \in {nvs.tok, issued}
    BY <1>19 DEF ReenrollToken, WriteKey, Typed, KeyType
  <2>2. /\ phase' = phase /\ pc' \in {"rack", "idle"}
        /\ UNCHANGED <<rec, ram, claim, issued, spent, given, overtaken>>
    BY <1>19 DEF ReenrollToken, WriteKey, Refused, OnlyKeys
  <2>. QED  BY <1>0, <1>19, <2>1, <2>2 DEF ReenrollToken, TokenInv, Owed, Token
<1>20. CASE ReenrollAck \/ ReenrollRemoval
  <2>1. nvs'.tok = nvs.tok
    BY <1>20 DEF ReenrollAck, ReenrollRemoval, WriteKey, Typed, KeyType
  <2>. QED
    BY <1>20, <2>1, TokenFrame DEF ReenrollAck, ReenrollRemoval, WriteKey,
       Refused, OnlyKeys
<1>21. CASE CommitPending
  <2>1. \/ rec' = Pending(issued) /\ ram'.tok = issued
        \/ rec' \in {rec, Pending(issued)} /\ UNCHANGED ram /\ pc' = "idle"
    <3>1. [ram EXCEPT !.dev = 0, !.tok = issued, !.staged = FALSE, !.ack = 0].tok = issued
      BY DEF Typed, RamType
    <3>. QED  BY <1>21, <3>1 DEF CommitPending, Refused
  <2>2. /\ Pending(issued).kind = "pending" /\ Pending(issued).tok = issued
        /\ phase = "up" /\ phase' = "up" /\ pc' \in {"rend", "idle"}
        /\ UNCHANGED <<nvs, claim, issued, spent, given, overtaken>>
    BY <1>21, RecordKinds DEF CommitPending, Refused
  <2>. QED  BY <1>0, <2>1, <2>2 DEF TokenInv, Owed, Token
<1>22. CASE EndReenrollment
  <2>1. /\ rec.kind = "pending" /\ rec.tok = issued /\ ram.tok = issued
        /\ UNCHANGED <<rec, ram, claim, issued, spent, overtaken>>
        /\ given' = issued /\ pc' = "idle"
    BY <1>22, RecordKinds DEF EndReenrollment, TokenInv
  <2>. QED  BY <1>0, <2>1 DEF TokenInv, Owed, Token
<1>23. CASE FactoryReset
  <2>1. CASE rec' = NoRecord /\ given' = 0
    BY <1>0, <1>23, <2>1 DEF FactoryReset, Refused, TokenInv, Owed
  <2>2. CASE UNCHANGED <<rec, given>>
    BY <1>0, <1>23, <2>2 DEF FactoryReset, Refused, TokenInv, Owed, Token
  <2>. QED  BY <1>23, <2>1, <2>2 DEF FactoryReset
<1>24. CASE ResetKeys \/ ResetRecord
  <2>1. given = 0 /\ given' = 0 /\ UNCHANGED <<issued, spent>> /\ pc' # "rend"
    BY <1>24 DEF ResetKeys, ResetRecord, WriteKey, Refused, OnlyKeys, Off,
       TokenInv
  <2>2. claim' \in {claim, NoClaim}
    BY <1>24 DEF ResetKeys, ResetRecord, OnlyKeys, Off
  <2>. QED  BY <2>1, <2>2 DEF TokenInv, Owed, NoClaim
<1>25. CASE AppendReading
  BY <1>25, TokenFrame DEF AppendReading, OnlyCard
<1>26. CASE Acknowledge
  <2>1. nvs'.tok = nvs.tok /\ ram'.tok = ram.tok
    BY <1>26 DEF Acknowledge, Typed, KeyType, RamType
  <2>. QED  BY <1>26, <2>1, TokenFrame DEF Acknowledge
<1>27. CASE ReplaceCard
  BY <1>27 DEF ReplaceCard, TokenInv, Owed, Token
<1>. QED
  BY <1>1, <1>2, <1>3, <1>4, <1>5, <1>6, <1>7, <1>8, <1>9, <1>10, <1>11, <1>12,
             <1>13, <1>14, <1>15, <1>16, <1>17, <1>18, <1>19, <1>20, <1>21, <1>22, <1>23,
             <1>24, <1>25, <1>26, <1>27
          DEF Next, Boot, Activate, Claim, Reenroll

\* An acknowledgement moves both copies of the cursor to the sequence of a
\* reading, and marks as sent what lies between.
LEMMA AcknowledgeEffect ==
  ASSUME Typed, Acknowledge
  PROVE  /\ card'.next = card.next /\ UNCHANGED <<card.target, card.tmp, card.bak>>
         /\ nvs'.ack = ram'.ack /\ ram'.ack >= ram.ack /\ ram'.dev = ram.dev
         /\ \E r \in card.recs : ram'.ack = r.seq
         /\ \A q \in card'.recs : \E r \in card.recs :
              /\ q.seq = r.seq /\ q.dev = r.dev /\ (r.sent => q.sent)
              /\ (q.seq > ram.ack /\ q.seq <= ram'.ack => q.sent)
<1>1. PICK s \in {r.seq : r \in {x \in card.recs : x.seq > ram.ack}} :
          /\ nvs' = [nvs EXCEPT !.ack = s]
          /\ ram' = [ram EXCEPT !.ack = s]
          /\ card' = [card EXCEPT !.recs =
                {IF r.seq > ram.ack /\ r.seq <= s THEN [r EXCEPT !.sent = TRUE] ELSE r :
                 r \in card.recs}]
  BY DEF Acknowledge
<1>2. PICK x \in card.recs : s = x.seq /\ x.seq > ram.ack
  BY <1>1
<1>3. nvs'.ack = s /\ ram'.ack = s /\ ram'.dev = ram.dev
  BY <1>1 DEF Typed, KeyType, RamType
<1>4. /\ card'.next = card.next /\ UNCHANGED <<card.target, card.tmp, card.bak>>
      /\ card'.recs = {IF r.seq > ram.ack /\ r.seq <= s THEN [r EXCEPT !.sent = TRUE] ELSE r :
                       r \in card.recs}
  BY <1>1 DEF Typed, CardType
<1>5. ASSUME NEW q \in card'.recs
      PROVE  \E r \in card.recs : /\ q.seq = r.seq /\ q.dev = r.dev /\ (r.sent => q.sent)
                                  /\ (q.seq > ram.ack /\ q.seq <= s => q.sent)
  <2>1. PICK r \in card.recs :
          q = IF r.seq > ram.ack /\ r.seq <= s THEN [r EXCEPT !.sent = TRUE] ELSE r
    BY <1>4
  <2>2. r \in ReadingType
    BY Fields
  <2>. QED  BY <2>1, <2>2 DEF ReadingType
<1>. QED  BY <1>2, <1>3, <1>4, <1>5, Fields

-----------------------------------------------------------------------------
(* The hand-over                                                           *)

\* Every reading of a card has a positive sequence below its next one.
CardInv == \A r \in card.recs : 1 <= r.seq /\ r.seq < card.next

\* No rebinding of the manifest is under way.
Clean == card.tmp = NoDevice /\ card.bak = NoDevice

\* A card that no device has written to.
Blank == card.target = NoDevice /\ card.recs = {}

\* The readings on the card are those of the active identity, above its
\* floor, and sent up to the cursor `ack`.
OwnReadings(ack) ==
  \A r \in card.recs : r.dev = rec.dev /\ r.seq > rec.floor /\ (r.seq <= ack => r.sent)

\* Under active credentials the card is theirs or blank; the boot has checked
\* the cursors against the record when it mounts, and from then on new
\* readings are above the floor and above both copies of the cursor.
ActiveInv ==
  rec.kind = "active" =>
    /\ Clean /\ (Blank \/ (card.target = rec.dev /\ OwnReadings(nvs.ack)))
    /\ pc \in {"etok", "mount"} => ram.dev = rec.dev /\ ~ram.staged /\ nvs.ack >= rec.floor
    /\ phase = "up" \/ pc = "atok" =>
         /\ ram.dev = rec.dev /\ nvs.ack <= ram.ack
         /\ mount # NoDevice => /\ mount = rec.dev /\ card.target = rec.dev
                                /\ OwnReadings(ram.ack)
                                /\ card.next > rec.floor /\ card.next > ram.ack

\* The boundary and the cursors are below the card's next sequence.
FloorReached == rec.bnd < card.next /\ ram.ack < card.next /\ nvs.rem < card.next

\* The order of the activation: the readings are gone before the floor is
\* raised, the floor is raised before the manifest is rebound, and the
\* manifest names the new device, alone, before a cursor moves.
ActivationInv ==
  /\ pc = "bound" /\ mount # NoDevice /\ card.target = rec.dev => Clean
  /\ pc \in {"clear", "advance", "rebind"} /\ card.target = rec.dev => Clean
  /\ pc \in {"advance"} \cup ClearedSteps \cup CursorSteps => card.recs = {}
  /\ pc \in ClearedSteps \cup CursorSteps => FloorReached
  /\ pc = "backup" => card.tmp = rec.dev
  /\ pc = "install" => card.tmp = rec.dev
  /\ pc = "unback" => card.target = rec.dev /\ card.tmp = NoDevice
  /\ pc \in CursorSteps => card.target = rec.dev /\ Clean
  /\ pc \in CursorSteps \ {"aack"} => nvs.ack < card.next

\* The hand-over's part of the invariant.
HandoverInv == CardInv /\ ActiveInv /\ ActivationInv

\* The initial state.
LEMMA HandoverInit == Init => HandoverInv
  BY RecordKinds DEF Init, HandoverInv, CardInv, ActiveInv, ActivationInv,
     BlankCard,
     ClearedSteps, CursorSteps

\* Once the floor is reached it is the last sequence before the next one.
LEMMA FloorIsLast ==
  ASSUME Typed, FloorReached
  PROVE  ActivationFloor = card.next - 1
<1>1. /\ rec.bnd \in Nat /\ card.next \in Nat \ {0} /\ ram.ack \in Nat /\ nvs.rem \in Nat
  BY Fields
<1>. QED  BY <1>1, FloorOfActivation DEF FloorReached

\* Every step keeps the readings of the card below its next sequence.
LEMMA CardStep ==
  ASSUME Typed, CardInv, [Next]_vars
  PROVE  CardInv'
<1>. USE DEF CardInv
<1>0. card.next \in Nat \ {0} /\ \A r \in card.recs : r.seq \in Nat
  BY Fields
<1>1. CASE UNCHANGED card
  BY <1>1
<1>2. CASE MountCard
  <2>1. \/ UNCHANGED card
        \/ card'.recs = card.recs /\ card'.next >= card.next /\ card'.next \in Nat
    BY <1>2, WriteManifestEffect DEF MountCard, CardType
  <2>. QED  BY <1>0, <2>1
<1>3. CASE ClearReadings
  <2>1. card'.recs \subseteq card.recs /\ card'.next = card.next
    BY <1>3 DEF ClearReadings, Typed, CardType
  <2>. QED  BY <1>0, <2>1
<1>4. CASE AdvanceFloor
  <2>. DEFINE n == Max({card.next, ActivationFloor + 1})
  <2>1. n \in Int /\ n >= card.next
    <3>1. card.next \in Int /\ ActivationFloor + 1 \in Int
      BY Fields, FloorOfActivation
    <3>2. n \in {card.next, ActivationFloor + 1} /\ n >= card.next
      BY ONLY <3>1, MaxOfTwo
    <3>. QED  BY <3>1, <3>2
  <2>2. card' \in {card, [card EXCEPT !.next = n]}
    BY <1>4 DEF AdvanceFloor
  <2>. HIDE DEF n
  <2>3. card'.recs = card.recs /\ card'.next \in {card.next, n}
    BY <2>2 DEF Typed, CardType
  <2>. QED  BY <1>0, <2>1, <2>3
<1>5. CASE StageManifest \/ WriteTemporary \/ BackupManifest \/ InstallManifest \/ DropBackup
  <2>1. card'.recs = card.recs /\ card'.next = card.next
    BY <1>5 DEF StageManifest, WriteTemporary, BackupManifest, InstallManifest,
       DropBackup,
       Typed, CardType
  <2>. QED  BY <2>1
<1>6. CASE AppendReading
  <2>1. /\ card'.recs = card.recs \cup {[seq |-> card.next, dev |-> ram.dev, sent |-> FALSE]}
        /\ card'.next = card.next + 1
    BY <1>6 DEF AppendReading, Typed, CardType
  <2>. QED  BY <1>0, <2>1
<1>7. CASE Acknowledge
  <2>1. card'.next = card.next /\ \A q \in card'.recs : \E r \in card.recs : q.seq = r.seq
    BY <1>7, AcknowledgeEffect
  <2>. QED  BY <2>1
<1>8. CASE ReplaceCard
  BY <1>8 DEF ReplaceCard, BlankCard
<1>9. CASE \/ UNCHANGED vars \/ PowerOn \/ LoadRecord \/ RestoreToken \/ RestoreAck
           \/ RestoreRemoval \/ PublishPending \/ EraseToken \/ CheckBinding \/ ActivateAck
           \/ ActivateRemoval \/ ActivateBoundary \/ ActivateRecord \/ FinishActivation
           \/ Claim \/ ActivationReboot \/ GiveToken \/ Reenroll \/ FactoryReset
           \/ ResetKeys \/ ResetRecord \/ PowerLoss \/ PowerCycle
  <2>1. UNCHANGED card
    BY <1>9 DEF vars, PowerOn, LoadRecord, RestoreToken, RestoreAck,
       RestoreRemoval,
       PublishPending, EraseToken, CheckBinding, ActivateAck, ActivateRemoval,
       ActivateBoundary, ActivateRecord, FinishActivation, Claim, SendClaim, ServerAnswers,
       LoseClaim, StageActivation, QueueReboot, ActivationReboot, GiveToken, Reenroll,
       RequestReenrollment, ReenrollToken, ReenrollAck, ReenrollRemoval, CommitPending,
       EndReenrollment, FactoryReset, ResetKeys, ResetRecord, PowerLoss, PowerCycle,
       OnlyKeys, OnlyCard
  <2>. QED  BY <1>1, <2>1
<1>. QED
  BY <1>2, <1>3, <1>4, <1>5, <1>6, <1>7, <1>8, <1>9 DEF Next, Boot, Activate

\* Without staged credentials the ActivationInv has nothing to say.
LEMMA ActivationFrame ==
  /\ pc' \notin StagedSteps => ActivationInv'
  /\ ActivationInv /\ UNCHANGED <<pc, rec, nvs, card, ram, mount>> => ActivationInv'
  BY DEF ActivationInv, StagedSteps, ClearedSteps, CursorSteps, Clean,
     FloorReached

\* Every step keeps the order of the activation.
LEMMA ActivationStep ==
  ASSUME Typed, PlaceInv, CardInv, ActivationInv, [Next]_vars
  PROVE  ActivationInv'
<1>. USE DEF Booting, Running, GoTo, Halt, Others, ClearedSteps, CursorSteps
<1>0. /\ rec.bnd \in Nat /\ card.next \in Nat \ {0} /\ ram.ack \in Nat /\ nvs.rem \in Nat
      /\ rec.dev \in Nat /\ nvs.ack \in Nat
  BY Fields
<1>1. CASE UNCHANGED vars \/ ServerAnswers \/ LoseClaim \/ SendClaim
  BY <1>1, ActivationFrame DEF vars, ServerAnswers, LoseClaim, SendClaim
<1>2. CASE \/ PowerOn \/ LoadRecord \/ RestoreToken \/ RestoreAck \/ RestoreRemoval
           \/ PublishPending \/ EraseToken \/ ActivateRecord \/ FinishActivation
  <2>1. pc' \notin StagedSteps
    BY <1>2 DEF PowerOn, LoadRecord, RestoreToken, RestoreAck, RestoreRemoval,
       WriteKey,
       PublishPending, EraseToken, ActivateRecord, FinishActivation, StagedSteps
  <2>. QED  BY <2>1, ActivationFrame
<1>3. CASE \/ StageActivation \/ QueueReboot \/ ActivationReboot \/ GiveToken \/ Reenroll
           \/ FactoryReset \/ ResetKeys \/ ResetRecord \/ PowerLoss \/ PowerCycle
           \/ AppendReading \/ Acknowledge \/ ReplaceCard
  <2>1. pc' \notin StagedSteps
    BY <1>3 DEF StageActivation, QueueReboot, ActivationReboot, GiveToken,
       Reenroll,
       RequestReenrollment, ReenrollToken, ReenrollAck, ReenrollRemoval, CommitPending,
       EndReenrollment, FactoryReset, ResetKeys, ResetRecord, PowerLoss, PowerCycle,
       AppendReading, Acknowledge, ReplaceCard, WriteKey, Refused, Off, PlaceInv, StagedSteps
  <2>. QED  BY <2>1, ActivationFrame
<1>4. CASE MountCard
  <2>1. CASE ~ram.staged
    BY <1>4, <2>1, ActivationFrame DEF MountCard, StagedSteps
  <2>2. CASE ram.staged
    <3>1. pc' = "bound" /\ rec' = rec /\ StorageDevice = rec.dev
      BY <1>4, <2>2 DEF MountCard, StorageDevice
    <3>2. CASE mount' = NoDevice
      BY <3>1, <3>2 DEF ActivationInv
    <3>3. CASE mount' # NoDevice
      <4>. DEFINE c == RecoverManifest(card, StorageDevice, AcceptedPrevious)
      <4>1. /\ card'.target = c.target /\ card'.tmp = Tidy(c, StorageDevice).tmp
            /\ card'.bak = Tidy(c, StorageDevice).bak
        BY <1>4, <3>3, WriteManifestEffect DEF MountCard
      <4>2. c \in CardType
        <5>1. StorageDevice \in Int /\ AcceptedPrevious \in Int /\ card \in CardType
          BY Fields, Marks DEF StorageDevice, AcceptedPrevious, Typed
        <5>. QED  BY <5>1, ManifestShapes
      <4>3. c.target = rec.dev => Tidy(c, StorageDevice).tmp = NoDevice
                                  /\ Tidy(c, StorageDevice).bak = NoDevice
        BY <3>1, <4>2 DEF Tidy, CardType
      <4>. HIDE DEF c
      <4>. QED  BY <3>1, <4>1, <4>3 DEF ActivationInv, Clean
    <3>. QED  BY <3>2, <3>3
  <2>. QED  BY <2>1, <2>2 DEF Typed, RamType
<1>5. CASE CheckBinding
  <2>1. /\ UNCHANGED <<rec, nvs, card, ram, mount>> /\ pc = "bound"
        /\ (pc' = "clear" /\ mount \in {rec.src, rec.dev}) \/ pc' = "idle"
    BY <1>5 DEF CheckBinding, OnlyCard
  <2>2. mount \in {rec.src, rec.dev} => mount # NoDevice
    BY <1>0, <2>1 DEF PlaceInv, StagedSteps, NoDevice
  <2>. QED  BY <2>1, <2>2 DEF ActivationInv, Clean
<1>6. CASE ClearReadings
  <2>1. /\ UNCHANGED <<card.target, card.tmp, card.bak, rec, nvs, ram, mount>> /\ pc = "clear"
        /\ pc' \in {"clear", "idle"} \/ (pc' = "advance" /\ card' = card /\ card.recs = {})
    BY <1>6 DEF ClearReadings, OnlyCard, Typed, CardType
  <2>. QED  BY <2>1 DEF ActivationInv, Clean
<1>7. CASE AdvanceFloor
  <2>. DEFINE n == Max({card.next, ActivationFloor + 1})
  <2>1. n > rec.bnd /\ n > ram.ack /\ n > nvs.rem
    <3>1. /\ card.next \in Int /\ ActivationFloor + 1 \in Int /\ ActivationFloor \in Nat
          /\ ActivationFloor >= rec.bnd /\ ActivationFloor >= ram.ack /\ ActivationFloor >= nvs.rem
      BY Fields, FloorOfActivation
    <3>2. n \in {card.next, ActivationFloor + 1} /\ n >= ActivationFloor + 1
      BY ONLY <3>1, MaxOfTwo
    <3>. HIDE DEF n
    <3>. QED  BY <1>0, <3>1, <3>2
  <2>2. \/ card' = [card EXCEPT !.next = n] /\ pc' = "rebind"
        \/ pc' = "idle"
    BY <1>7 DEF AdvanceFloor
  <2>3. UNCHANGED <<rec, nvs, ram, mount>> /\ pc = "advance"
    BY <1>7 DEF AdvanceFloor, OnlyCard
  <2>. HIDE DEF n
  <2>4. CASE card' = [card EXCEPT !.next = n] /\ pc' = "rebind"
    <3>1. card'.next = n /\ UNCHANGED <<card.target, card.tmp, card.bak, card.recs>>
      BY <2>4 DEF Typed, CardType
    <3>. QED  BY <2>1, <2>3, <2>4, <3>1 DEF ActivationInv, FloorReached, Clean
  <2>5. CASE pc' = "idle"
    BY <2>5, ActivationFrame DEF StagedSteps
  <2>. QED  BY <2>2, <2>4, <2>5
<1>8. CASE StageManifest \/ WriteTemporary \/ BackupManifest \/ InstallManifest \/ DropBackup
  <2>1. UNCHANGED <<rec, nvs, ram, mount>> /\ pc \in ClearedSteps
    BY <1>8 DEF StageManifest, WriteTemporary, BackupManifest, InstallManifest,
       DropBackup, OnlyCard
  <2>2. card'.recs = card.recs /\ card'.next = card.next
    BY <1>8 DEF StageManifest, WriteTemporary, BackupManifest, InstallManifest,
       DropBackup,
       Typed, CardType
  <2>3. FloorReached' /\ card'.recs = {}
    BY <2>1, <2>2 DEF ActivationInv, FloorReached
  <2>4. CASE StageManifest
    BY <2>1, <2>3, <2>4 DEF StageManifest, ActivationInv, Clean
  <2>5. CASE WriteTemporary
    <3>1. pc' = "idle" \/ (pc' = "backup" /\ card'.tmp = rec.dev)
      BY <2>5 DEF WriteTemporary, Typed, CardType
    <3>. QED  BY <2>1, <2>3, <3>1 DEF ActivationInv
  <2>6. CASE BackupManifest
    <3>1. pc = "backup" /\ (pc' = "idle" \/ (pc' = "install" /\ card'.tmp = card.tmp))
      BY <2>6 DEF BackupManifest, Typed, CardType
    <3>. QED  BY <2>1, <2>3, <3>1 DEF ActivationInv
  <2>7. CASE InstallManifest
    <3>1. /\ pc = "install"
          /\ pc' = "idle" \/ (pc' = "unback" /\ card'.target = card.tmp /\ card'.tmp = NoDevice)
      BY <2>7 DEF InstallManifest, Typed, CardType
    <3>. QED  BY <2>1, <2>3, <3>1 DEF ActivationInv
  <2>8. CASE DropBackup
    <3>1. /\ pc = "unback"
          /\ \/ pc' = "idle"
             \/ /\ pc' = "aack" /\ card'.bak = NoDevice
                /\ card'.target = card.target /\ card'.tmp = card.tmp
      BY <2>8 DEF DropBackup, Typed, CardType
    <3>. QED  BY <2>1, <2>3, <3>1 DEF ActivationInv, Clean
  <2>. QED  BY <1>8, <2>4, <2>5, <2>6, <2>7, <2>8
<1>9. CASE ActivateAck \/ ActivateRemoval \/ ActivateBoundary
  <2>1. UNCHANGED <<rec, card, ram, mount>> /\ pc \in CursorSteps
    BY <1>9 DEF ActivateAck, ActivateRemoval, ActivateBoundary, OnlyKeys
  <2>2. /\ FloorReached /\ card.recs = {} /\ card.target = rec.dev /\ Clean
    BY <2>1 DEF ActivationInv
  <2>3. ActivationFloor = card.next - 1 /\ ActivationFloor < card.next
    BY <1>0, <2>2, FloorIsLast
  <2>4. CASE pc' = "idle"
    BY <2>4, ActivationFrame DEF StagedSteps
  <2>5. CASE pc' # "idle"
    <3>1. /\ pc' \in CursorSteps \ {"aack"}
          /\ nvs'.ack < card.next /\ nvs'.rem < card.next
      <4>1. CASE ActivateAck
        <5>1. nvs' = [nvs EXCEPT !.ack = ActivationFloor] /\ pc' = "arem"
          BY <2>5, <4>1 DEF ActivateAck, WriteKey
        <5>2. nvs'.ack = ActivationFloor /\ nvs'.rem = nvs.rem
          BY <5>1 DEF Typed, KeyType
        <5>. QED  BY <2>2, <2>3, <5>1, <5>2 DEF FloorReached
      <4>2. CASE ActivateRemoval
        <5>1. nvs' = [nvs EXCEPT !.rem = ActivationFloor] /\ pc' = "abnd" /\ pc = "arem"
          BY <2>5, <4>2 DEF ActivateRemoval, WriteKey
        <5>2. nvs'.rem = ActivationFloor /\ nvs'.ack = nvs.ack
          BY <5>1 DEF Typed, KeyType
        <5>. QED  BY <2>3, <5>1, <5>2 DEF ActivationInv
      <4>3. CASE ActivateBoundary
        <5>1. nvs' = [nvs EXCEPT !.bnd = rec.bnd] /\ pc' = "arec" /\ pc = "abnd"
          BY <2>5, <4>3 DEF ActivateBoundary, WriteKey
        <5>2. nvs'.rem = nvs.rem /\ nvs'.ack = nvs.ack
          BY <5>1 DEF Typed, KeyType
        <5>. QED  BY <2>2, <5>1, <5>2 DEF ActivationInv, FloorReached
      <4>. QED  BY <1>9, <4>1, <4>2, <4>3
    <3>. QED  BY <2>1, <2>2, <3>1 DEF ActivationInv, FloorReached, Clean
  <2>. QED  BY <2>4, <2>5
<1>. QED  BY <1>1, <1>2, <1>3, <1>4, <1>5, <1>6, <1>7, <1>8, <1>9
          DEF Next, Boot, Activate, Claim

\* A step that leaves the record and the card alone keeps the active part if
\* the cursor in NVS stays or is zeroed, and the identity in RAM stays while
\* the device mounts its card or runs.
LEMMA ActiveFrame ==
  ASSUME Typed, CardInv, ActiveInv, UNCHANGED <<rec, card>>,
         nvs'.ack = nvs.ack \/ (nvs'.ack = 0 /\ pc' \notin {"etok", "mount"}),
         pc' \in {"etok", "mount"} =>
           pc \in {"etok", "mount"} /\ ram'.dev = ram.dev /\ ram'.staged = ram.staged,
         phase' = "up" \/ pc' = "atok" =>
           (phase = "up" \/ pc = "atok") /\ UNCHANGED <<ram.dev, ram.ack, mount>>
  PROVE  ActiveInv'
<1>. SUFFICES ASSUME rec.kind = "active" PROVE ActiveInv'
  BY DEF ActiveInv
<1>1. /\ nvs.ack \in Nat /\ ram.ack \in Nat
      /\ \A r \in card.recs : r.seq \in Nat /\ 1 <= r.seq
  BY Fields DEF CardInv
<1>2. OwnReadings(nvs.ack) => OwnReadings(nvs'.ack)
  BY <1>1 DEF OwnReadings
<1>3. Clean' /\ (Blank' \/ (card'.target = rec'.dev /\ OwnReadings(nvs.ack)'))
  BY <1>2 DEF ActiveInv, Clean, Blank, OwnReadings
<1>4. phase' = "up" \/ pc' = "atok" =>
         /\ ram'.dev = rec'.dev /\ nvs'.ack <= ram'.ack
         /\ mount' # NoDevice => /\ mount' = rec'.dev /\ card'.target = rec'.dev
                                 /\ OwnReadings(ram.ack)'
                                 /\ card'.next > rec'.floor /\ card'.next > ram'.ack
  BY <1>1 DEF ActiveInv, OwnReadings
<1>. QED  BY <1>3, <1>4 DEF ActiveInv

\* Every step keeps the active part.
LEMMA ActiveStep ==
  ASSUME Typed, PlaceInv, HandoverInv, [Next]_vars
  PROVE  ActiveInv'
<1>. USE DEF Booting, Running, GoTo, Halt, Others
<1>0. /\ CardInv /\ ActiveInv /\ ActivationInv
  BY DEF HandoverInv
<1>1. CASE \/ UNCHANGED vars \/ PowerOn \/ SendClaim \/ ServerAnswers \/ LoseClaim
           \/ GiveToken \/ RequestReenrollment \/ ActivationReboot \/ PowerLoss \/ PowerCycle
  <2>1. nvs'.ack = nvs.ack
    BY <1>1 DEF vars, PowerOn, SendClaim, ServerAnswers, LoseClaim, GiveToken,
       RequestReenrollment, ActivationReboot, PowerLoss, PowerCycle, Typed, KeyType
  <2>. QED  BY <1>0, <1>1, <2>1, ActiveFrame
            DEF vars, PowerOn, SendClaim, ServerAnswers, LoseClaim, GiveToken,
                RequestReenrollment, ActivationReboot, PowerLoss, PowerCycle, Off
<1>2. CASE LoadRecord
  <2>1. /\ UNCHANGED <<nvs, card, mount>> /\ pc = "load" /\ phase = "boot"
        /\ phase' # "up" /\ pc' # "atok"
    BY <1>2 DEF LoadRecord
  <2>2. CASE rec.kind = "active" /\ ~CursorsBehindRecord
    <3>1. /\ ram' = [ram EXCEPT !.dev = IF rec.kind = "active" THEN rec.dev ELSE 0,
                                !.staged = (rec.kind = "staged")]
          /\ rec' = rec
      BY <1>2, <2>2 DEF LoadRecord
    <3>2. ram'.dev = rec.dev /\ ~ram'.staged
      BY <2>2, <3>1 DEF Typed, RamType
    <3>3. nvs.ack >= rec.floor
      BY <2>2, Fields DEF CursorsBehindRecord
    <3>. QED
      BY <1>0, <2>1, <2>2, <3>1, <3>2, <3>3 DEF ActiveInv, Clean, Blank,
         OwnReadings
  <2>3. CASE rec.kind = "active" /\ CursorsBehindRecord
    <3>1. rec' = rec /\ pc' = "idle" /\ phase' = "halted"
      BY <1>2, <2>3 DEF LoadRecord
    <3>. QED  BY <1>0, <2>1, <3>1, ActiveFrame
  <2>4. CASE rec.kind # "active"
    <3>1. rec'.kind # "active"
      BY <1>2, <2>4, RecordKinds DEF LoadRecord
    <3>. QED  BY <3>1 DEF ActiveInv
  <2>. QED  BY <2>2, <2>3, <2>4
<1>3. CASE RestoreToken \/ RestoreAck \/ RestoreRemoval \/ PublishPending
  <2>1. rec'.kind # "active"
    BY <1>3 DEF RestoreToken, RestoreAck, RestoreRemoval, PublishPending,
       OnlyKeys, PlaceInv,
       PendingSteps
  <2>. QED  BY <2>1 DEF ActiveInv
<1>4. CASE EraseToken
  <2>1. nvs'.ack = nvs.ack /\ UNCHANGED <<rec, card, ram, mount>>
    BY <1>4 DEF EraseToken, WriteKey, OnlyKeys, Typed, KeyType
  <2>. QED  BY <1>0, <1>4, <2>1, ActiveFrame DEF EraseToken, WriteKey
<1>5. CASE MountCard /\ rec.kind = "active"
  <2>1. /\ rec' = rec /\ nvs' = nvs /\ ram'.dev = ram.dev /\ ram'.ack = nvs.ack /\ pc = "mount"
        /\ nvs.ack >= rec.floor /\ ram.dev = rec.dev /\ ~ram.staged
    BY <1>0, <1>5 DEF MountCard, ActiveInv, Typed, RamType
  <2>2. phase' = "up" /\ pc' = "idle"
    BY <1>5, <2>1 DEF MountCard
  <2>3. /\ nvs.ack \in Nat /\ rec.floor \in Nat /\ rec.dev \in Nat
    BY Fields
  <2>4. CASE mount' = NoDevice /\ UNCHANGED card
    BY <1>0, <1>5, <2>1, <2>2, <2>3, <2>4 DEF ActiveInv, Clean, Blank,
       OwnReadings
  <2>5. CASE WriteManifest
    <3>1. StorageDevice = rec.dev /\ AcceptedPrevious = NoDevice
      BY <2>1 DEF StorageDevice, AcceptedPrevious
    <3>. DEFINE c == RecoverManifest(card, rec.dev, NoDevice)
    <3>2. c.target = rec.dev /\ c.tmp = NoDevice /\ c.bak = NoDevice /\ c \in CardType
      <4>1. card.target = NoDevice \/ card.target = rec.dev
        BY <1>0, <1>5 DEF ActiveInv, Blank
      <4>2. card.tmp = NoDevice /\ card.bak = NoDevice /\ rec.dev # NoDevice
        BY <1>0, <1>5, <2>3 DEF ActiveInv, Clean, NoDevice
      <4>3. (c = card /\ card.target = rec.dev) \/ c = [card EXCEPT !.target = rec.dev]
        BY <4>1, <4>2 DEF RecoverManifest
      <4>4. card \in CardType /\ rec.dev \in Int
        BY <2>3 DEF Typed
      <4>5. [card EXCEPT !.target = rec.dev] \in CardType
        BY <4>4, CardUpdates
      <4>6. /\ [card EXCEPT !.target = rec.dev].target = rec.dev
            /\ [card EXCEPT !.target = rec.dev].tmp = card.tmp
            /\ [card EXCEPT !.target = rec.dev].bak = card.bak
        BY <4>4 DEF CardType
      <4>. HIDE DEF c
      <4>. QED  BY <4>2, <4>3, <4>4, <4>5, <4>6
    <3>3. Accepted(c, rec.dev, NoDevice)
      BY <3>2 DEF Accepted
    <3>4. Tidy(c, rec.dev).tmp = NoDevice /\ Tidy(c, rec.dev).bak = NoDevice
      BY <3>2, Marks DEF Tidy, CardType
    <3>5. /\ mount' = rec.dev /\ card'.target = rec.dev /\ card'.next > nvs.ack
          /\ card'.tmp = NoDevice /\ card'.bak = NoDevice /\ card'.recs = card.recs
          /\ card'.next \in Nat
      <4>. HIDE DEF c
      <4>1. /\ card' \in CardType /\ card'.recs = card.recs
            /\ \/ /\ mount' = c.target /\ card'.target = c.target /\ card'.next > nvs.ack
                  /\ card'.tmp = Tidy(c, rec.dev).tmp /\ card'.bak = Tidy(c, rec.dev).bak
               \/ mount' = NoDevice
        BY <2>5, <3>1, WriteManifestEffect DEF c
      <4>2. mount' # NoDevice
        BY <2>3, <2>5, <3>1, <3>2, <3>3 DEF WriteManifest, NoDevice, c
      <4>. QED  BY <3>2, <3>4, <4>1, <4>2 DEF CardType
    <3>6. OwnReadings(nvs.ack)
      BY <1>0, <1>5 DEF ActiveInv, Blank, OwnReadings
    <3>7. OwnReadings(nvs.ack)' /\ OwnReadings(ram.ack)'
      BY <2>1, <3>5, <3>6 DEF OwnReadings
    <3>8. card'.next > rec.floor
      BY <2>1, <2>3, <3>5
    <3>. QED  BY <2>1, <2>2, <2>3, <3>5, <3>7, <3>8 DEF ActiveInv, Clean
  <2>. QED  BY <1>5, <2>4, <2>5 DEF MountCard
<1>6. CASE MountCard /\ rec.kind # "active"
  BY <1>6 DEF MountCard, ActiveInv
<1>7. CASE \/ CheckBinding \/ ClearReadings \/ AdvanceFloor \/ StageManifest \/ WriteTemporary
           \/ BackupManifest \/ InstallManifest \/ DropBackup
           \/ ActivateAck \/ ActivateRemoval \/ ActivateBoundary
  <2>1. rec'.kind = "staged"
    BY <1>7 DEF CheckBinding, ClearReadings, AdvanceFloor, StageManifest,
       WriteTemporary,
       BackupManifest, InstallManifest, DropBackup, ActivateAck, ActivateRemoval,
       ActivateBoundary, OnlyCard, OnlyKeys, PlaceInv, StagedSteps, ClearedSteps, CursorSteps
  <2>. QED  BY <2>1 DEF ActiveInv
<1>8. CASE ActivateRecord
  <2>1. /\ UNCHANGED <<nvs, card>> /\ pc = "arec" /\ rec.kind = "staged"
    BY <1>8 DEF ActivateRecord, PlaceInv, StagedSteps, CursorSteps
  <2>2. /\ FloorReached /\ card.recs = {} /\ card.target = rec.dev /\ Clean /\ nvs.ack < card.next
    BY <1>0, <2>1 DEF ActivationInv, CursorSteps
  <2>3. ActivationFloor = card.next - 1
    BY <2>2, FloorIsLast
  <2>4. CASE rec' = rec
    BY <2>1, <2>4 DEF ActiveInv
  <2>5. CASE rec' # rec
    <3>1. rec' = Activated(rec, ActivationFloor)
      BY <1>8, <2>5 DEF ActivateRecord
    <3>2. rec'.kind = "active" /\ rec'.dev = rec.dev /\ rec'.floor = ActivationFloor
      BY <3>1, RecordKinds
    <3>3. \/ pc' = "idle" /\ phase' = "halted"
          \/ /\ pc' = "atok" /\ mount' = rec.dev
             /\ ram' = [NoRam EXCEPT !.dev = rec.dev, !.ack = ActivationFloor]
      BY <1>8 DEF ActivateRecord
    <3>4. ram' = [NoRam EXCEPT !.dev = rec.dev, !.ack = ActivationFloor] =>
            ram'.dev = rec.dev /\ ram'.ack = ActivationFloor
      BY DEF NoRam
    <3>5. card.next \in Nat \ {0} /\ nvs.ack \in Nat
      BY Fields
    <3>6. Clean' /\ card'.target = rec'.dev /\ OwnReadings(nvs.ack)' /\ OwnReadings(ram.ack)'
      BY <2>1, <2>2, <3>2 DEF Clean, OwnReadings
    <3>7. CASE pc' = "idle" /\ phase' = "halted"
      BY <3>6, <3>7 DEF ActiveInv
    <3>8. CASE pc' = "atok" /\ mount' = rec.dev /\ ram'.dev = rec.dev /\ ram'.ack = ActivationFloor
      <4>1. nvs'.ack <= ram'.ack /\ card'.next > rec'.floor /\ card'.next > ram'.ack
        BY <2>1, <2>2, <2>3, <3>2, <3>5, <3>8
      <4>. QED  BY <3>2, <3>6, <3>8, <4>1 DEF ActiveInv
    <3>. QED  BY <3>3, <3>4, <3>7, <3>8
  <2>. QED  BY <2>4, <2>5
<1>9. CASE FinishActivation
  <2>1. nvs'.ack = nvs.ack /\ UNCHANGED <<rec, card, ram, mount>> /\ pc = "atok" /\ pc' = "idle"
    BY <1>9 DEF FinishActivation, OnlyKeys, Typed, KeyType
  <2>. QED  BY <1>0, <2>1, ActiveFrame
<1>10. CASE StageActivation \/ CommitPending \/ FactoryReset
  <2>1. \/ rec'.kind # "active"
        \/ /\ rec' = rec /\ UNCHANGED <<ram, nvs, card, mount, phase>>
           /\ pc' = "idle" /\ phase = "up"
    BY <1>10, RecordKinds DEF StageActivation, CommitPending, FactoryReset,
       Refused
  <2>2. CASE rec'.kind # "active"
    BY <2>2 DEF ActiveInv
  <2>3. CASE /\ rec' = rec /\ UNCHANGED <<ram, nvs, card, mount, phase>>
             /\ pc' = "idle" /\ phase = "up"
    BY <1>0, <2>3, ActiveFrame
  <2>. QED  BY <2>1, <2>2, <2>3
<1>11. CASE QueueReboot
  <2>1. rec'.kind # "active"
    BY <1>11 DEF QueueReboot, PlaceInv
  <2>. QED  BY <2>1 DEF ActiveInv
<1>12. CASE ReenrollToken \/ ReenrollAck \/ ReenrollRemoval \/ ResetKeys \/ EndReenrollment
  <2>1. nvs'.ack = nvs.ack \/ nvs'.ack = 0
    BY <1>12 DEF ReenrollToken, ReenrollAck, ReenrollRemoval, ResetKeys,
       EndReenrollment,
       WriteKey, ClearedKeys, Typed, KeyType
  <2>2. /\ UNCHANGED <<rec, card, ram, mount, phase>> /\ phase = "up"
        /\ pc' \in {"idle", "rack", "rrem", "rrec", "frec"}
    BY <1>12 DEF ReenrollToken, ReenrollAck, ReenrollRemoval, ResetKeys,
       EndReenrollment,
       WriteKey, Refused, OnlyKeys
  <2>. QED  BY <1>0, <2>1, <2>2, ActiveFrame
<1>13. CASE ResetRecord
  <2>1. \/ rec'.kind # "active"
        \/ /\ rec' = rec /\ UNCHANGED <<ram, nvs, card, mount, phase>>
           /\ pc' = "idle" /\ phase = "up"
    BY <1>13, RecordKinds DEF ResetRecord, Refused
  <2>2. CASE rec'.kind # "active"
    BY <2>2 DEF ActiveInv
  <2>3. CASE /\ rec' = rec /\ UNCHANGED <<ram, nvs, card, mount, phase>>
             /\ pc' = "idle" /\ phase = "up"
    BY <1>0, <2>3, ActiveFrame
  <2>. QED  BY <2>1, <2>2, <2>3
<1>14. CASE AppendReading /\ rec.kind = "active"
  <2>. DEFINE new == [seq |-> card.next, dev |-> ram.dev, sent |-> FALSE]
  <2>1. /\ UNCHANGED <<rec, nvs, ram, mount, phase, pc>>
        /\ phase = "up" /\ pc = "idle" /\ mount # NoDevice
        /\ card'.recs = card.recs \cup {new} /\ card'.next = card.next + 1
        /\ UNCHANGED <<card.target, card.tmp, card.bak>>
    BY <1>14 DEF AppendReading, OnlyCard, Typed, CardType
  <2>2. /\ ram.dev = rec.dev /\ nvs.ack <= ram.ack /\ mount = rec.dev /\ card.target = rec.dev
        /\ OwnReadings(ram.ack) /\ card.next > rec.floor /\ card.next > ram.ack /\ Clean
    BY <1>0, <1>14, <2>1 DEF ActiveInv
  <2>3. /\ card.next \in Nat /\ ram.ack \in Nat /\ nvs.ack \in Nat /\ rec.floor \in Nat
        /\ \A r \in card.recs : r.seq \in Nat
    BY Fields
  <2>4. \A r \in card'.recs :
          r.dev = rec.dev /\ r.seq > rec.floor /\ (r.seq <= ram.ack => r.sent)
    <3>1. new.seq = card.next /\ new.dev = rec.dev
      BY <2>2
    <3>2. ~(new.seq <= ram.ack) /\ new.seq > rec.floor
      BY <2>2, <2>3, <3>1
    <3>. HIDE DEF new
    <3>. QED  BY <2>1, <2>2, <3>1, <3>2 DEF OwnReadings
  <2>5. \A r \in card'.recs : r.seq \in Nat
    BY <2>1, <2>3
  <2>6. OwnReadings(ram.ack)' /\ OwnReadings(nvs.ack)'
    BY <2>1, <2>2, <2>3, <2>4, <2>5 DEF OwnReadings
  <2>7. card'.next > rec.floor /\ card'.next > ram.ack
    BY <2>1, <2>2, <2>3
  <2>. HIDE DEF new
  <2>. QED  BY <2>1, <2>2, <2>6, <2>7 DEF ActiveInv, Clean
<1>15. CASE AppendReading /\ rec.kind # "active"
  BY <1>15 DEF AppendReading, OnlyCard, ActiveInv
<1>16. CASE Acknowledge /\ rec.kind = "active"
  <2>1. UNCHANGED <<rec, phase, pc, mount>> /\ phase = "up" /\ pc = "idle" /\ mount # NoDevice
    BY <1>16 DEF Acknowledge
  <2>2. /\ ram.dev = rec.dev /\ mount = rec.dev /\ card.target = rec.dev
        /\ OwnReadings(ram.ack) /\ card.next > rec.floor /\ Clean
    BY <1>0, <1>16, <2>1 DEF ActiveInv
  <2>3. /\ card'.next = card.next /\ UNCHANGED <<card.target, card.tmp, card.bak>>
        /\ nvs'.ack = ram'.ack /\ ram'.ack >= ram.ack /\ ram'.dev = ram.dev
        /\ \E r \in card.recs : ram'.ack = r.seq
        /\ \A q \in card'.recs : \E r \in card.recs :
             /\ q.seq = r.seq /\ q.dev = r.dev /\ (r.sent => q.sent)
             /\ (q.seq > ram.ack /\ q.seq <= ram'.ack => q.sent)
    BY <1>16, AcknowledgeEffect
  <2>4. /\ card.next \in Nat /\ ram.ack \in Nat /\ rec.floor \in Nat
        /\ \A r \in card.recs : r.seq \in Nat
    BY Fields
  <2>5. ram'.ack \in Nat /\ ram'.ack < card.next
    BY <1>0, <2>3, <2>4 DEF CardInv
  <2>6. ASSUME NEW q \in card'.recs
        PROVE  q.dev = rec.dev /\ q.seq > rec.floor /\ (q.seq <= ram'.ack => q.sent)
    <3>1. PICK r \in card.recs : /\ q.seq = r.seq /\ q.dev = r.dev /\ (r.sent => q.sent)
                                 /\ (q.seq > ram.ack /\ q.seq <= ram'.ack => q.sent)
      BY <2>3
    <3>2. r.dev = rec.dev /\ r.seq > rec.floor /\ (r.seq <= ram.ack => r.sent)
      BY <2>2 DEF OwnReadings
    <3>. QED  BY <2>4, <3>1, <3>2
  <2>7. OwnReadings(ram.ack)' /\ OwnReadings(nvs.ack)'
    BY <2>1, <2>3, <2>6 DEF OwnReadings
  <2>. QED  BY <2>1, <2>2, <2>3, <2>5, <2>7 DEF ActiveInv, Clean
<1>17. CASE Acknowledge /\ rec.kind # "active"
  BY <1>17 DEF Acknowledge, ActiveInv
<1>18. CASE ReplaceCard
  <2>1. /\ card'.target = NoDevice /\ card'.tmp = NoDevice /\ card'.bak = NoDevice
        /\ card'.recs = {} /\ phase' = "off" /\ pc' = "idle"
    BY <1>18 DEF ReplaceCard, BlankCard, PlaceInv
  <2>. QED  BY <2>1 DEF ActiveInv, Clean, Blank
<1>. QED
  BY <1>1, <1>2, <1>3, <1>4, <1>5, <1>6, <1>7, <1>8, <1>9, <1>10, <1>11, <1>12,
             <1>13, <1>14, <1>15, <1>16, <1>17, <1>18
          DEF Next, Boot, Activate, Claim, Reenroll

-----------------------------------------------------------------------------
(* Theorems                                                                *)

\* The inductive invariant.
EnrollmentInv == Typed /\ PlaceInv /\ TokenInv /\ HandoverInv

\* Whatever fails and however often power is lost, the boot, the activation,
\* the claim and the operator's requests keep the inductive invariant.
THEOREM InductiveInvariant == Spec => []EnrollmentInv
<1>1. Init => EnrollmentInv
  BY TypedInit, PlaceInit, TokenInit, HandoverInit DEF EnrollmentInv
<1>2. EnrollmentInv /\ [Next]_vars => EnrollmentInv'
  <2>. SUFFICES ASSUME EnrollmentInv, [Next]_vars PROVE EnrollmentInv'
    OBVIOUS
  <2>1. Typed' /\ PlaceInv' /\ TokenInv'
    BY TypedStep, PlaceStep, TokenStep DEF EnrollmentInv
  <2>2. CardInv' /\ ActiveInv' /\ ActivationInv'
    BY CardStep, ActiveStep, ActivationStep DEF EnrollmentInv, HandoverInv
  <2>. QED  BY <2>1, <2>2 DEF EnrollmentInv, HandoverInv
<1>. QED  BY <1>1, <1>2, PTL DEF Spec

\* HandoverIsWhole: a device that runs under active credentials runs on a
\* card bound to them, with no reading of an earlier identity, none at or
\* below the floor, and none the cursor passed unsent, whatever interrupted
\* the deletion, the rebinding, the cursors or the record of Application's
\* and ConfigService's activation.
THEOREM HandoverAlwaysWhole == Spec => []HandoverIsWhole
<1>1. EnrollmentInv => HandoverIsWhole
  BY DEF EnrollmentInv, HandoverInv, ActiveInv, OwnReadings, HandoverIsWhole,
     Settled
<1>. QED  BY <1>1, InductiveInvariant, PTL

\* TokenKept: a token the operator was told is accepted, or a later one, is
\* the one the running device claims, until the server has seen it or an older
\* claim's answer was staged over it, however setEnrollmentToken,
\* beginReenrollment and the boot's repetition of it are cut short.
THEOREM AcceptedTokenKept == Spec => []TokenKept
<1>1. EnrollmentInv => TokenKept
  BY DEF EnrollmentInv, TokenInv, Owed, TokenKept, Settled
<1>. QED  BY <1>1, InductiveInvariant, PTL

=============================================================================
