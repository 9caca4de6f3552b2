-------------------------- MODULE FileSourceProofs --------------------------
(***************************************************************************)
(* Proofs about module FileSource, for any number of consumers and of      *)
(* writes to the policy file: what holds of the broadcast code holds here, *)
(* no consumer goes back to an older version, and snapshot and broadcast   *)
(* agree between reloads.                                                  *)
(***************************************************************************)
EXTENDS FileSource, BroadcastProofs

\* Nothing is served, and nobody has subscribed, before the first load.
LoadInv ==
  /\ fpc \in {"load", "failed", "started", "wait", "reload"}
  /\ fpc \in {"load", "failed"} => cur = 0 /\ \A c \in Consumers : cpc[c] = "new"
  /\ fpc # "wait" => bpc[Watch] = "idle"

\* What a consumer works with is not newer than what waits in its channel, that
\* not newer than the snapshot, and that not newer than the file.
VersionInv ==
  /\ file = [ver |-> file.ver, mtime |-> file.mtime, ok |-> file.ok]
  /\ file.ver \in Values
  /\ cur <= file.ver
  /\ bpc[Watch] # "idle" => val[Watch] = cur
  /\ \A c \in Consumers :
       /\ eng[c] <= cur
       /\ slot[c] # Empty => eng[c] <= slot[c] /\ slot[c] <= cur

FInv == BInv /\ LoadInv /\ VersionInv /\ SnapshotIsLastSent

-----------------------------------------------------------------------------
\* The invariant holds in the beginning.
LEMMA FInvInit == FInit => FInv
<1> SUFFICES ASSUME FInit PROVE FInv
  OBVIOUS
<1>1. BInv
  BY BInvInit DEF FInit
<1>2. LoadInv /\ VersionInv /\ SnapshotIsLastSent
  BY FileAssumption DEF FInit, BInit, LoadInv, VersionInv, SnapshotIsLastSent
<1> QED
  BY <1>1, <1>2 DEF FInv

\* The owner's writes touch nothing but the file, whose version grows.
LEMMA OwnerStep ==
  ASSUME FInv,
         (\E t \in clock..(clock + 1), ok \in BOOLEAN : Write(t, ok)) \/ RemoveFile
  PROVE  FInv'
<1>0. BInv /\ LoadInv /\ VersionInv /\ SnapshotIsLastSent /\ BTypeOK
  BY DEF FInv, BInv
<1>1. UNCHANGED <<bvars, fpc, last>>
  BY DEF Write, RemoveFile
<1>2. BInv'
  BY <1>0, <1>1, BInvNext
<1>3. LoadInv' /\ SnapshotIsLastSent'
  BY <1>0, <1>1 DEF bvars, LoadInv, SnapshotIsLastSent
<1>4. /\ file' = [ver |-> file'.ver, mtime |-> file'.mtime, ok |-> file'.ok]
      /\ file'.ver \in Values /\ file.ver <= file'.ver
  <2>1. CASE RemoveFile
    <3>1. PICK v, m, ok : file = [ver |-> v, mtime |-> m, ok |-> ok] /\ file.ver \in Values
      BY <1>0 DEF VersionInv
    <3>2. file' = [ver |-> v, mtime |-> 0, ok |-> FALSE] /\ file.ver = v
      BY <2>1, <3>1 DEF RemoveFile
    <3> QED
      BY <3>1, <3>2, FileAssumption
  <2>2. CASE \E t \in clock..(clock + 1), ok \in BOOLEAN : Write(t, ok)
    BY <1>0, <2>2, FileAssumption DEF Write, VersionInv
  <2> QED
    BY <2>1, <2>2
<1>5. cur \in 0..MaxWrites
  BY <1>0, FileAssumption DEF BTypeOK
<1>6. VersionInv'
  BY <1>0, <1>1, <1>4, <1>5, FileAssumption DEF bvars, VersionInv
<1> QED
  BY <1>2, <1>3, <1>6 DEF FInv

\* NewFileSource serves what it finds; nobody has seen anything before.
LEMMA FirstLoadStep == ASSUME FInv, FirstLoad PROVE FInv'
<1>0. BInv /\ LoadInv /\ VersionInv /\ SnapshotIsLastSent /\ BTypeOK
  BY DEF FInv, BInv
<1>1. told = {} /\ cur = 0
  BY <1>0 DEF FirstLoad, LoadInv, BInv, BTypeOK, ChannelInv
<1>2. cur' \in Values /\ cur' <= file.ver /\ cur <= cur'
  BY <1>0, <1>1, FileAssumption DEF FirstLoad, VersionInv, BTypeOK
<1>3. BInv'
  BY <1>0, <1>2
     DEF FirstLoad, BInv, BTypeOK, HolderInv, ChannelInv, NeverDropped, SentInv, Box
<1>4. LoadInv'
  BY <1>0 DEF FirstLoad, LoadInv
<1>5. VersionInv'
  BY <1>0, <1>1, <1>2, FileAssumption DEF FirstLoad, VersionInv, LoadInv, BTypeOK
<1>6. SnapshotIsLastSent'
  BY <1>1 DEF FirstLoad, SnapshotIsLastSent
<1> QED
  BY <1>3, <1>4, <1>5, <1>6 DEF FInv

\* A look at the modification time changes no policy.
LEMMA StatStep == ASSUME FInv, FirstStat \/ TickStat PROVE FInv'
<1>0. BInv /\ LoadInv /\ VersionInv /\ SnapshotIsLastSent
  BY DEF FInv
<1>1. UNCHANGED <<bvars, file>>
  BY DEF FirstStat, TickStat
<1>2. BInv'
  BY <1>0, <1>1, BInvNext
<1>3. LoadInv'
  BY <1>0, <1>1 DEF FirstStat, TickStat, bvars, LoadInv
<1>4. VersionInv' /\ SnapshotIsLastSent'
  BY <1>0, <1>1 DEF bvars, VersionInv, SnapshotIsLastSent
<1> QED
  BY <1>2, <1>3, <1>4 DEF FInv

\* A reload serves the file's version, which is none older than the last.
LEMMA ReloadStep == ASSUME FInv, Reload PROVE FInv'
<1>0. BInv /\ LoadInv /\ VersionInv /\ SnapshotIsLastSent /\ BTypeOK
  BY DEF FInv, BInv
<1>1. CASE file.ok
  <2>1. SetCur(Watch, file.ver) /\ UNCHANGED file /\ fpc' = "wait" /\ fpc = "reload"
    BY <1>1 DEF Reload
  <2>2. BInv'
    BY <1>0, <2>1, SetCurStep, FileAssumption DEF VersionInv
  <2>3. LoadInv'
    BY <2>1 DEF LoadInv
  <2>4. cur \in 0..MaxWrites /\ file.ver \in 0..MaxWrites /\ cur' = file.ver
        /\ \A c \in Consumers : /\ eng[c] \in 0..MaxWrites
                                /\ slot[c] # Empty => slot[c] \in 0..MaxWrites
    BY <1>0, <2>1, FileAssumption DEF BTypeOK, VersionInv, SetCur
  <2>5. VersionInv'
    BY <1>0, <2>1, <2>4, FileAssumption DEF SetCur, VersionInv, BTypeOK
  <2>6. SnapshotIsLastSent'
    BY <1>0, <2>1, FileAssumption DEF SetCur, SnapshotIsLastSent, BTypeOK
  <2> QED
    BY <2>2, <2>3, <2>5, <2>6 DEF FInv
<1>2. CASE ~file.ok
  <2>1. UNCHANGED <<bvars, file>> /\ fpc' = "wait"
    BY <1>2 DEF Reload
  <2>2. BInv'
    BY <1>0, <2>1, BInvNext
  <2>3. LoadInv' /\ VersionInv' /\ SnapshotIsLastSent'
    BY <1>0, <2>1 DEF bvars, LoadInv, VersionInv, SnapshotIsLastSent
  <2> QED
    BY <2>2, <2>3 DEF FInv
<1> QED
  BY <1>1, <1>2

\* A broadcast passes on the policy that was stored.
LEMMA PublishStep == ASSUME FInv, Publish PROVE FInv'
<1>0. BInv /\ LoadInv /\ VersionInv /\ SnapshotIsLastSent /\ BTypeOK
  BY DEF FInv, BInv
<1>1. BroadcastStep(Watch) /\ UNCHANGED fvars
  BY DEF Publish
<1>2. BInv'
  BY <1>0, <1>1, BInvNext, FileAssumption DEF BNext
<1>3. UNCHANGED <<cur, cpc, eng, file, fpc>>
  BY <1>1 DEF fvars, BroadcastStep, Lock, Send, Drain, Resend, Unlock
<1>4. bpc[Watch] # "idle" /\ fpc = "wait" /\ val[Watch] = cur
  BY <1>0, <1>1
     DEF BroadcastStep, Lock, Send, Drain, Resend, Unlock, LoadInv, VersionInv
<1>5. LoadInv'
  BY <1>3, <1>4, <1>0 DEF LoadInv
<1>6. bpc'[Watch] # "idle" => val'[Watch] = cur'
  BY <1>0, <1>1, <1>4, FileAssumption
     DEF BroadcastStep, Lock, Send, Drain, Resend, Unlock, BTypeOK
<1>7. \A c \in Consumers : slot'[c] \in {slot[c], Empty, cur}
  BY <1>0, <1>1, <1>4, FileAssumption
     DEF BroadcastStep, Lock, Send, Drain, Resend, Unlock, BTypeOK
<1>8. VersionInv'
  <2>1. cur \in 0..MaxWrites
    BY <1>0, FileAssumption DEF BTypeOK
  <2> QED
    BY <1>0, <1>3, <1>6, <1>7, <2>1, FileAssumption DEF VersionInv
<1>9. SnapshotIsLastSent'
  <2>1. CASE Unlock(Watch)
    <3>1. subMu = Watch /\ Watch # Nobody
      BY <1>0, <2>1, FileAssumption, BroadcastAssumption DEF Unlock, BInv, HolderInv
    <3>2. sent = cur
      BY <1>0, <1>4, <3>1 DEF BInv, SentInv
    <3> QED
      BY <1>3, <2>1, <3>2 DEF Unlock, SnapshotIsLastSent
  <2>2. CASE ~Unlock(Watch)
    <3>1. bpc'[Watch] # "idle"
      BY <1>0, <1>1, <2>2, FileAssumption
         DEF BroadcastStep, Lock, Send, Drain, Resend, BTypeOK
    <3> QED
      BY <3>1 DEF SnapshotIsLastSent
  <2> QED
    BY <2>1, <2>2
<1> QED
  BY <1>2, <1>5, <1>8, <1>9 DEF FInv

\* A consumer starts from the snapshot and goes on with what it receives.
LEMMA ConsumeStep == ASSUME FInv, NEW c \in Consumers, Consume(c) PROVE FInv'
<1>0. BInv /\ LoadInv /\ VersionInv /\ SnapshotIsLastSent /\ BTypeOK
  BY DEF FInv, BInv
<1>1. BInv'
  BY <1>0, ConsumerStep DEF Consume
<1>2. UNCHANGED <<cur, bpc, val, sent, told, file, fpc>> /\ fpc \notin {"load", "failed"}
  BY DEF Consume, fvars, Snapshot, Subscribe, Receive, Quit
<1>3. LoadInv'
  BY <1>0, <1>2 DEF LoadInv
<1>4. VersionInv'
  <2>1. cur \in 0..MaxWrites
    BY <1>0, FileAssumption DEF BTypeOK
  <2>2. CASE Snapshot(c)
    <3>1. slot[c] = Empty
      BY <1>0, <2>2 DEF Snapshot, BInv, BTypeOK, ChannelInv
    <3> QED
      BY <1>0, <1>2, <2>1, <2>2, <3>1 DEF Snapshot, VersionInv, BTypeOK
  <2>3. CASE Receive(c)
    BY <1>0, <1>2, <2>1, <2>3 DEF Receive, VersionInv, BTypeOK
  <2>4. CASE Subscribe(c) \/ Quit(c)
    BY <1>0, <1>2, <2>4 DEF Subscribe, Quit, VersionInv
  <2> QED
    BY <2>2, <2>3, <2>4 DEF Consume
<1>5. SnapshotIsLastSent'
  BY <1>0, <1>2 DEF SnapshotIsLastSent
<1> QED
  BY <1>1, <1>3, <1>4, <1>5 DEF FInv

\* Every step preserves the invariant.
LEMMA FInvNext == FInv /\ [FNext]_vars => FInv'
<1> SUFFICES ASSUME FInv, [FNext]_vars PROVE FInv'
  OBVIOUS
<1>1. CASE UNCHANGED vars
  <2>1. BInv'
    BY <1>1, BInvNext DEF FInv, vars
  <2>2. LoadInv' /\ VersionInv' /\ SnapshotIsLastSent'
    BY <1>1 DEF FInv, vars, bvars, fvars, LoadInv, VersionInv, SnapshotIsLastSent
  <2> QED
    BY <2>1, <2>2 DEF FInv
<1>2. CASE FNext
  BY <1>2, OwnerStep, FirstLoadStep, StatStep, ReloadStep, PublishStep, ConsumeStep
     DEF FNext, WatchStep
<1> QED
  BY <1>1, <1>2

\* The inductive invariant of the file source holds always.
THEOREM FInvAlways == FSpec => []FInv
BY FInvInit, FInvNext, PTL DEF FSpec

\* Between reloads the snapshot is the policy last broadcast.
THEOREM SnapshotAgrees == FSpec => []SnapshotIsLastSent
<1>1. FInv => SnapshotIsLastSent
  BY DEF FInv
<1> QED
  BY <1>1, FInvAlways, PTL

\* No consumer goes back to an older version of the file.
THEOREM GoesForward == FSpec => NeverBackwards
<1> DEFINE Forward == /\ cur' >= cur
                      /\ \A c \in Consumers : cpc[c] # "new" => eng'[c] >= eng[c]
<1>1. FInv /\ [FNext]_vars => [Forward]_vars
  <2> SUFFICES ASSUME FInv, FNext PROVE Forward
    OBVIOUS
  <2>0. LoadInv /\ VersionInv /\ BTypeOK
    BY DEF FInv, BInv
  <2>1. /\ cur \in 0..MaxWrites /\ file.ver \in 0..MaxWrites
        /\ \A c \in Consumers : eng[c] \in 0..MaxWrites
    BY <2>0, FileAssumption DEF BTypeOK, VersionInv
  <2>2. CASE FirstLoad \/ Reload
    <3>1. UNCHANGED eng /\ cur' \in {cur, file.ver}
      BY <2>2 DEF FirstLoad, Reload, SetCur, bvars
    <3> QED
      BY <2>0, <2>1, <3>1 DEF VersionInv
  <2>3. ASSUME NEW c \in Consumers, Consume(c) PROVE Forward
    <3>1. UNCHANGED cur
      BY <2>3 DEF Consume, Snapshot, Subscribe, Receive, Quit
    <3>2. CASE Receive(c)
      BY <2>0, <2>1, <3>1, <3>2 DEF Receive, VersionInv, BTypeOK
    <3>3. CASE Snapshot(c)
      BY <2>0, <2>1, <3>1, <3>3 DEF Snapshot, BTypeOK
    <3>4. CASE Subscribe(c) \/ Quit(c)
      BY <2>1, <3>1, <3>4 DEF Subscribe, Quit
    <3> QED
      BY <2>3, <3>2, <3>3, <3>4 DEF Consume
  <2>4. ASSUME UNCHANGED <<cur, eng>> PROVE Forward
    BY <2>1, <2>4
  <2> QED
    BY <2>2, <2>3, <2>4 DEF FNext, WatchStep, Write, RemoveFile, FirstStat, TickStat,
       Publish, BroadcastStep, Lock, Send, Drain, Resend, Unlock, bvars
<1> QED
  BY <1>1, FInvAlways, PTL DEF FSpec, NeverBackwards

\* The file source implements the contract of a policy source.
THEOREM FileSourceKeepsContract == FSpec => KeepsContract
<1>1. FInit => Contract!Init
  BY ContractInit DEF FInit
<1>2. FInv /\ FInv' /\ [FNext]_vars => [Contract!Next]_(Contract!vars)
  <2> SUFFICES ASSUME FInv, FInv', [FNext]_vars PROVE [Contract!Next]_(Contract!vars)
    OBVIOUS
  <2>1. [BNext]_bvars \/ FirstLoad
    BY FileAssumption
       DEF FInv, VersionInv, FNext, WatchStep, Write, RemoveFile, FirstStat, TickStat,
           Reload, Publish, Consume, BNext, vars
  <2>2. CASE [BNext]_bvars
    BY <2>2, ContractNext DEF FInv
  <2>3. CASE FirstLoad
    BY <2>3 DEF FirstLoad, Resending, Box, Contract!vars
  <2> QED
    BY <2>1, <2>2, <2>3
<1> QED
  BY <1>1, <1>2, FInvAlways, PTL DEF FSpec, KeepsContract, Contract!Spec
=============================================================================
