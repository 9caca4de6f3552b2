----------------------------- MODULE FileSource -----------------------------
(***************************************************************************)
(* The policy file source (internal/policy/filesource.go): load once, then *)
(* poll the file's modification time and reload.  The file is replaced,    *)
(* broken or removed by its owner at any time.  Policies are the versions  *)
(* of the file; time is that of the file system's clock.                   *)
(***************************************************************************)
EXTENDS Naturals, Broadcast

CONSTANTS
  Watch,      \* the goroutine of watch(), the only publisher
  MaxWrites   \* how often the file is written (bound)

ASSUME FileAssumption ==
  MaxWrites \in Nat /\ Publishers = {Watch} /\ Values = 0..MaxWrites /\ First = 0

VARIABLES
  file,    \* [ver, mtime, ok]: its version, modification time, does it load
  clock,   \* the time the next write is stamped with, at least
  fpc,     \* where NewFileSource and watch() are
  last     \* last, the modification time acted upon

fvars == <<file, clock, fpc, last>>
vars == <<bvars, fvars>>

FInit ==
  /\ BInit
  /\ file = [ver |-> 0, mtime |-> 1, ok |-> TRUE]
  /\ clock = 1
  /\ fpc = "load"
  /\ last = 0

-----------------------------------------------------------------------------
\* The owner writes a new version.  Two writes may get the same time stamp.
Write(t, ok) ==
  /\ file.ver < MaxWrites
  /\ clock' = t
  /\ file' = [ver |-> file.ver + 1, mtime |-> t, ok |-> ok]
  /\ UNCHANGED <<bvars, fpc, last>>

\* os.Stat of a file that is not there gives the zero time.
RemoveFile ==
  /\ file' = [file EXCEPT !.mtime = 0, !.ok = FALSE]
  /\ UNCHANGED <<bvars, clock, fpc, last>>

\* NewFileSource loads the file; without a valid policy there is no source.
FirstLoad ==
  /\ fpc = "load"
  /\ IF file.ok
     THEN fpc' = "started" /\ cur' = file.ver
     ELSE fpc' = "failed" /\ UNCHANGED cur
  /\ UNCHANGED <<subMu, subs, slot, bpc, val, left, at, cpc, eng, sent, told>>
  /\ UNCHANGED <<file, clock, last>>

\* watch() begins with the modification time it finds.
FirstStat ==
  /\ fpc = "started"
  /\ fpc' = "wait"
  /\ last' = file.mtime
  /\ UNCHANGED <<bvars, file, clock>>

\* Fault: times are compared with too coarse a grain.
TickStatCoarse ==
  /\ fpc = "wait"
  /\ bpc[Watch] = "idle"
  /\ file.mtime > last + 1
  /\ last' = file.mtime
  /\ fpc' = "reload"
  /\ UNCHANGED <<bvars, file, clock>>

\* A tick: nothing to do unless the file's time has advanced.
TickStat ==
  /\ fpc = "wait"
  /\ bpc[Watch] = "idle"
  /\ file.mtime > last
  /\ last' = file.mtime
  /\ fpc' = "reload"
  /\ UNCHANGED <<bvars, file, clock>>

\* Fault: the new policy is broadcast and not stored.
ReloadUnstored ==
  /\ fpc = "reload"
  /\ fpc' = "wait"
  /\ IF file.ok
     THEN /\ val' = [val EXCEPT ![Watch] = file.ver]
          /\ bpc' = [bpc EXCEPT ![Watch] = "lock"]
          /\ UNCHANGED <<cur, subMu, subs, slot, left, at, cpc, eng, sent, told>>
     ELSE UNCHANGED bvars
  /\ UNCHANGED <<file, clock, last>>

\* Fault: a file that does not load resets the policy.
ReloadResets ==
  /\ fpc = "reload"
  /\ fpc' = "wait"
  /\ SetCur(Watch, IF file.ok THEN file.ver ELSE First)
  /\ UNCHANGED <<file, clock, last>>

\* The reload that follows: a file that does not load changes nothing.
Reload ==
  /\ fpc = "reload"
  /\ fpc' = "wait"
  /\ IF file.ok THEN SetCur(Watch, file.ver) ELSE UNCHANGED bvars
  /\ UNCHANGED <<file, clock, last>>

\* Consumers are created after NewFileSource has returned.
Consume(c) ==
  /\ fpc \notin {"load", "failed"}
  /\ Snapshot(c) \/ Subscribe(c) \/ Receive(c) \/ Quit(c)
  /\ UNCHANGED fvars

Publish == BroadcastStep(Watch) /\ UNCHANGED fvars

WatchStep == FirstLoad \/ FirstStat \/ TickStat \/ Reload

FNext ==
  \/ \E t \in clock..(clock + 1), ok \in BOOLEAN : Write(t, ok)
  \/ RemoveFile
  \/ WatchStep
  \/ Publish
  \/ \E c \in Consumers : Consume(c)

FSpec == FInit /\ [][FNext]_vars

\* The watching goroutine runs and its ticker fires; consumers that have not
\* quit receive.  Whether the file is ever written again is open.
FFairness ==
  /\ WF_vars(WatchStep)
  /\ WF_vars(Publish)
  /\ \A c \in Consumers : WF_vars(Consume(c) /\ (Subscribe(c) \/ Receive(c)))

FFairSpec == FSpec /\ FFairness

-----------------------------------------------------------------------------
\* With the one publisher there is, the policy a snapshot returns and the
\* policy last broadcast are the same whenever watch() is between reloads, so
\* two consumers never settle on different policies for that reason.
SnapshotIsLastSent == bpc[Watch] = "idle" /\ told # {} => cur = sent

\* No consumer ever goes back to an older version of the file.
NeverBackwards ==
  [][cur' >= cur /\ \A c \in Consumers : cpc[c] # "new" => eng'[c] >= eng[c]]_vars

\* Hot reload works end to end once watch() has its starting point: a valid
\* version with a newer modification time than the last one acted upon reaches
\* the engine of every consumer that is subscribed by then, unless the consumer
\* quits or the file changes again, whatever broken versions came before
\* (filesource.go:17-21).
HotReload ==
  \A c \in Consumers : \A v \in Values :
    (/\ fpc \in {"wait", "reload"}
     /\ cpc[c] = "ready"
     /\ file.ver = v /\ file.ok /\ file.mtime > last)
      ~> (eng[c] = v \/ cpc[c] = "gone" \/ file.ver # v \/ ~file.ok)
=============================================================================
