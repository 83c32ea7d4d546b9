--------------------------- MODULE PicoDemoProofs ---------------------------
(***************************************************************************)
(* Proofs about module PicoDemo, for any number of listeners, any sizes of *)
(* the pipe's buffers and any number of sessions, changes, faults and      *)
(* takes.                                                                  *)
(***************************************************************************)
EXTENDS PicoDemo, TLAPS

\* t has a change to save, or is saving
Pending(t) == task[t].need_save \/ task[t].pc \in {"Lock", "Erase", "Write"}

\* Nothing runs before the configuration is loaded.  Only saving holds the
\* mutex of the configuration.  A key is asked for or a change is unsaved only
\* until progress() is called.
TaskInv ==
  /\ ~ Running => \A t \in Tasks : task[t].pc = "Idle"
  /\ \A t \in Tasks : task[t].pc \in {"Erase", "Write"} <=> lock = t
  /\ \A t \in Tasks :
       task[t].need_save => task[t].pc = "Flush" /\ task[t].flag = "none"
  /\ \A t \in Tasks : task[t].flag # "none" => task[t].pc = "Flush"

\* The sector holds what was saved last, until it is erased; from then on,
\* until it is written to its end, it holds nothing that loads.
FlashInv ==
  /\ hist.saved.hostkey > 0
  /\ boot # "Load" => ram.hostkey > 0
  /\ ~ hist.torn => flash = Image(hist.saved)
  /\ hist.torn => ~ Loadable(flash)
  /\ boot = "Save" => hist.torn
  /\ \A t \in Tasks : task[t].pc = "Write" => hist.torn

\* What FlashCurrent says besides types
CurrentInv ==
  Running /\ ~ hist.lost => flash = Image(ram) \/ \E t \in Tasks : Pending(t)

\* The counters of the pipe agree, and a session in serial() whose counter is
\* theirs is the one that took the pipe last.
PipeInv ==
  /\ pipe.cr = pipe.cw
  /\ \A t \in Tasks : task[t].pc = "Serial" =>
       /\ task[t].counter <= pipe.cr
       /\ task[t].counter = pipe.cr => hist.holder = t

Inv == TypeOK /\ TaskInv /\ FlashInv /\ CurrentInv /\ PipeInv

-----------------------------------------------------------------------------
(* Types.                                                                  *)

LEMMA FieldTypes ==
  ASSUME TypeOK, NEW t \in Tasks
  PROVE  /\ task[t] \in Task
         /\ task[t].pc \in PCs /\ task[t].conf \in SSHConfig
         /\ task[t].need_save \in BOOLEAN /\ task[t].counter \in Nat
         /\ task[t].flag \in {"none", "logout", "reset", "serial"}
         /\ task[t].left \in 0 .. LineLen /\ task[t].got \in Nat
  BY DEF TypeOK, Task

LEMMA PipeTypes ==
  ASSUME TypeOK
  PROVE  /\ pipe.rlock \in Tasks \cup {Free}
         /\ pipe.wlock \in Tasks \cup {Free}
         /\ pipe.cr \in Nat /\ pipe.cw \in Nat /\ pipe.wake \in BOOLEAN
         /\ pipe.fanout \in 0 .. FanoutSize
         /\ pipe.fanin \in Fanin
  BY DEF TypeOK, TakePipe

LEMMA HistTypes ==
  ASSUME TypeOK
  PROVE  /\ hist.saved \in SSHConfig /\ hist.torn \in BOOLEAN
         /\ hist.lost \in BOOLEAN /\ hist.holder \in Tasks \cup {Free}
         /\ hist.crowded \in BOOLEAN /\ hist.fresh \in Nat
  BY DEF TypeOK, Hist

LEMMA NewTaskTyped == NewTask \in Task
  BY PicoDemoAssumption
  DEF NewTask, Task, PCs, NoConfig, NewConfig, SSHConfig

LEMMA NewConfigTyped ==
  ASSUME NEW n \in Nat
  PROVE  NewConfig(n) \in SSHConfig /\ NewConfig(n).hostkey = n
  BY DEF NewConfig, SSHConfig

LEMMA SpendTyped ==
  ASSUME budget \in Budget,
         NEW what \in {"conns", "changes", "faults", "takes", "ins", "outs"},
         Spend(what)
  PROVE  budget' \in Budget
<1>1. budget[what] \in Nat /\ budget[what] > 0
  BY DEF Spend, Budget
<1>2. budget[what] - 1 \in Nat
  BY <1>1
<1> DEFINE n == budget[what] - 1
<1>3. n \in Nat /\ budget' = [budget EXCEPT ![what] = n]
  BY <1>2 DEF Spend
<1> HIDE DEF n
<1> QED
  BY <1>3 DEF Budget

-----------------------------------------------------------------------------
(* Steps of a session.                                                     *)

\* A step of t that neither begins nor ends a save, and touches neither the
\* configuration nor the flash, keeps everything but what it does to the pipe.
LEMMA SessionInv ==
  ASSUME Inv, NEW t \in Tasks, NEW s \in Task, Become(t, s),
         UNCHANGED store, Running \/ task[t].pc # "Idle",
         pipe' \in TakePipe, hist' \in Hist, budget' \in Budget,
         hist'.saved = hist.saved, hist'.torn = hist.torn,
         hist'.lost = hist.lost,
         task[t].pc \notin {"Erase", "Write"}, s.pc \notin {"Erase", "Write"},
         s.need_save => s.pc = "Flush" /\ s.flag = "none",
         s.flag # "none" => s.pc = "Flush",
         Pending(t) => s.need_save \/ s.pc = "Lock"
  PROVE  TypeOK' /\ TaskInv' /\ FlashInv' /\ CurrentInv'
<1> USE DEF Become, store
<1>1. /\ TypeOK /\ TaskInv /\ FlashInv /\ CurrentInv
      /\ task \in [Tasks -> Task] /\ task' = [task EXCEPT ![t] = s]
      /\ flash' = flash /\ ram' = ram /\ lock' = lock /\ boot' = boot
  BY DEF Inv, TypeOK
<1>2. Running /\ Running'
  BY <1>1 DEF TaskInv, Running
<1>3. \A u \in Tasks : task'[u] = IF u = t THEN s ELSE task[u]
  BY <1>1
<1>4. TypeOK'
  BY <1>1 DEF TypeOK
<1>5. TaskInv'
  BY <1>1, <1>2, <1>3 DEF TaskInv
<1>6. FlashInv'
  BY <1>1, <1>3 DEF FlashInv
<1>7. CurrentInv'
  <2>1. \A u \in Tasks : Pending(u) => Pending(u)'
    BY <1>3 DEF Pending
  <2> QED
    BY <1>1, <1>2, <2>1 DEF CurrentInv
<1> QED
  BY <1>4, <1>5, <1>6, <1>7

\* A step of t that leaves the pipe's counters and its taker alone, t not
\* entering serial().
LEMMA PipeKept ==
  ASSUME Inv, NEW t \in Tasks, NEW s \in Task, Become(t, s),
         pipe'.cr = pipe.cr, pipe'.cw = pipe.cw, hist'.holder = hist.holder,
         s.pc = "Serial" =>
           task[t].pc = "Serial" /\ s.counter = task[t].counter
  PROVE  PipeInv'
<1>1. PipeInv /\ \A u \in Tasks : task'[u] = IF u = t THEN s ELSE task[u]
  BY DEF Inv, TypeOK, Become
<1> QED
  BY <1>1 DEF PipeInv

\* The same of a step on the way to the menu.
LEMMA MoveInv ==
  ASSUME Inv, NEW t \in Tasks, NEW s \in Task, Become(t, s),
         UNCHANGED <<store, pipe, hist>>, budget' \in Budget,
         Running \/ task[t].pc # "Idle",
         task[t].pc \in {"Idle", "Clone", "Auth"},
         s.pc \in {"Clone", "Auth", "Menu"},
         s.need_save = task[t].need_save, s.flag = task[t].flag
  PROVE  Inv'
<1>1. TypeOK /\ TaskInv /\ pipe \in TakePipe /\ hist \in Hist
  BY DEF Inv, TypeOK
<1>2. ~ task[t].need_save /\ task[t].flag = "none"
  BY <1>1, FieldTypes DEF TaskInv
<1>3. pipe' = pipe /\ hist' = hist /\ UNCHANGED store
  OBVIOUS
<1>4. TypeOK' /\ TaskInv' /\ FlashInv' /\ CurrentInv'
  BY <1>1, <1>2, <1>3, SessionInv DEF Pending
<1>5. PipeInv'
  BY <1>3, PipeKept
<1> QED
  BY <1>4, <1>5 DEF Inv

LEMMA AcceptInv ==
  ASSUME Inv, NEW t \in Tasks, Accept(t)
  PROVE  Inv'
<1> DEFINE s == [task[t] EXCEPT !.pc = "Clone"]
<1>1. s \in Task /\ s.pc = "Clone"
      /\ s.need_save = task[t].need_save /\ s.flag = task[t].flag
  BY FieldTypes DEF Inv, Task, PCs
<1>2. budget' \in Budget
  BY SpendTyped DEF Inv, TypeOK, Accept
<1> QED
  BY ZenonT(60), <1>1, <1>2, MoveInv DEF Accept, Goto

LEMMA CloneInv ==
  ASSUME Inv, NEW t \in Tasks, Clone(t)
  PROVE  Inv'
<1> DEFINE s == [task[t] EXCEPT !.pc = "Auth", !.conf = ram]
<1>1. ram \in SSHConfig /\ budget' \in Budget
  BY DEF Inv, TypeOK, Clone
<1>2. s \in Task /\ s.pc = "Auth"
      /\ s.need_save = task[t].need_save /\ s.flag = task[t].flag
  BY ZenonT(60), <1>1, FieldTypes DEF Inv, Task, PCs
<1> QED
  BY ZenonT(60), <1>1, <1>2, MoveInv DEF Clone

LEMMA LoginAdminInv ==
  ASSUME Inv, NEW t \in Tasks, LoginAdmin(t)
  PROVE  Inv'
<1> DEFINE s == [task[t] EXCEPT !.pc = "Menu"]
<1>1. s \in Task /\ s.pc = "Menu"
      /\ s.need_save = task[t].need_save /\ s.flag = task[t].flag
  BY FieldTypes DEF Inv, Task, PCs
<1>2. budget' \in Budget
  BY DEF Inv, TypeOK, LoginAdmin
<1> QED
  BY ZenonT(60), <1>1, <1>2, MoveInv DEF LoginAdmin, Goto

LEMMA AskInv ==
  ASSUME Inv, NEW t \in Tasks, NEW flag \in {"logout", "reset", "serial"},
         Ask(t, flag)
  PROVE  Inv'
<1> DEFINE s == [task[t] EXCEPT !.pc = "Flush", !.flag = flag]
<1>1. TypeOK /\ TaskInv /\ pipe \in TakePipe /\ hist \in Hist
  BY DEF Inv, TypeOK
<1>2. s \in Task /\ s.pc = "Flush" /\ s.need_save = task[t].need_save
  BY ZenonT(60), <1>1, FieldTypes DEF Task, PCs
<1>3. budget' \in Budget
  BY <1>1, SpendTyped DEF TypeOK, Ask
<1>4. /\ task[t].pc = "Menu" /\ Become(t, s)
      /\ UNCHANGED store /\ pipe' = pipe /\ hist' = hist
  BY DEF Ask
<1>5. ~ task[t].need_save
  BY <1>1, <1>4, FieldTypes DEF TaskInv
<1> HIDE DEF s
<1>6. TypeOK' /\ TaskInv' /\ FlashInv' /\ CurrentInv'
  BY <1>1, <1>2, <1>3, <1>4, <1>5, SessionInv DEF Pending
<1>7. PipeInv'
  BY <1>2, <1>4, PipeKept
<1> QED
  BY <1>6, <1>7 DEF Inv

LEMMA ProgressInv ==
  ASSUME Inv, NEW t \in Tasks, Progress(t)
  PROVE  Inv'
<1> DEFINE old == task[t]
           pc == CASE old.need_save -> "Lock"
                   [] old.flag = "logout" -> "Idle"
                   [] old.flag = "reset" -> "Reset"
                   [] OTHER -> "Menu"
           s == IF pc = "Idle" THEN NewTask
                ELSE [old EXCEPT !.pc = pc, !.need_save = FALSE,
                                 !.flag = "none"]
<1>1. TypeOK /\ TaskInv /\ pipe \in TakePipe /\ hist \in Hist
  BY DEF Inv, TypeOK
<1>2. /\ old.pc = "Flush" /\ Become(t, s) /\ UNCHANGED store
      /\ pipe' = pipe /\ hist' = hist /\ budget' \in Budget
  BY <1>1 DEF Progress, TypeOK
<1>3. old.need_save => pc = "Lock"
  BY <1>1, FieldTypes DEF TaskInv
<1>4. pc \in {"Lock", "Idle", "Reset", "Menu"}
  OBVIOUS
<1> HIDE DEF pc
<1>5. s \in Task /\ s.pc = pc /\ ~ s.need_save /\ s.flag = "none"
  BY ZenonT(60), <1>1, <1>4, FieldTypes, NewTaskTyped DEF Task, PCs, NewTask
<1> HIDE DEF s
<1>6. TypeOK' /\ TaskInv' /\ FlashInv' /\ CurrentInv'
  BY <1>1, <1>2, <1>3, <1>4, <1>5, SessionInv DEF Pending
<1>7. PipeInv'
  BY <1>2, <1>4, <1>5, PipeKept
<1> QED
  BY <1>6, <1>7 DEF Inv

-----------------------------------------------------------------------------
(* Changing the configuration, and saving it.                              *)

LEMMA ChangeTyped ==
  ASSUME NEW c \in SSHConfig, NEW cmd \in Commands, NEW n \in Nat, n > 0
  PROVE  /\ Change(c, cmd, n) \in SSHConfig
         /\ c.hostkey > 0 => Change(c, cmd, n).hostkey > 0
<1>1. cmd \in Changes
  BY PicoDemoAssumption
<1>2. CASE cmd = "erase_config"
  BY <1>2, NewConfigTyped DEF Change, NetChanges
<1>3. CASE cmd \in NetChanges
  BY <1>3 DEF Change, NetChange, NetChanges, SSHConfig
<1>4. CASE cmd \in AuthChanges
  BY ZenonT(60), <1>4 DEF Change, AuthChanges, NetChanges, SSHConfig
<1> QED
  BY <1>1, <1>2, <1>3, <1>4 DEF Changes

LEMMA CommandInv ==
  ASSUME Inv, NEW t \in Tasks, NEW cmd \in Commands, Command(t, cmd)
  PROVE  Inv'
<1>1. /\ TypeOK /\ TaskInv /\ FlashInv /\ CurrentInv /\ pipe \in TakePipe
      /\ hist \in Hist /\ hist.fresh \in Nat /\ ram \in SSHConfig
  BY HistTypes DEF Inv, TypeOK
<1>2. budget' \in Budget
  BY <1>1, SpendTyped DEF TypeOK, Command
<1>3. /\ task[t].pc = "Menu" /\ flash' = flash /\ lock' = lock
      /\ boot' = boot /\ pipe' = pipe
  BY DEF Command
<1>4. Running /\ task[t].flag = "none" /\ ~ task[t].need_save
  BY <1>1, <1>3, FieldTypes DEF TaskInv
<1>5. CASE lock = Free
  <2> DEFINE c == Change(ram, cmd, hist.fresh + 1)
             s == [task[t] EXCEPT !.pc = "Flush", !.need_save = @ \/ c # ram]
             b == task[t].need_save \/ c # ram
  <2>1. c \in SSHConfig /\ c.hostkey > 0
    BY <1>1, <1>4, ChangeTyped DEF FlashInv, Running
  <2>2. /\ ram' = c /\ Become(t, s)
        /\ hist' = [hist EXCEPT !.fresh = @ + 1]
    BY <1>5 DEF Command, WithConfig
  <2> HIDE DEF c
  <2>3. /\ b \in BOOLEAN /\ (b <=> c # ram)
        /\ s = [task[t] EXCEPT !.pc = "Flush", !.need_save = b]
    BY <1>4
  <2> HIDE DEF b
  <2>4. /\ s \in Task /\ s.pc = "Flush" /\ (s.need_save <=> c # ram)
        /\ s.flag = "none" /\ s.counter = task[t].counter
    BY ZenonT(60), <1>1, <1>4, <2>3, FieldTypes DEF Task, PCs
  <2> HIDE DEF s
  <2>5. hist.fresh + 1 \in Nat
    BY <1>1
  <2>6. /\ hist' \in Hist /\ hist'.saved = hist.saved
        /\ hist'.torn = hist.torn /\ hist'.lost = hist.lost
        /\ hist'.holder = hist.holder
    BY <1>1, <2>2, <2>5 DEF Hist
  <2>7. \A u \in Tasks : task'[u] = IF u = t THEN s ELSE task[u]
    BY <1>1, <2>2 DEF TypeOK, Become
  <2>8. TypeOK'
    BY <1>1, <1>2, <1>3, <2>1, <2>2, <2>4, <2>6 DEF TypeOK, Become
  <2>9. TaskInv'
    BY <1>1, <1>3, <1>4, <2>4, <2>7 DEF TaskInv, Running
  <2>10. FlashInv'
    BY <1>1, <1>3, <2>1, <2>2, <2>4, <2>6, <2>7 DEF FlashInv
  <2>11. CurrentInv'
    <3>1. CASE c = ram
      <4>1. \A u \in Tasks : Pending(u) => Pending(u)'
        BY <1>3, <1>4, <2>7 DEF Pending
      <4> QED
        BY <1>1, <1>3, <2>2, <2>6, <3>1, <4>1 DEF CurrentInv, Running
    <3>2. CASE c # ram
      <4>1. Pending(t)'
        BY <2>4, <2>7, <3>2 DEF Pending
      <4> QED
        BY <4>1 DEF CurrentInv
    <3> QED
      BY <3>1, <3>2
  <2>12. PipeInv'
    BY <1>3, <2>2, <2>4, <2>6, PipeKept
  <2> QED
    BY <2>8, <2>9, <2>10, <2>11, <2>12 DEF Inv
<1>6. CASE lock # Free
  <2> DEFINE s == [task[t] EXCEPT !.pc = "Flush"]
  <2>1. /\ s \in Task /\ s.pc = "Flush" /\ ~ s.need_save /\ s.flag = "none"
    BY <1>1, <1>4, FieldTypes DEF Task, PCs
  <2>2. Become(t, s) /\ ram' = ram /\ hist' = hist
    BY <1>6 DEF Command, Goto
  <2> HIDE DEF s
  <2>3. UNCHANGED store
    BY <1>3, <2>2 DEF store
  <2>4. TypeOK' /\ TaskInv' /\ FlashInv' /\ CurrentInv'
    BY <1>1, <1>2, <1>3, <1>4, <2>1, <2>2, <2>3, SessionInv DEF Pending
  <2>5. PipeInv'
    BY <1>3, <2>1, <2>2, PipeKept
  <2> QED
    BY <2>4, <2>5 DEF Inv
<1> QED
  BY <1>5, <1>6

\* A session that goes on to pc, as the steps of a save do
LEMMA GotoFacts ==
  ASSUME Inv, NEW t \in Tasks, NEW pc \in PCs \ {"Flush", "Serial"},
         Goto(t, pc), task[t].pc # "Flush"
  PROVE  /\ task' \in [Tasks -> Task]
         /\ task'[t].pc = pc /\ ~ task'[t].need_save
         /\ task'[t].flag = "none"
         /\ \A u \in Tasks \ {t} : task'[u] = task[u]
<1> DEFINE s == [task[t] EXCEPT !.pc = pc]
<1>1. TypeOK /\ TaskInv /\ task' = [task EXCEPT ![t] = s]
  BY DEF Inv, Goto, Become
<1>2. /\ s \in Task /\ s.pc = pc /\ s.need_save = task[t].need_save
      /\ s.flag = task[t].flag
  BY <1>1, FieldTypes DEF Task
<1>3. ~ task[t].need_save /\ task[t].flag = "none"
  BY <1>1, FieldTypes DEF TaskInv
<1> HIDE DEF s
<1> QED
  BY <1>1, <1>2, <1>3 DEF TypeOK

\* It has given its mutex back
LEMMA UnlockFacts ==
  ASSUME Inv, NEW t \in Tasks, Unlock(t)
  PROVE  /\ lock' \in Tasks \cup {Free} /\ lock' # t
         /\ \A u \in Tasks \ {t} : lock' = u <=> lock = u
  BY PicoDemoAssumption DEF Inv, TypeOK, Unlock

LEMMA TornUnloadable ==
  ASSUME NEW c \in SSHConfig, c.hostkey > 0
  PROVE  /\ Torn(c) \in FlashImages /\ ~ Loadable(Torn(c))
         /\ Erased \in FlashImages /\ ~ Loadable(Erased)
         /\ Image(c) \in FlashImages /\ Loadable(Image(c))
         /\ Image(c).config = c
<1> DEFINE d == [c EXCEPT !.hostkey = 0]
<1>1. d \in SSHConfig /\ d.hostkey = 0 /\ c.hostkey # 0
  BY DEF SSHConfig
<1>2. NoConfig \in SSHConfig /\ NewConfig(1) \in SSHConfig
      /\ NoConfig.hostkey = 0 /\ NewConfig(1).hostkey = 1
  BY NewConfigTyped DEF NoConfig
<1>3. Torn(c).config = d /\ Torn(c).hash = c /\ Torn(c) \in FlashImages
  BY <1>1 DEF Torn, FlashImages
<1>4. /\ Erased.config = NoConfig /\ Erased.hash = NewConfig(1)
      /\ Erased \in FlashImages
  BY <1>2 DEF Erased, FlashImages
<1>5. /\ Image(c).config = c /\ Image(c).hash = c
      /\ Image(c) \in FlashImages
  BY DEF Image, FlashImages
<1> HIDE DEF d
<1>6. d # c
  BY <1>1
<1>7. NoConfig # NewConfig(1)
  BY <1>2
<1> QED
  BY <1>3, <1>4, <1>5, <1>6, <1>7 DEF Loadable

LEMMA SaveLockInv ==
  ASSUME Inv, NEW t \in Tasks, SaveLock(t)
  PROVE  Inv'
<1>1. /\ TypeOK /\ TaskInv /\ FlashInv /\ CurrentInv /\ PipeInv
      /\ task[t].pc = "Lock" /\ lock = Free /\ lock' = t
      /\ UNCHANGED <<flash, ram, boot, pipe, hist, budget>>
  BY DEF Inv, SaveLock
<1>2. /\ task' \in [Tasks -> Task]
      /\ task'[t].pc = "Erase" /\ ~ task'[t].need_save
      /\ task'[t].flag = "none"
      /\ \A u \in Tasks \ {t} : task'[u] = task[u]
  BY <1>1, GotoFacts DEF SaveLock, PCs
<1>3. TypeOK'
  BY <1>1, <1>2 DEF TypeOK
<1>4. TaskInv'
  BY <1>1, <1>2, PicoDemoAssumption DEF TaskInv, Running
<1>5. FlashInv'
  BY <1>1, <1>2 DEF FlashInv
<1>6. CurrentInv'
  BY <1>1, <1>2 DEF CurrentInv, Pending, Running
<1>7. PipeInv'
  BY <1>1, <1>2 DEF PipeInv
<1> QED
  BY <1>3, <1>4, <1>5, <1>6, <1>7 DEF Inv

LEMMA SaveEraseInv ==
  ASSUME Inv, NEW t \in Tasks, SaveErase(t)
  PROVE  Inv'
<1>1. /\ TypeOK /\ TaskInv /\ FlashInv /\ PipeInv
      /\ task[t].pc = "Erase" /\ flash' = Erased
      /\ hist' = [hist EXCEPT !.torn = TRUE]
      /\ UNCHANGED <<ram, lock, boot, pipe, budget>>
  BY DEF Inv, SaveErase
<1>2. /\ task' \in [Tasks -> Task]
      /\ task'[t].pc = "Write" /\ ~ task'[t].need_save
      /\ task'[t].flag = "none"
      /\ \A u \in Tasks \ {t} : task'[u] = task[u]
  BY <1>1, GotoFacts DEF SaveErase, PCs
<1>3. /\ hist' \in Hist /\ hist'.torn /\ hist'.saved = hist.saved
      /\ hist'.holder = hist.holder
  BY ZenonT(60), <1>1 DEF TypeOK, Hist
<1>4. Erased \in FlashImages /\ ~ Loadable(Erased)
  BY <1>1, HistTypes, TornUnloadable DEF FlashInv
<1>5. TypeOK'
  BY <1>1, <1>2, <1>3, <1>4 DEF TypeOK
<1>6. TaskInv'
  BY <1>1, <1>2 DEF TaskInv, Running
<1>7. FlashInv'
  BY <1>1, <1>2, <1>3, <1>4 DEF FlashInv
<1>8. CurrentInv'
  BY <1>2 DEF CurrentInv, Pending
<1>9. PipeInv'
  BY <1>1, <1>2, <1>3 DEF PipeInv
<1> QED
  BY <1>5, <1>6, <1>7, <1>8, <1>9 DEF Inv

LEMMA SaveWriteInv ==
  ASSUME Inv, NEW t \in Tasks, SaveWrite(t)
  PROVE  Inv'
<1>1. /\ TypeOK /\ TaskInv /\ FlashInv /\ PipeInv
      /\ task[t].pc = "Write" /\ flash' = Image(ram)
      /\ hist' = [hist EXCEPT !.saved = ram, !.torn = FALSE, !.lost = FALSE]
      /\ UNCHANGED <<ram, boot, pipe, budget>>
  BY DEF Inv, SaveWrite
<1>2. /\ task' \in [Tasks -> Task]
      /\ task'[t].pc = "Menu" /\ ~ task'[t].need_save
      /\ task'[t].flag = "none"
      /\ \A u \in Tasks \ {t} : task'[u] = task[u]
  BY <1>1, GotoFacts DEF SaveWrite, PCs
<1>3. /\ lock' \in Tasks \cup {Free} /\ lock' # t
      /\ \A u \in Tasks \ {t} : lock' = u <=> lock = u
  BY UnlockFacts DEF SaveWrite
<1>4. lock = t /\ Running /\ ram \in SSHConfig /\ ram.hostkey > 0
  BY <1>1 DEF TaskInv, FlashInv, TypeOK, Running
<1>5. /\ hist' \in Hist /\ ~ hist'.torn /\ hist'.saved = ram
      /\ hist'.holder = hist.holder
  BY ZenonT(60), <1>1, <1>4 DEF TypeOK, Hist
<1>6. Image(ram) \in FlashImages
  BY <1>4, TornUnloadable
<1>7. TypeOK'
  BY <1>1, <1>2, <1>3, <1>5, <1>6 DEF TypeOK
<1>8. TaskInv'
  BY <1>1, <1>2, <1>3 DEF TaskInv, Running
<1>9. \A u \in Tasks : task'[u].pc # "Write"
  BY <1>1, <1>2, <1>4 DEF TaskInv
<1>10. FlashInv'
  BY <1>1, <1>4, <1>5, <1>9 DEF FlashInv, Running
<1>11. CurrentInv'
  BY <1>1 DEF CurrentInv
<1>12. PipeInv'
  BY <1>1, <1>2, <1>5 DEF PipeInv
<1> QED
  BY <1>7, <1>8, <1>10, <1>11, <1>12 DEF Inv

\* What is left in the sector when writing it is broken off.
LEMMA InterruptedFacts ==
  ASSUME Inv, NEW f \in Interrupted
  PROVE  /\ f \in FlashImages
         /\ f # flash => hist.torn
         /\ hist.torn => ~ Loadable(f)
<1>1. TypeOK /\ TaskInv /\ FlashInv /\ flash \in FlashImages
  BY DEF Inv, TypeOK
<1>2. CASE f = flash
  BY <1>1, <1>2 DEF FlashInv
<1>3. CASE f # flash
  <2>1. /\ f = Torn(ram)
        /\ boot = "Save" \/ \E t \in Tasks : task[t].pc = "Write"
    BY <1>3 DEF Interrupted
  <2>2. hist.torn
    BY <1>1, <2>1 DEF FlashInv
  <2>3. boot # "Load"
    BY <1>1, <2>1 DEF TaskInv, Running
  <2>4. ram \in SSHConfig /\ ram.hostkey > 0
    BY <1>1, <2>3 DEF FlashInv, TypeOK
  <2> QED
    BY <2>1, <2>2, <2>4, TornUnloadable
<1> QED
  BY <1>2, <1>3

LEMMA SaveErrorInv ==
  ASSUME Inv, NEW t \in Tasks, SaveError(t)
  PROVE  Inv'
<1>1. /\ TypeOK /\ TaskInv /\ FlashInv /\ PipeInv
      /\ task[t].pc \in {"Erase", "Write"}
      /\ flash' \in Interrupted \cup {Erased}
      /\ hist' = [hist EXCEPT !.lost = TRUE, !.torn = @ \/ flash' # flash]
      /\ UNCHANGED <<ram, boot, pipe>>
  BY DEF Inv, SaveError
<1>2. /\ task' \in [Tasks -> Task]
      /\ task'[t].pc = "Menu" /\ ~ task'[t].need_save
      /\ task'[t].flag = "none"
      /\ \A u \in Tasks \ {t} : task'[u] = task[u]
  BY <1>1, GotoFacts DEF SaveError, PCs
<1>3. /\ lock' \in Tasks \cup {Free} /\ lock' # t
      /\ \A u \in Tasks \ {t} : lock' = u <=> lock = u
  BY UnlockFacts DEF SaveError
<1>4. budget' \in Budget
  BY <1>1, SpendTyped DEF TypeOK, SaveError
<1>5. Erased \in FlashImages /\ ~ Loadable(Erased)
  BY <1>1, HistTypes, TornUnloadable DEF FlashInv
<1>6. /\ flash' \in FlashImages
      /\ hist.torn \/ flash' # flash => ~ Loadable(flash')
  BY <1>1, <1>5, InterruptedFacts
<1> DEFINE b == hist.torn \/ flash' # flash
<1>7. b \in BOOLEAN /\ hist' = [hist EXCEPT !.lost = TRUE, !.torn = b]
  BY <1>1, HistTypes
<1>8. b <=> hist.torn \/ flash' # flash
  OBVIOUS
<1> HIDE DEF b
<1>9. /\ hist' \in Hist /\ hist'.torn = b /\ hist'.saved = hist.saved
      /\ hist'.holder = hist.holder /\ hist'.lost
  BY ZenonT(60), <1>1, <1>7 DEF TypeOK, Hist
<1>10. TypeOK'
  BY <1>1, <1>2, <1>3, <1>4, <1>6, <1>9 DEF TypeOK
<1>11. TaskInv'
  BY <1>1, <1>2, <1>3 DEF TaskInv, Running
<1>12. FlashInv'
  BY <1>1, <1>2, <1>6, <1>8, <1>9 DEF FlashInv
<1>13. CurrentInv'
  BY <1>9 DEF CurrentInv
<1>14. PipeInv'
  BY <1>1, <1>2, <1>9 DEF PipeInv
<1> QED
  BY <1>10, <1>11, <1>12, <1>13, <1>14 DEF Inv

LEMMA ReleasedTyped ==
  ASSUME NEW p \in TakePipe, NEW t \in Tasks
  PROVE  /\ Released(p, t) \in TakePipe
         /\ Released(p, t).cr = p.cr /\ Released(p, t).cw = p.cw
         /\ Released(p, t).fanin = p.fanin
  BY ZenonT(60) DEF Released, TakePipe

LEMMA DropInv ==
  ASSUME Inv, NEW t \in Tasks, Drop(t)
  PROVE  Inv'
<1> DEFINE b == \/ hist.lost \/ task[t].need_save
                \/ task[t].pc \in {"Lock", "Erase", "Write"}
<1>1. /\ TypeOK /\ TaskInv /\ FlashInv /\ CurrentInv /\ PipeInv
      /\ task[t].pc # "Idle"
      /\ task' = [task EXCEPT ![t] = NewTask]
      /\ pipe' = Released(pipe, t)
      /\ UNCHANGED <<ram, boot, budget>>
  BY DEF Inv, Drop, Become
<1>2. flash' \in Interrupted
  BY DEF Drop, Interrupted
<1>3. /\ lock' \in Tasks \cup {Free} /\ lock' # t
      /\ \A u \in Tasks \ {t} : lock' = u <=> lock = u
  BY UnlockFacts DEF Drop
<1>4. /\ task' \in [Tasks -> Task]
      /\ task'[t].pc = "Idle" /\ ~ task'[t].need_save
      /\ task'[t].flag = "none"
      /\ \A u \in Tasks \ {t} : task'[u] = task[u]
  BY <1>1, NewTaskTyped DEF TypeOK, NewTask
<1>5. b \in BOOLEAN /\ hist' = [hist EXCEPT !.lost = b]
  BY ZenonT(60), <1>1, HistTypes, FieldTypes DEF Drop, Gone
<1>6. b <=> hist.lost \/ Pending(t)
  BY DEF Pending
<1> HIDE DEF b
<1>7. /\ hist' \in Hist /\ hist'.torn = hist.torn /\ hist'.lost = b
      /\ hist'.saved = hist.saved /\ hist'.holder = hist.holder
  BY <1>1, <1>5 DEF TypeOK, Hist
<1>8. /\ pipe' \in TakePipe /\ pipe'.cr = pipe.cr /\ pipe'.cw = pipe.cw
  BY <1>1, ReleasedTyped DEF TypeOK
<1>9. /\ flash' \in FlashImages
      /\ hist.torn => ~ Loadable(flash')
      /\ flash' # flash => hist.torn
  BY <1>2, InterruptedFacts
<1>10. TypeOK'
  BY <1>1, <1>3, <1>4, <1>7, <1>8, <1>9 DEF TypeOK
<1>11. TaskInv'
  BY <1>1, <1>3, <1>4 DEF TaskInv, Running
<1>12. FlashInv'
  BY <1>1, <1>4, <1>7, <1>9 DEF FlashInv
<1>13. CurrentInv'
  <2>1. CASE b
    BY <1>7, <2>1 DEF CurrentInv
  <2>2. CASE ~ b
    <3>1. flash' = flash
      BY <1>6, <2>2 DEF Pending, Drop
    <3>2. \A u \in Tasks : Pending(u) => Pending(u)'
      BY <1>4, <1>6, <2>2 DEF Pending
    <3> QED
      BY <1>1, <1>6, <2>2, <3>1, <3>2 DEF CurrentInv, Running
  <2> QED
    BY <2>1, <2>2
<1>14. PipeInv'
  BY <1>1, <1>4, <1>7, <1>8 DEF PipeInv
<1> QED
  BY <1>10, <1>11, <1>12, <1>13, <1>14 DEF Inv

-----------------------------------------------------------------------------
(* Starting and restarting.                                                *)

LEMMA BootLoadInv ==
  ASSUME Inv, BootLoad
  PROVE  Inv'
<1>1. /\ TypeOK /\ TaskInv /\ FlashInv /\ PipeInv /\ boot = "Load"
      /\ UNCHANGED <<flash, hist, lock, task, pipe, budget>>
      /\ ram' = flash.config /\ boot' = "Run" /\ Loadable(flash)
  BY DEF Inv, BootLoad
<1>2. \A t \in Tasks : task[t].pc = "Idle"
  BY <1>1 DEF TaskInv, Running
<1>3. ~ hist.torn /\ flash = Image(hist.saved)
  BY <1>1, HistTypes DEF FlashInv
<1>4. flash.config = hist.saved
  BY <1>3 DEF Image
<1>5. TypeOK'
  BY <1>1, <1>4, HistTypes DEF TypeOK
<1>6. TaskInv'
  BY <1>1, <1>2 DEF TaskInv, Running
<1>7. FlashInv'
  BY <1>1, <1>2, <1>4 DEF FlashInv
<1>8. CurrentInv'
  BY <1>1, <1>3, <1>4 DEF CurrentInv
<1>9. PipeInv'
  BY <1>1 DEF PipeInv
<1> QED
  BY <1>5, <1>6, <1>7, <1>8, <1>9 DEF Inv

LEMMA BootCreateInv ==
  ASSUME Inv, BootCreate
  PROVE  Inv'
<1> DEFINE n == hist.fresh + 1
<1>1. /\ TypeOK /\ TaskInv /\ FlashInv /\ PipeInv
      /\ boot = "Load" /\ boot' = "Erase"
      /\ UNCHANGED <<flash, lock, task, pipe>>
      /\ ram' = NewConfig(n) /\ hist' = [hist EXCEPT !.fresh = n]
      /\ flash \in FlashImages /\ hist \in Hist
  BY DEF Inv, BootCreate, TypeOK
<1>2. \A t \in Tasks : task[t].pc = "Idle"
  BY <1>1 DEF TaskInv, Running
<1>3. budget' \in Budget
  BY <1>1, SpendTyped DEF BootCreate, ReadError, TypeOK
<1>4. n \in Nat /\ n > 0
  BY <1>1, HistTypes
<1> HIDE DEF n
<1>5. NewConfig(n) \in SSHConfig /\ NewConfig(n).hostkey > 0
  BY <1>4, NewConfigTyped
<1>6. /\ hist' \in Hist /\ hist'.torn = hist.torn
      /\ hist'.saved = hist.saved /\ hist'.holder = hist.holder
  BY ZenonT(60), <1>1, <1>4 DEF Hist
<1>7. TypeOK'
  BY <1>1, <1>3, <1>5, <1>6 DEF TypeOK
<1>8. TaskInv'
  BY <1>1, <1>2 DEF TaskInv, Running
<1>9. FlashInv'
  BY <1>1, <1>2, <1>5, <1>6 DEF FlashInv
<1>10. CurrentInv'
  BY <1>1 DEF CurrentInv, Running
<1>11. PipeInv'
  BY <1>1, <1>2 DEF PipeInv
<1> QED
  BY <1>7, <1>8, <1>9, <1>10, <1>11 DEF Inv

LEMMA BootEraseInv ==
  ASSUME Inv, NEW ok \in BOOLEAN, BootErase(ok)
  PROVE  Inv'
<1>1. /\ TypeOK /\ TaskInv /\ FlashInv /\ PipeInv /\ boot = "Erase"
      /\ UNCHANGED <<ram, lock, task, pipe>>
      /\ flash \in FlashImages /\ hist \in Hist
  BY DEF Inv, BootErase, TypeOK
<1>2. \A t \in Tasks : task[t].pc = "Idle"
  BY <1>1 DEF TaskInv, Running
<1>3. ram \in SSHConfig /\ ram.hostkey > 0
  BY <1>1 DEF FlashInv, TypeOK
<1>4. Erased \in FlashImages /\ ~ Loadable(Erased)
  BY <1>3, TornUnloadable
<1>5. PipeInv'
  BY <1>1, <1>2 DEF PipeInv
<1>6. CASE ok
  <2>1. /\ boot' = "Save" /\ flash' = Erased /\ budget' = budget
        /\ hist' = [hist EXCEPT !.torn = TRUE]
    BY <1>6 DEF BootErase
  <2>2. hist' \in Hist /\ hist'.torn /\ hist'.saved = hist.saved
    BY ZenonT(60), <1>1, <2>1 DEF Hist
  <2>3. TypeOK'
    BY <1>1, <1>4, <2>1, <2>2 DEF TypeOK
  <2>4. TaskInv'
    BY <1>1, <1>2, <2>1 DEF TaskInv, Running
  <2>5. FlashInv'
    BY <1>1, <1>2, <1>3, <1>4, <2>1, <2>2 DEF FlashInv
  <2>6. CurrentInv'
    BY <2>1 DEF CurrentInv, Running
  <2> QED
    BY <1>5, <2>3, <2>4, <2>5, <2>6 DEF Inv
<1>7. CASE ~ ok
  <2> DEFINE b == hist.torn \/ flash' # flash
  <2>1. /\ boot' = "Run" /\ flash' \in {flash, Erased}
        /\ hist' = [hist EXCEPT !.lost = TRUE, !.torn = b]
    BY <1>7 DEF BootErase
  <2>2. budget' \in Budget
    BY <1>1, <1>7, SpendTyped DEF BootErase, TypeOK
  <2>3. b \in BOOLEAN /\ (b <=> hist.torn \/ flash' # flash)
    BY HistTypes
  <2> HIDE DEF b
  <2>4. /\ hist' \in Hist /\ hist'.torn = b /\ hist'.saved = hist.saved
        /\ hist'.lost
    BY ZenonT(60), <1>1, <2>1, <2>3 DEF Hist
  <2>5. TypeOK'
    BY <1>1, <1>4, <2>1, <2>2, <2>4 DEF TypeOK
  <2>6. TaskInv'
    BY <1>1, <1>2, <2>1 DEF TaskInv, Running
  <2>7. FlashInv'
    BY <1>1, <1>2, <1>3, <1>4, <2>1, <2>3, <2>4 DEF FlashInv
  <2>8. CurrentInv'
    BY <2>4 DEF CurrentInv
  <2> QED
    BY <1>5, <2>5, <2>6, <2>7, <2>8 DEF Inv
<1> QED
  BY <1>6, <1>7

LEMMA BootSaveInv ==
  ASSUME Inv, NEW ok \in BOOLEAN, BootSave(ok)
  PROVE  Inv'
<1>1. /\ TypeOK /\ TaskInv /\ FlashInv /\ PipeInv
      /\ boot = "Save" /\ boot' = "Run"
      /\ UNCHANGED <<ram, lock, task, pipe>> /\ hist \in Hist
  BY DEF Inv, BootSave, TypeOK
<1>2. \A t \in Tasks : task[t].pc = "Idle"
  BY <1>1 DEF TaskInv, Running
<1>3. ram \in SSHConfig /\ ram.hostkey > 0 /\ hist.torn
  BY <1>1 DEF FlashInv, TypeOK
<1>4. TaskInv'
  BY <1>1, <1>2 DEF TaskInv, Running
<1>5. CASE ok
  <2>1. /\ flash' = Image(ram) /\ budget' = budget
        /\ hist' = [hist EXCEPT !.saved = ram, !.torn = FALSE, !.lost = FALSE]
    BY <1>5 DEF BootSave
  <2>2. Image(ram) \in FlashImages
    BY <1>3, TornUnloadable
  <2>3. /\ hist' \in Hist /\ ~ hist'.torn /\ hist'.saved = ram
        /\ hist'.holder = hist.holder
    BY ZenonT(60), <1>1, <1>3, <2>1 DEF Hist
  <2>4. TypeOK'
    BY <1>1, <2>1, <2>2, <2>3 DEF TypeOK
  <2>5. FlashInv'
    BY <1>1, <1>2, <1>3, <2>1, <2>3 DEF FlashInv
  <2>6. CurrentInv'
    BY <1>1, <2>1 DEF CurrentInv
  <2>7. PipeInv'
    BY <1>1, <1>2 DEF PipeInv
  <2> QED
    BY <1>4, <2>4, <2>5, <2>6, <2>7 DEF Inv
<1>6. CASE ~ ok
  <2>1. /\ flash' \in {flash, Torn(ram)} /\ hist' = [hist EXCEPT !.lost = TRUE]
    BY <1>6 DEF BootSave
  <2>8. flash' \in FlashImages /\ ~ Loadable(flash')
    BY <1>1, <1>3, <2>1, TornUnloadable DEF FlashInv, TypeOK
  <2>2. budget' \in Budget
    BY <1>1, <1>6, SpendTyped DEF BootSave, TypeOK
  <2>3. /\ hist' \in Hist /\ hist'.torn = hist.torn
        /\ hist'.saved = hist.saved /\ hist'.lost
    BY ZenonT(60), <1>1, <2>1 DEF Hist
  <2>4. TypeOK'
    BY <1>1, <2>2, <2>3, <2>8 DEF TypeOK
  <2>5. FlashInv'
    BY <1>1, <1>2, <1>3, <2>3, <2>8 DEF FlashInv
  <2>6. CurrentInv'
    BY <2>3 DEF CurrentInv
  <2>7. PipeInv'
    BY <1>1, <1>2 DEF PipeInv
  <2> QED
    BY <1>4, <2>4, <2>5, <2>6, <2>7 DEF Inv
<1> QED
  BY <1>5, <1>6

LEMMA RestartInv ==
  ASSUME Inv, Restart, budget' \in Budget
  PROVE  Inv'
<1>1. /\ TypeOK /\ FlashInv /\ hist \in Hist /\ boot' = "Load"
      /\ flash' \in Interrupted /\ lock' = Free /\ pipe' = NewPipe
      /\ task' = [t \in Tasks |-> NewTask] /\ ram' = ram
      /\ hist' = [hist EXCEPT !.lost = FALSE, !.holder = Free]
  BY DEF Inv, Restart, TypeOK
<1>2. /\ flash' \in FlashImages
      /\ flash' # flash => hist.torn
      /\ hist.torn => ~ Loadable(flash')
  BY <1>1, InterruptedFacts
<1>3. /\ hist' \in Hist /\ hist'.torn = hist.torn
      /\ hist'.saved = hist.saved
  BY ZenonT(60), <1>1 DEF Hist
<1>4. /\ task' \in [Tasks -> Task]
      /\ \A t \in Tasks : /\ task'[t].pc = "Idle" /\ ~ task'[t].need_save
                          /\ task'[t].flag = "none"
  BY <1>1, NewTaskTyped DEF NewTask
<1>5. <<>> \in Fanin
  <2>1. FaninSize \in Nat /\ 0 <= FaninSize
    BY PicoDemoAssumption
  <2>2. <<>> \in Seq(Tasks) /\ Len(<<>>) = 0
    OBVIOUS
  <2> QED
    BY ZenonT(60), <2>1, <2>2 DEF Fanin
<1>6. NewPipe \in TakePipe /\ NewPipe.cr = 0 /\ NewPipe.cw = 0
  BY <1>5, PicoDemoAssumption DEF NewPipe, TakePipe
<1>7. TypeOK'
  BY <1>1, <1>2, <1>3, <1>4, <1>6 DEF TypeOK
<1>8. TaskInv'
  BY <1>1, <1>4, PicoDemoAssumption DEF TaskInv, Running
<1>9. FlashInv'
  BY <1>1, <1>2, <1>3, <1>4 DEF FlashInv
<1>10. CurrentInv'
  BY <1>1 DEF CurrentInv, Running
<1>11. PipeInv'
  BY <1>1, <1>4, <1>6 DEF PipeInv
<1> QED
  BY <1>7, <1>8, <1>9, <1>10, <1>11 DEF Inv

-----------------------------------------------------------------------------
(* The pipe.                                                               *)

LEMMA ReadPipeFacts ==
  ASSUME NEW p \in TakePipe, NEW s \in Task, NEW t \in Tasks,
         NEW blocked \in BOOLEAN,
         NEW q, q = ReadPipe(p, s, t, blocked)[1],
         NEW r, r = ReadPipe(p, s, t, blocked)[2]
  PROVE  /\ q \in TakePipe /\ r \in Task
         /\ q.cr = p.cr /\ q.cw = p.cw /\ q.fanin = p.fanin
         /\ r.pc = s.pc /\ r.need_save = s.need_save /\ r.flag = s.flag
         /\ r.counter = s.counter
         /\ r.got > s.got => CanRead(p, t)
<1>1. /\ p.fanout \in 0 .. FanoutSize /\ s.got \in Nat
      /\ 0 \in 0 .. FanoutSize /\ FanoutSize \in Nat
  BY PicoDemoAssumption DEF TakePipe, Task
<1> DEFINE g == s.got + p.fanout
<1>2. g \in Nat
  BY <1>1
<1>3. CASE CanRead(p, t) /\ p.fanout > 0 /\ blocked
  <2>1. /\ q = [p EXCEPT !.fanout = 0, !.rlock = Free]
        /\ r = [s EXCEPT !.r = "Chan", !.got = g]
    BY <1>1, <1>3 DEF ReadPipe
  <2> HIDE DEF g
  <2> QED
    BY ZenonT(60), <1>1, <1>2, <1>3, <2>1 DEF TakePipe, Task
<1>4. CASE CanRead(p, t) /\ (p.fanout = 0 \/ ~ blocked)
  <2>1. /\ q = [p EXCEPT !.fanout = 0, !.rlock = t]
        /\ r = [s EXCEPT !.r = "Pipe", !.got = g]
    BY <1>1, <1>4 DEF ReadPipe
  <2> HIDE DEF g
  <2> QED
    BY ZenonT(60), <1>1, <1>2, <1>4, <2>1 DEF TakePipe, Task
<1>5. CASE ~ CanRead(p, t)
  <2>1. q = p /\ r = [s EXCEPT !.r = "Lock"]
    BY <1>1, <1>5 DEF ReadPipe
  <2>2. r.got = s.got
    BY <2>1 DEF Task
  <2>3. ~ (r.got > s.got)
    BY <1>1, <2>2
  <2> QED
    BY <2>1, <2>3 DEF TakePipe, Task
<1>6. p.fanout > 0 \/ p.fanout = 0
  BY <1>1
<1> QED
  BY <1>3, <1>4, <1>5, <1>6

\* Appending n bytes of t to what is on its way to the line
LEMMA FaninFacts ==
  ASSUME NEW f \in Fanin, NEW t \in Tasks,
         NEW n \in Nat, n <= FaninSize - Len(f),
         NEW h, h = f \o [i \in 1 .. n |-> t]
  PROVE  /\ h \in Fanin
         /\ Len(h) > Len(f) => h[Len(h)] = t
<1>1. FaninSize \in Nat
  BY PicoDemoAssumption
<1>2. f \in Seq(Tasks) /\ Len(f) \in Nat
  BY <1>1 DEF Fanin
<1> DEFINE w == [i \in 1 .. n |-> t]
<1>3. w \in Seq(Tasks) /\ Len(w) = n /\ \A i \in 1 .. n : w[i] = t
  OBVIOUS
<1> HIDE DEF w
<1>4. /\ h \in Seq(Tasks) /\ Len(h) = Len(f) + n
      /\ \A i \in 1 .. Len(f) + n :
           h[i] = IF i <= Len(f) THEN f[i] ELSE w[i - Len(f)]
  BY <1>2, <1>3
<1>5. h \in Fanin
  <2>1. Len(h) <= FaninSize
    BY <1>1, <1>2, <1>4
  <2> QED
    BY ZenonT(60), <1>1, <1>4, <2>1 DEF Fanin
<1>6. ASSUME Len(h) > Len(f) PROVE h[Len(h)] = t
  <2>1. n > 0 /\ Len(h) \in 1 .. Len(f) + n /\ Len(h) - Len(f) = n
        /\ ~ (Len(h) <= Len(f)) /\ n \in 1 .. n
    BY <1>2, <1>4, <1>6
  <2> QED
    BY <1>3, <1>4, <2>1
<1> QED
  BY <1>5, <1>6

LEMMA WritePipeFacts ==
  ASSUME NEW p \in TakePipe, NEW s \in Task, NEW t \in Tasks,
         NEW q, q = WritePipe(p, s, t)[1],
         NEW r, r = WritePipe(p, s, t)[2]
  PROVE  /\ q \in TakePipe /\ r \in Task
         /\ q.cr = p.cr /\ q.cw = p.cw
         /\ r.pc = s.pc /\ r.need_save = s.need_save /\ r.flag = s.flag
         /\ r.counter = s.counter /\ r.got = s.got
         /\ Len(q.fanin) > Len(p.fanin) =>
              CanWrite(p, t) /\ q.fanin[Len(q.fanin)] = t
<1>1. /\ p.fanin \in Fanin /\ FaninSize \in Nat
      /\ s.left \in 0 .. LineLen /\ LineLen \in Nat
  BY PicoDemoAssumption DEF TakePipe, Task
<1>2. Room(p) \in Nat /\ Room(p) = FaninSize - Len(p.fanin)
      /\ Len(p.fanin) \in Nat
  BY <1>1 DEF Fanin, Room
<1> DEFINE n == IF s.left < Room(p) THEN s.left ELSE Room(p)
           more == s.left > n
           h == p.fanin \o [i \in 1 .. n |-> t]
           left == s.left - n
<1>3. n \in Nat /\ n <= FaninSize - Len(p.fanin) /\ left \in 0 .. LineLen
  BY <1>1, <1>2
<1> HIDE DEF n
<1>4. /\ h \in Fanin
      /\ Len(h) > Len(p.fanin) => h[Len(h)] = t
  BY ZenonT(60), <1>1, <1>3, FaninFacts
<1>5. CASE CanWrite(p, t)
  <2>1. /\ q = [p EXCEPT !.fanin = h, !.wlock = IF more THEN t ELSE Free]
        /\ r = [s EXCEPT !.left = left, !.w = IF more THEN "Pipe" ELSE "Chan"]
    BY <1>5 DEF WritePipe, n
  <2> HIDE DEF h, more, left
  <2> QED
    BY ZenonT(60), <1>3, <1>4, <1>5, <2>1 DEF TakePipe, Task
<1>6. CASE ~ CanWrite(p, t)
  <2>1. q = p /\ r = [s EXCEPT !.w = "Lock"]
    BY <1>6 DEF WritePipe
  <2>2. ~ (Len(q.fanin) > Len(p.fanin))
    BY <1>2, <2>1
  <2> QED
    BY <2>1, <2>2 DEF TakePipe, Task
<1> QED
  BY <1>5, <1>6

\* What OnlyTheTaker says of one step
TakerStep ==
  \A t \in Tasks :
       \/ task'[t].got > task[t].got
       \/ /\ Len(pipe'.fanin) > Len(pipe.fanin)
          /\ pipe'.fanin[Len(pipe'.fanin)] = t
       => hist'.holder = t

\* It holds if t is the one that took the pipe, or touches neither its own
\* count nor the bytes on their way to the line.
LEMMA TakerStepFacts ==
  ASSUME TypeOK, NEW t \in Tasks, NEW s \in Task, Become(t, s),
         s.got > task[t].got => hist'.holder = t,
         Len(pipe'.fanin) > Len(pipe.fanin) =>
           pipe'.fanin[Len(pipe'.fanin)] = t /\ hist'.holder = t
  PROVE  TakerStep
<1>1. \A u \in Tasks : task'[u] = IF u = t THEN s ELSE task[u]
  BY DEF TypeOK, Become
<1>2. \A u \in Tasks : task[u].got \in Nat /\ ~ (task[u].got > task[u].got)
  BY FieldTypes
<1> QED
  BY <1>1, <1>2 DEF TakerStep

LEMMA EndSerialInv ==
  ASSUME Inv, NEW t \in Tasks, task[t].pc = "Serial",
         NEW p \in TakePipe, p.cr = pipe.cr, p.cw = pipe.cw,
         p.fanin = pipe.fanin, EndSerial(p, t), UNCHANGED <<store, hist>>,
         budget' \in Budget
  PROVE  Inv' /\ TakerStep
<1>1. /\ TypeOK /\ TaskInv /\ hist \in Hist /\ hist' = hist
      /\ UNCHANGED store /\ pipe' = Released(p, t) /\ Become(t, NewTask)
  BY DEF Inv, TypeOK, EndSerial
<1>2. /\ NewTask \in Task /\ NewTask.pc = "Idle" /\ ~ NewTask.need_save
      /\ NewTask.flag = "none" /\ NewTask.got = 0
  BY NewTaskTyped DEF NewTask
<1>3. /\ pipe' \in TakePipe /\ pipe'.cr = pipe.cr /\ pipe'.cw = pipe.cw
      /\ pipe'.fanin = pipe.fanin
  BY <1>1, ReleasedTyped
<1>4. ~ Pending(t)
  BY <1>1, FieldTypes DEF TaskInv, Pending
<1>5. TypeOK' /\ TaskInv' /\ FlashInv' /\ CurrentInv'
  BY <1>1, <1>2, <1>3, <1>4, SessionInv
<1>6. PipeInv'
  BY <1>1, <1>2, <1>3, PipeKept
<1>7. ~ (NewTask.got > task[t].got)
  BY <1>1, <1>2, FieldTypes
<1>8. ~ (Len(pipe'.fanin) > Len(pipe.fanin))
  <2>1. Len(pipe.fanin) \in Nat
    BY <1>1, PipeTypes, PicoDemoAssumption DEF Fanin
  <2> QED
    BY <1>3, <2>1
<1>9. TakerStep
  BY <1>1, <1>2, <1>7, <1>8, TakerStepFacts
<1> QED
  BY <1>5, <1>6, <1>9 DEF Inv

\* A poll of either loop of serial() that does not end it
LEMMA LoopInv ==
  ASSUME Inv, NEW t \in Tasks, task[t].pc = "Serial", NEW s \in Task,
         Become(t, s), pipe' \in TakePipe, UNCHANGED <<store, hist>>,
         budget' \in Budget,
         pipe'.cr = pipe.cr, pipe'.cw = pipe.cw, s.pc = "Serial",
         s.need_save = task[t].need_save, s.flag = task[t].flag,
         s.counter = task[t].counter,
         s.got > task[t].got => task[t].counter = pipe.cr,
         Len(pipe'.fanin) > Len(pipe.fanin) =>
           pipe'.fanin[Len(pipe'.fanin)] = t /\ task[t].counter = pipe.cw
  PROVE  Inv' /\ TakerStep
<1>1. /\ TypeOK /\ TaskInv /\ PipeInv /\ hist \in Hist /\ hist' = hist
      /\ UNCHANGED store
  BY DEF Inv, TypeOK
<1>2. ~ task[t].need_save /\ task[t].flag = "none"
  BY <1>1, FieldTypes DEF TaskInv
<1>3. TypeOK' /\ TaskInv' /\ FlashInv' /\ CurrentInv'
  BY <1>1, <1>2, SessionInv DEF Pending
<1>4. PipeInv'
  BY <1>1, PipeKept
<1>5. task[t].counter = pipe.cr => hist'.holder = t
  BY <1>1 DEF PipeInv
<1>6. pipe.cr = pipe.cw
  BY <1>1 DEF PipeInv
<1>7. TakerStep
  BY <1>1, <1>5, <1>6, TakerStepFacts
<1> QED
  BY <1>3, <1>4, <1>7 DEF Inv

LEMMA ReadLoopInv ==
  ASSUME Inv, NEW t \in Tasks, task[t].pc = "Serial",
         NEW blocked \in BOOLEAN, ReadLoop(t, blocked)
  PROVE  Inv' /\ TakerStep
<1> DEFINE s == task[t]
           q == ReadPipe(pipe, s, t, blocked)[1]
           r == ReadPipe(pipe, s, t, blocked)[2]
           w == pipe.wake /\ CanRead(pipe, t) /\ pipe.cr # s.counter
<1>1. /\ TypeOK /\ pipe \in TakePipe /\ s \in Task
      /\ UNCHANGED <<store, hist>> /\ budget' \in Budget
  BY FieldTypes DEF Inv, TypeOK, ReadLoop
<1>2. CASE ReadEof(pipe, s, t)
  <2>1. w \in BOOLEAN /\ EndSerial([pipe EXCEPT !.wake = w], t)
    BY <1>1, <1>2, PipeTypes DEF ReadLoop
  <2> HIDE DEF w
  <2>2. /\ [pipe EXCEPT !.wake = w] \in TakePipe
        /\ [pipe EXCEPT !.wake = w].cr = pipe.cr
        /\ [pipe EXCEPT !.wake = w].cw = pipe.cw
        /\ [pipe EXCEPT !.wake = w].fanin = pipe.fanin
    BY <1>1, <2>1 DEF TakePipe
  <2> QED
    BY ZenonT(60), <1>1, <2>1, <2>2, EndSerialInv
<1>3. CASE ~ ReadEof(pipe, s, t)
  <2>1. pipe' = q /\ Become(t, r)
    BY <1>3 DEF ReadLoop
  <2>2. /\ q \in TakePipe /\ r \in Task
        /\ q.cr = pipe.cr /\ q.cw = pipe.cw /\ q.fanin = pipe.fanin
        /\ r.pc = s.pc /\ r.need_save = s.need_save /\ r.flag = s.flag
        /\ r.counter = s.counter
        /\ r.got > s.got => CanRead(pipe, t)
    BY <1>1, ReadPipeFacts
  <2> HIDE DEF q, r
  <2>3. r.got > s.got => s.counter = pipe.cr
    BY <1>3, <2>2 DEF ReadEof
  <2>4. ~ (Len(q.fanin) > Len(pipe.fanin))
    <3>1. Len(pipe.fanin) \in Nat
      BY <1>1, PipeTypes, PicoDemoAssumption DEF Fanin
    <3> QED
      BY <2>2, <3>1
  <2> QED
    BY <1>1, <2>1, <2>2, <2>3, <2>4, LoopInv
<1> QED
  BY <1>2, <1>3

LEMMA WriteLoopInv ==
  ASSUME Inv, NEW t \in Tasks, task[t].pc = "Serial",
         NEW s \in Task, s.pc = task[t].pc, s.counter = task[t].counter,
         s.need_save = task[t].need_save, s.flag = task[t].flag,
         s.got = task[t].got, WriteLoop(t, s), budget' \in Budget
  PROVE  Inv' /\ TakerStep
<1> DEFINE q == WritePipe(pipe, s, t)[1]
           r == WritePipe(pipe, s, t)[2]
           w == pipe.wake /\ CanWrite(pipe, t) /\ pipe.cw # s.counter
<1>1. TypeOK /\ pipe \in TakePipe /\ UNCHANGED <<store, hist>>
  BY DEF Inv, TypeOK, WriteLoop
<1>2. task[t].got \in Nat
  BY <1>1, FieldTypes
<1>3. CASE WriteEof(pipe, s, t)
  <2>1. w \in BOOLEAN /\ EndSerial([pipe EXCEPT !.wake = w], t)
    BY <1>1, <1>3, PipeTypes DEF WriteLoop
  <2> HIDE DEF w
  <2>2. /\ [pipe EXCEPT !.wake = w] \in TakePipe
        /\ [pipe EXCEPT !.wake = w].cr = pipe.cr
        /\ [pipe EXCEPT !.wake = w].cw = pipe.cw
        /\ [pipe EXCEPT !.wake = w].fanin = pipe.fanin
    BY <1>1, <2>1 DEF TakePipe
  <2> QED
    BY ZenonT(60), <1>1, <2>1, <2>2, EndSerialInv
<1>4. CASE ~ WriteEof(pipe, s, t)
  <2>1. pipe' = q /\ Become(t, r)
    BY <1>4 DEF WriteLoop
  <2>2. /\ q \in TakePipe /\ r \in Task
        /\ q.cr = pipe.cr /\ q.cw = pipe.cw
        /\ r.pc = s.pc /\ r.need_save = s.need_save /\ r.flag = s.flag
        /\ r.counter = s.counter /\ r.got = s.got
        /\ Len(q.fanin) > Len(pipe.fanin) =>
             CanWrite(pipe, t) /\ q.fanin[Len(q.fanin)] = t
    BY <1>1, WritePipeFacts
  <2> HIDE DEF q, r
  <2>3. ~ (r.got > task[t].got)
    BY <1>2, <2>2
  <2>4. Len(q.fanin) > Len(pipe.fanin) =>
          q.fanin[Len(q.fanin)] = t /\ task[t].counter = pipe.cw
    BY <1>2, <1>4, <2>2 DEF WriteEof
  <2>5. /\ r.pc = "Serial" /\ r.need_save = task[t].need_save
        /\ r.flag = task[t].flag /\ r.counter = task[t].counter
    BY <1>2, <2>2
  <2>6. /\ pipe' \in TakePipe /\ pipe'.cr = pipe.cr /\ pipe'.cw = pipe.cw
        /\ Len(pipe'.fanin) > Len(pipe.fanin) =>
             pipe'.fanin[Len(pipe'.fanin)] = t /\ task[t].counter = pipe.cw
    BY <2>1, <2>2, <2>4
  <2> QED
    BY ZenonT(60), <1>1, <2>1, <2>2, <2>3, <2>5, <2>6, LoopInv
<1> QED
  BY <1>3, <1>4

LEMMA TakenFacts ==
  ASSUME TypeOK, NEW t \in Tasks, NEW p \in TakePipe, hist' = Taken(t, p)
  PROVE  /\ hist' \in Hist /\ hist'.saved = hist.saved
         /\ hist'.torn = hist.torn /\ hist'.lost = hist.lost
         /\ hist'.holder = IF p.rlock \in {Free, t} /\ p.wlock = Free
                             THEN t ELSE hist.holder
<1> DEFINE h == IF p.rlock \in {Free, t} /\ p.wlock = Free
                  THEN t ELSE hist.holder
           c == \/ hist.crowded \/ Cardinality(Others(t)) > 1
                \/ \E u \in Others(t) : Taking(u)
<1>1. hist \in Hist /\ hist' = [hist EXCEPT !.holder = h, !.crowded = c]
  BY DEF Taken, TypeOK
<1>2. c \in BOOLEAN /\ h \in Tasks \cup {Free}
  BY HistTypes
<1>3. h = IF p.rlock \in {Free, t} /\ p.wlock = Free THEN t ELSE hist.holder
  OBVIOUS
<1> HIDE DEF c, h
<1>4. /\ hist' \in Hist /\ hist'.saved = hist.saved
      /\ hist'.torn = hist.torn /\ hist'.lost = hist.lost
      /\ hist'.holder = h
  BY ZenonT(60), <1>1, <1>2 DEF Hist
<1> QED
  BY <1>3, <1>4

LEMMA TakeInv ==
  ASSUME Inv, NEW t \in Tasks, NEW s \in Task,
         NEW p \in TakePipe, NEW blocked \in BOOLEAN,
         task[t].pc \in {"Auth", "Flush", "TakeR", "TakeW"},
         ~ task[t].need_save, ~ s.need_save, s.flag = "none",
         s.got = task[t].got,
         p.cr = pipe.cr, p.cw = pipe.cw, p.fanin = pipe.fanin,
         Take(t, s, p, blocked), budget' \in Budget
  PROVE  Inv' /\ TakerStep
<1> DEFINE c == p.cr + 1
           done == [p EXCEPT !.cr = c, !.cw = p.cw + 1, !.wake = FALSE,
                             !.rlock = Free]
           a == [s EXCEPT !.pc = "Serial", !.counter = c]
           q == ReadPipe(done, a, t, blocked)[1]
           r == ReadPipe(done, a, t, blocked)[2]
<1>1. /\ TypeOK /\ PipeInv /\ UNCHANGED store /\ ~ Pending(t)
      /\ pipe.cr \in Nat /\ pipe.cw \in Nat /\ task[t].got \in Nat
  BY PipeTypes, FieldTypes DEF Inv, Take, Pending
<1>2. /\ hist' \in Hist /\ hist'.saved = hist.saved
      /\ hist'.torn = hist.torn /\ hist'.lost = hist.lost
      /\ hist'.holder = IF p.rlock \in {Free, t} /\ p.wlock = Free
                          THEN t ELSE hist.holder
  BY <1>1, TakenFacts DEF Take
<1>3. Len(pipe.fanin) \in Nat
  BY <1>1, PipeTypes, PicoDemoAssumption DEF Fanin
<1>4. CASE \/ p.rlock \notin {Free, t} /\ pipe' = p
             /\ Become(t, [s EXCEPT !.pc = "TakeR"])
           \/ p.wlock # Free /\ pipe' = [p EXCEPT !.rlock = t]
             /\ Become(t, [s EXCEPT !.pc = "TakeW"])
  <2>1. PICK x \in {"TakeR", "TakeW"} : Become(t, [s EXCEPT !.pc = x])
    BY <1>4
  <2> DEFINE b == [s EXCEPT !.pc = x]
  <2>2. /\ b \in Task /\ b.pc \in {"TakeR", "TakeW"} /\ ~ b.need_save
        /\ b.flag = "none" /\ b.got = s.got /\ Become(t, b)
    BY <2>1 DEF Task, PCs
  <2>3. /\ pipe' \in TakePipe /\ pipe'.cr = pipe.cr /\ pipe'.cw = pipe.cw
        /\ pipe'.fanin = pipe.fanin /\ hist'.holder = hist.holder
    BY <1>2, <1>4 DEF TakePipe
  <2> HIDE DEF b
  <2>4. TypeOK' /\ TaskInv' /\ FlashInv' /\ CurrentInv'
    BY Zenon, <1>1, <1>2, <2>2, <2>3, SessionInv
  <2>5. PipeInv'
    BY <2>2, <2>3, PipeKept
  <2>6. ~ (b.got > task[t].got) /\ ~ (Len(pipe'.fanin) > Len(pipe.fanin))
    BY <1>1, <1>3, <2>2, <2>3
  <2>7. TakerStep
    BY <1>1, <2>2, <2>6, TakerStepFacts
  <2> QED
    BY <2>4, <2>5, <2>7 DEF Inv
<1>5. CASE /\ p.rlock \in {Free, t} /\ p.wlock = Free
           /\ pipe' = q /\ Become(t, r)
  <2>1. c \in Nat /\ p.cw + 1 \in Nat /\ p.cw + 1 = c /\ c > pipe.cr
    BY <1>1 DEF PipeInv
  <2> DEFINE n == p.cw + 1
  <2> HIDE DEF c, n
  <2>2. /\ done \in TakePipe /\ done.cr = c /\ done.cw = n
        /\ done.fanin = p.fanin
    BY ZenonT(60), <2>1 DEF TakePipe, n
  <2>3. /\ a \in Task /\ a.pc = "Serial" /\ a.counter = c
        /\ ~ a.need_save /\ a.flag = "none"
    BY ZenonT(60), <2>1 DEF Task, PCs
  <2> HIDE DEF done, a
  <2>4. /\ q \in TakePipe /\ r \in Task
        /\ q.cr = done.cr /\ q.cw = done.cw /\ q.fanin = done.fanin
        /\ r.pc = a.pc /\ r.need_save = a.need_save /\ r.flag = a.flag
        /\ r.counter = a.counter
    BY <2>2, <2>3, ReadPipeFacts
  <2> HIDE DEF q, r
  <2>5. hist'.holder = t
    BY Zenon, <1>2, <1>5
  <2>6. TypeOK' /\ TaskInv' /\ FlashInv' /\ CurrentInv'
    BY Zenon, <1>1, <1>2, <1>5, <2>3, <2>4, SessionInv
  <2>7. PipeInv'
    <3>1. \A u \in Tasks : task'[u] = IF u = t THEN r ELSE task[u]
      BY <1>1, <1>5 DEF TypeOK, Become
    <3>2. pipe'.cr = c /\ pipe'.cw = c
      BY <1>5, <2>1, <2>2, <2>4 DEF n
    <3>3. ASSUME NEW u \in Tasks, u # t, task[u].pc = "Serial"
          PROVE  task[u].counter <= c /\ task[u].counter # c
      <4>1. task[u].counter <= pipe.cr /\ task[u].counter \in Nat
        BY <1>1, <3>3, FieldTypes DEF PipeInv
      <4> QED
        BY <1>1, <2>1, <4>1
    <3>4. r.counter = c /\ c <= c
      BY <2>1, <2>3, <2>4
    <3> QED
      BY <2>5, <3>1, <3>2, <3>3, <3>4 DEF PipeInv
  <2>8. ~ (Len(pipe'.fanin) > Len(pipe.fanin))
    BY <1>3, <1>5, <2>2, <2>4
  <2>9. TakerStep
    BY Zenon, <1>1, <1>5, <2>4, <2>5, <2>8, TakerStepFacts
  <2> QED
    BY <2>6, <2>7, <2>9 DEF Inv
<1> QED
  BY <1>4, <1>5 DEF Take

LEMMA StartSerialInv ==
  ASSUME Inv, NEW t \in Tasks, NEW blocked \in BOOLEAN,
         StartSerial(t, blocked)
  PROVE  Inv' /\ TakerStep
<1> DEFINE s == [task[t] EXCEPT !.flag = "none"]
           p == [pipe EXCEPT !.wake = TRUE]
<1>1. TypeOK /\ TaskInv /\ pipe \in TakePipe /\ task[t] \in Task
  BY FieldTypes DEF Inv, TypeOK
<1>2. /\ task[t].pc \in {"Auth", "Flush"}
      /\ task[t].pc = "Flush" => task[t].flag = "serial"
      /\ Take(t, s, p, blocked)
  BY DEF StartSerial, CanLoginConsole
<1>3. budget' \in Budget
  BY <1>1, SpendTyped DEF TypeOK, StartSerial
<1>4. ~ task[t].need_save
  BY <1>1, <1>2, FieldTypes DEF TaskInv
<1>5. /\ s \in Task /\ s.need_save = task[t].need_save /\ s.flag = "none"
      /\ s.got = task[t].got
  BY <1>1 DEF Task
<1>6. /\ p \in TakePipe /\ p.cr = pipe.cr /\ p.cw = pipe.cw
      /\ p.fanin = pipe.fanin
  BY ZenonT(60), <1>1 DEF TakePipe
<1> HIDE DEF s, p
<1> QED
  BY <1>2, <1>3, <1>4, <1>5, <1>6, TakeInv

LEMMA PollTakeInv ==
  ASSUME Inv, NEW t \in Tasks, NEW blocked \in BOOLEAN, PollTake(t, blocked)
  PROVE  Inv' /\ TakerStep
<1>1. /\ TypeOK /\ TaskInv /\ pipe \in TakePipe /\ task[t] \in Task
      /\ budget' \in Budget
  BY FieldTypes DEF Inv, TypeOK, PollTake
<1>2. task[t].pc \in {"TakeR", "TakeW"} /\ Take(t, task[t], pipe, blocked)
  BY DEF PollTake
<1>3. ~ task[t].need_save /\ task[t].flag = "none"
  BY <1>1, <1>2, FieldTypes DEF TaskInv
<1> QED
  BY <1>1, <1>2, <1>3, TakeInv

LEMMA PollWriteInv ==
  ASSUME Inv, NEW t \in Tasks, PollWrite(t)
  PROVE  Inv' /\ TakerStep
<1>1. /\ task[t] \in Task /\ budget' \in Budget /\ task[t].pc = "Serial"
      /\ WriteLoop(t, task[t])
  BY FieldTypes DEF Inv, TypeOK, PollWrite
<1> QED
  BY <1>1, WriteLoopInv

LEMMA ClientLineInv ==
  ASSUME Inv, NEW t \in Tasks, ClientLine(t)
  PROVE  Inv' /\ TakerStep
<1> DEFINE s == [task[t] EXCEPT !.left = LineLen]
<1>1. /\ task[t] \in Task /\ task[t].pc = "Serial" /\ WriteLoop(t, s)
      /\ LineLen \in 0 .. LineLen
  BY FieldTypes, PicoDemoAssumption DEF Inv, ClientLine
<1>2. /\ s \in Task /\ s.pc = task[t].pc /\ s.counter = task[t].counter
      /\ s.need_save = task[t].need_save /\ s.flag = task[t].flag
      /\ s.got = task[t].got
  BY <1>1 DEF Task
<1>3. budget' \in Budget
  BY SpendTyped DEF Inv, TypeOK, ClientLine
<1> HIDE DEF s
<1> QED
  BY <1>1, <1>2, <1>3, WriteLoopInv

\* The fixed end of the pipe, or main(), takes a step: the sessions stay as
\* they are, and nothing is added to what is on its way to the line.
LEMMA FixedEndInv ==
  ASSUME Inv, pipe' \in TakePipe, budget' \in Budget,
         UNCHANGED <<store, task, hist>>,
         pipe'.cr = pipe.cr, pipe'.cw = pipe.cw
  PROVE  Inv'
<1>1. /\ TypeOK /\ TaskInv /\ FlashInv /\ CurrentInv /\ PipeInv
      /\ UNCHANGED <<flash, ram, lock, boot, task, hist>>
  BY DEF Inv, store
<1>2. TypeOK'
  BY <1>1 DEF TypeOK
<1>3. TaskInv'
  BY <1>1 DEF TaskInv, Running
<1>4. FlashInv'
  BY <1>1 DEF FlashInv
<1>5. CurrentInv'
  BY <1>1 DEF CurrentInv, Running, Pending
<1>6. PipeInv'
  BY <1>1 DEF PipeInv
<1> QED
  BY <1>2, <1>3, <1>4, <1>5, <1>6 DEF Inv

LEMMA LineReadsInv ==
  ASSUME Inv, LineReads
  PROVE  Inv' /\ ~ (Len(pipe'.fanin) > Len(pipe.fanin))
<1>1. /\ pipe \in TakePipe /\ pipe.fanin # <<>> /\ budget' \in Budget
      /\ pipe' = [pipe EXCEPT !.fanin = Tail(pipe.fanin)]
      /\ UNCHANGED <<store, task, hist>>
      /\ pipe.fanin \in Fanin /\ FaninSize \in Nat
  BY PipeTypes, PicoDemoAssumption DEF Inv, TypeOK, LineReads
<1> DEFINE f == pipe.fanin
           g == Tail(f)
<1>2. f \in Seq(Tasks) /\ Len(f) <= FaninSize /\ Len(f) \in Nat
  BY <1>1 DEF Fanin
<1>3. g \in Seq(Tasks) /\ Len(g) = Len(f) - 1
  BY <1>1, <1>2
<1>4. Len(g) <= FaninSize /\ ~ (Len(g) > Len(f))
  BY <1>1, <1>2, <1>3
<1>5. g \in Fanin
  BY ZenonT(60), <1>1, <1>3, <1>4 DEF Fanin
<1> HIDE DEF g
<1>6. /\ pipe' \in TakePipe /\ pipe'.cr = pipe.cr /\ pipe'.cw = pipe.cw
      /\ pipe'.fanin = g
  BY ZenonT(60), <1>1, <1>5 DEF TakePipe, g
<1> QED
  BY <1>1, <1>4, <1>6, FixedEndInv

LEMMA LineSendsInv ==
  ASSUME Inv, LineSends
  PROVE  Inv' /\ pipe'.fanin = pipe.fanin
<1> DEFINE n == pipe.fanout + 1
<1>1. /\ pipe \in TakePipe /\ UNCHANGED <<store, task, hist>>
      /\ pipe' = [pipe EXCEPT !.fanout = n]
  BY DEF Inv, TypeOK, LineSends
<1>2. n \in 0 .. FanoutSize
  BY PipeTypes, PicoDemoAssumption DEF Inv, LineSends
<1>3. budget' \in Budget
  BY SpendTyped DEF Inv, TypeOK, LineSends
<1> HIDE DEF n
<1>4. /\ pipe' \in TakePipe /\ pipe'.cr = pipe.cr /\ pipe'.cw = pipe.cw
      /\ pipe'.fanin = pipe.fanin
  BY <1>1, <1>2 DEF TakePipe
<1> QED
  BY <1>1, <1>3, <1>4, FixedEndInv

-----------------------------------------------------------------------------
(* The theorems.                                                           *)

LEMMA InitInv ==
  ASSUME Init
  PROVE  Inv
<1>1. /\ flash = Image(SetUp) /\ ram = NoConfig /\ boot = "Load" /\ lock = Free
      /\ task = [t \in Tasks |-> NewTask] /\ pipe = NewPipe
      /\ hist = [saved |-> SetUp, torn |-> FALSE, lost |-> FALSE,
                 holder |-> Free, crowded |-> FALSE, fresh |-> 1]
      /\ budget \in Budget
  BY PicoDemoAssumption DEF Init
<1>2. SetUp \in SSHConfig /\ SetUp.hostkey = 1 /\ NoConfig \in SSHConfig
  BY ZenonT(60), NewConfigTyped DEF SetUp, SSHConfig, NoConfig, NewConfig
<1>3. SetUp.hostkey > 0
  BY <1>2
<1>4. Image(SetUp) \in FlashImages
  BY <1>2, <1>3, TornUnloadable
<1>5. <<>> \in Fanin
  <2>1. FaninSize \in Nat /\ 0 <= FaninSize
    BY PicoDemoAssumption
  <2>2. <<>> \in Seq(Tasks) /\ Len(<<>>) = 0
    OBVIOUS
  <2> QED
    BY ZenonT(60), <2>1, <2>2 DEF Fanin
<1>6. NewPipe \in TakePipe /\ NewPipe.cr = NewPipe.cw
  BY <1>5, PicoDemoAssumption DEF NewPipe, TakePipe
<1>7. hist \in Hist /\ hist.saved = SetUp /\ ~ hist.torn
  BY <1>1, <1>2 DEF Hist
<1>8. /\ task \in [Tasks -> Task]
      /\ \A t \in Tasks : /\ task[t].pc = "Idle" /\ ~ task[t].need_save
                          /\ task[t].flag = "none"
  BY <1>1, NewTaskTyped DEF NewTask
<1>9. TypeOK
  BY <1>1, <1>2, <1>4, <1>6, <1>7, <1>8 DEF TypeOK
<1>10. TaskInv
  BY <1>1, <1>8, PicoDemoAssumption DEF TaskInv
<1>11. FlashInv
  BY <1>1, <1>3, <1>7, <1>8 DEF FlashInv
<1>12. CurrentInv
  BY <1>1 DEF CurrentInv, Running
<1>13. PipeInv
  BY <1>1, <1>6, <1>8 DEF PipeInv
<1> QED
  BY <1>9, <1>10, <1>11, <1>12, <1>13 DEF Inv

LEMMA StepInv ==
  ASSUME Inv, [Next]_vars
  PROVE  Inv'
<1>1. CASE BootLoad \/ BootCreate
  BY <1>1, BootLoadInv, BootCreateInv
<1>2. ASSUME NEW ok \in BOOLEAN, BootErase(ok) \/ BootSave(ok) PROVE Inv'
  BY <1>2, BootEraseInv, BootSaveInv
<1>3. CASE PowerLoss
  <2>1. budget' \in Budget
    BY <1>3, SpendTyped DEF Inv, TypeOK, PowerLoss
  <2> QED
    BY <1>3, <2>1, RestartInv DEF PowerLoss
<1>4. CASE WatchdogReset
  BY <1>4, RestartInv DEF WatchdogReset, Inv, TypeOK
<1>5. CASE LineReads
  BY <1>5, LineReadsInv
<1>6. CASE LineSends
  BY <1>6, LineSendsInv
<1>7. ASSUME NEW t \in Tasks, Poll(t) PROVE Inv'
  BY <1>7, CloneInv, ProgressInv, SaveLockInv, SaveEraseInv, SaveWriteInv,
     PollWriteInv, ReadLoopInv, PollTakeInv
  DEF Poll, PollRead
<1>8. ASSUME NEW t \in Tasks,
             Accept(t) \/ LoginAdmin(t) \/ Drop(t) \/ SaveError(t)
               \/ ClientLine(t)
      PROVE  Inv'
  BY <1>8, AcceptInv, LoginAdminInv, DropInv, SaveErrorInv, ClientLineInv
<1>9. ASSUME NEW t \in Tasks, NEW cmd \in Commands, Command(t, cmd)
      PROVE  Inv'
  BY <1>9, CommandInv
<1>10. ASSUME NEW t \in Tasks, NEW flag \in {"logout", "reset", "serial"},
              Ask(t, flag)
       PROVE  Inv'
  BY <1>10, AskInv
<1>11. ASSUME NEW t \in Tasks, NEW blocked \in BOOLEAN,
              StartSerial(t, blocked) \/ ChanReady(t, blocked)
       PROVE  Inv'
  BY <1>11, StartSerialInv, ReadLoopInv DEF ChanReady
<1>12. CASE UNCHANGED vars
  <2>1. UNCHANGED <<store, task, hist, pipe, budget>>
    BY <1>12 DEF vars, store
  <2> QED
    BY <2>1, FixedEndInv DEF Inv, TypeOK
<1> QED
  BY <1>1, <1>2, <1>3, <1>4, <1>5, <1>6, <1>7, <1>8, <1>9, <1>10, <1>11,
     <1>12
  DEF Next

LEMMA Invariance == Spec => []Inv
  BY InitInv, StepInv, PTL DEF Spec

\* What the flash holds is what the device runs with, unless a change has yet
\* to be saved or was given up: progress() keeps the mutex of the
\* configuration through save(), with_config() refuses a change meanwhile, and
\* a change that is made is remembered in need_save until then.
THEOREM ConfigurationSaved == Spec => []FlashCurrent
<1>1. Inv => FlashCurrent
  <2> SUFFICES ASSUME Inv PROVE FlashCurrent
    OBVIOUS
  <2>1. TypeOK /\ CurrentInv /\ FlashInv
    BY DEF Inv
  <2>2. CASE Running /\ flash = Image(ram)
    <3>1. ram \in SSHConfig /\ ram.hostkey > 0
      BY <2>1, <2>2 DEF TypeOK, FlashInv, Running
    <3>2. Loadable(flash) /\ flash.config = ram
      BY <2>2, <3>1, TornUnloadable
    <3> QED
      BY <2>1, <3>2 DEF FlashCurrent
  <2>3. CASE ~ Running \/ flash # Image(ram)
    BY <2>1, <2>3 DEF FlashCurrent, CurrentInv, Pending
  <2> QED
    BY <2>2, <2>3
<1> QED
  BY <1>1, Invariance, PTL

\* After a restart at any step, of main() or of a session that is saving, the
\* device has the configuration saved last, or, if a save was broken off or
\* load() cannot read the flash, a new one; load_or_create() never takes up a
\* part of one.
THEOREM ConfigurationKept == Spec => Rebooted
<1> DEFINE Kept == \/ ~ hist.torn /\ ram' = hist.saved
                   \/ /\ hist.torn \/ ReadError
                      /\ ram' = NewConfig(hist.fresh + 1)
           Body == boot = "Load" /\ boot' # "Load" => Kept
<1>1. Inv /\ [Next]_vars => [Body]_vars
  <2> SUFFICES ASSUME Inv, Next, boot = "Load", boot' # "Load"
               PROVE  Kept
    OBVIOUS
  <2>1. BootLoad \/ BootCreate
    <3>1. \A t \in Tasks : task[t].pc = "Idle" /\ ~ Running
      BY DEF Inv, TaskInv, Running
    <3> QED
      BY ZenonT(60), <3>1
      DEF Next, BootErase, BootSave, PowerLoss, WatchdogReset, Restart,
          LineReads, LineSends, Poll, Accept, LoginAdmin, Drop, Command, Ask,
          SaveError, ClientLine, StartSerial, ChanReady, Clone, Progress,
          SaveLock, SaveErase, SaveWrite, PollWrite, PollRead, PollTake,
          CanLoginConsole, store
  <2>2. FlashInv /\ hist.saved \in SSHConfig /\ hist.saved.hostkey > 0
    BY HistTypes DEF Inv, FlashInv
  <2>3. Image(hist.saved).config = hist.saved /\ Loadable(Image(hist.saved))
    BY <2>2, TornUnloadable
  <2>4. CASE BootLoad
    BY <2>2, <2>3, <2>4 DEF FlashInv, BootLoad
  <2>5. CASE BootCreate
    BY <2>2, <2>3, <2>5 DEF FlashInv, BootCreate
  <2> QED
    BY <2>1, <2>4, <2>5
<1> QED
  BY <1>1, Invariance, PTL DEF Spec, Rebooted

\* A step that lets no task read, and puts nothing on its way to the line
LEMMA QuietStep ==
  ASSUME Inv, ~ (Len(pipe'.fanin) > Len(pipe.fanin)),
         \A t \in Tasks : task'[t].got \in {task[t].got, 0}
  PROVE  TakerStep
<1>1. \A t \in Tasks : task[t].got \in Nat
  BY FieldTypes DEF Inv
<1>2. \A t \in Tasks : ~ (task'[t].got > task[t].got)
  BY <1>1
<1> QED
  BY <1>2 DEF TakerStep

LEMMA OneTaskQuiet ==
  ASSUME Inv, NEW t \in Tasks, NEW s, Become(t, s),
         pipe'.fanin = pipe.fanin, s.got \in {task[t].got, 0}
  PROVE  TakerStep
<1>1. task \in [Tasks -> Task] /\ Len(pipe.fanin) \in Nat
  BY PipeTypes, PicoDemoAssumption DEF Fanin, Inv, TypeOK
<1>2. ~ (Len(pipe'.fanin) > Len(pipe.fanin))
  BY <1>1
<1>3. \A u \in Tasks : task'[u].got \in {task[u].got, 0}
  BY <1>1 DEF Become
<1> QED
  BY <1>2, <1>3, QuietStep

LEMMA MenuQuiet ==
  ASSUME Inv, NEW t \in Tasks,
         \/ Accept(t) \/ Clone(t) \/ LoginAdmin(t) \/ Drop(t) \/ Progress(t)
         \/ SaveLock(t) \/ SaveErase(t) \/ SaveWrite(t) \/ SaveError(t)
         \/ \E cmd \in Commands : Command(t, cmd)
         \/ \E flag \in {"logout", "reset", "serial"} : Ask(t, flag)
  PROVE  TakerStep
<1>1. task[t] \in Task /\ NewTask.got = 0
  BY FieldTypes DEF Inv, NewTask
<1>2. ASSUME NEW pc, Goto(t, pc), pipe' = pipe PROVE TakerStep
  <2>1. [task[t] EXCEPT !.pc = pc].got = task[t].got
    BY <1>1 DEF Task
  <2> QED
    BY ZenonT(60), <1>2, <2>1, OneTaskQuiet DEF Goto
<1>3. CASE Accept(t) \/ LoginAdmin(t) \/ SaveLock(t) \/ SaveErase(t)
             \/ SaveWrite(t) \/ SaveError(t)
  BY <1>2, <1>3 DEF Accept, LoginAdmin, SaveLock, SaveErase, SaveWrite,
                    SaveError
<1>4. CASE Clone(t)
  <2>1. [task[t] EXCEPT !.pc = "Auth", !.conf = ram].got = task[t].got
    BY <1>1 DEF Task
  <2> QED
    BY ZenonT(60), <1>4, <2>1, OneTaskQuiet DEF Clone
<1>5. CASE Drop(t)
  <2>1. pipe'.fanin = pipe.fanin
    BY <1>5, ReleasedTyped DEF Drop, Inv, TypeOK
  <2> QED
    BY ZenonT(60), <1>1, <1>5, <2>1, OneTaskQuiet DEF Drop
<1>6. CASE Progress(t)
  <2>1. PICK x : Become(t, IF x = "Idle" THEN NewTask
                           ELSE [task[t] EXCEPT !.pc = x,
                                   !.need_save = FALSE, !.flag = "none"])
    BY ZenonT(60), <1>6 DEF Progress
  <2>2. pipe' = pipe
    BY <1>6 DEF Progress
  <2>3. [task[t] EXCEPT !.pc = x, !.need_save = FALSE, !.flag = "none"].got
          = task[t].got
    BY <1>1 DEF Task
  <2> QED
    BY ZenonT(60), <1>1, <2>1, <2>2, <2>3, OneTaskQuiet
<1>7. ASSUME NEW cmd \in Commands, Command(t, cmd) PROVE TakerStep
  <2>1. pipe' = pipe
    BY <1>7 DEF Command
  <2>2. CASE lock = Free
    <3>1. PICK b : Become(t, [task[t] EXCEPT !.pc = "Flush",
                                            !.need_save = @ \/ b])
      BY ZenonT(60), <1>7, <2>2 DEF Command, WithConfig
    <3>2. [task[t] EXCEPT !.pc = "Flush", !.need_save = @ \/ b].got
            = task[t].got
      BY <1>1 DEF Task
    <3> QED
      BY ZenonT(60), <2>1, <3>1, <3>2, OneTaskQuiet
  <2>3. CASE lock # Free
    BY <1>2, <1>7, <2>1, <2>3 DEF Command
  <2> QED
    BY <2>2, <2>3
<1>8. ASSUME NEW flag, Ask(t, flag) PROVE TakerStep
  <2>1. [task[t] EXCEPT !.pc = "Flush", !.flag = flag].got = task[t].got
    BY <1>1 DEF Task
  <2> QED
    BY ZenonT(60), <1>8, <2>1, OneTaskQuiet DEF Ask
<1> QED
  BY <1>3, <1>4, <1>5, <1>6, <1>7, <1>8

\* Once take() has returned, no session but the one that called it reads a
\* byte of the pipe or writes one: TakeRead and TakeWrite compare their
\* counter with the pipe's under the mutex that take() needs to change it.
THEOREM PipeOwned == Spec => OnlyTheTaker
<1>1. Inv /\ [Next]_vars => [TakerStep]_vars
  <2> SUFFICES ASSUME Inv, Next PROVE TakerStep
    OBVIOUS
  <2>1. Len(pipe.fanin) \in Nat /\ \A t \in Tasks : task[t].got \in Nat
    BY FieldTypes, PipeTypes, PicoDemoAssumption DEF Fanin, Inv
  <2>2. ASSUME \/ BootLoad \/ BootCreate
               \/ \E ok \in BOOLEAN : BootErase(ok) \/ BootSave(ok)
        PROVE  TakerStep
    <3>1. pipe' = pipe /\ task' = task
      BY <2>2 DEF BootLoad, BootCreate, BootErase, BootSave
    <3>2. ~ (Len(pipe'.fanin) > Len(pipe.fanin))
      BY <2>1, <3>1
    <3> QED
      BY <3>1, <3>2, QuietStep
  <2>3. ASSUME PowerLoss \/ WatchdogReset PROVE TakerStep
    <3>1. pipe' = NewPipe /\ task' = [t \in Tasks |-> NewTask]
      BY <2>3 DEF PowerLoss, WatchdogReset, Restart
    <3>2. Len(pipe'.fanin) = 0 /\ \A t \in Tasks : task'[t].got = 0
      BY <3>1 DEF NewPipe, NewTask
    <3>3. ~ (Len(pipe'.fanin) > Len(pipe.fanin))
      BY <2>1, <3>2
    <3> QED
      BY <3>2, <3>3, QuietStep
  <2>4. ASSUME LineReads PROVE TakerStep
    BY <2>4, LineReadsInv, QuietStep DEF LineReads
  <2>5. ASSUME LineSends PROVE TakerStep
    <3>1. ~ (Len(pipe'.fanin) > Len(pipe.fanin))
      BY <2>1, <2>5, LineSendsInv
    <3> QED
      BY <2>5, <3>1, QuietStep DEF LineSends
  <2>6. ASSUME NEW t \in Tasks, Poll(t) PROVE TakerStep
    BY <2>6, MenuQuiet, PollWriteInv, ReadLoopInv, PollTakeInv
    DEF Poll, PollRead
  <2>7. ASSUME NEW t \in Tasks,
               \/ Accept(t) \/ LoginAdmin(t) \/ Drop(t) \/ SaveError(t)
               \/ \E cmd \in Commands : Command(t, cmd)
               \/ \E flag \in {"logout", "reset", "serial"} : Ask(t, flag)
        PROVE  TakerStep
    BY <2>7, MenuQuiet
  <2>8. ASSUME NEW t \in Tasks, NEW blocked \in BOOLEAN,
               ClientLine(t) \/ StartSerial(t, blocked)
                 \/ ChanReady(t, blocked)
        PROVE  TakerStep
    BY <2>8, ClientLineInv, StartSerialInv, ReadLoopInv DEF ChanReady
  <2> QED
    BY ZenonT(60), <2>2, <2>3, <2>4, <2>5, <2>6, <2>7, <2>8 DEF Next
<1> QED
  BY <1>1, Invariance, PTL DEF Spec, OnlyTheTaker, TakerStep
=============================================================================
