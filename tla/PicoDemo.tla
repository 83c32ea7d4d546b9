------------------------------ MODULE PicoDemo ------------------------------
(***************************************************************************)
(* The Pico W demo: SSH sessions and a local menu that share one           *)
(* configuration, kept in RAM and in flash (flashconfig.rs, picowmenu.rs,  *)
(* server.rs), and one serial line, whose far end a session takes over     *)
(* from the one before it (takepipe.rs, main.rs serial()).                 *)
(*                                                                         *)
(* The executor is cooperative: a step is one poll of one task, from an    *)
(* await to the next.  A task that ends, or whose connection ends at any   *)
(* of its awaits, gives back its locks.  Power can be lost between any two *)
(* steps.  hist is auxiliary: what was last saved, what became of it, who  *)
(* took the pipe last.                                                     *)
(***************************************************************************)
EXTENDS Naturals, Sequences, FiniteSets

CONSTANTS
  Conns,       \* the listener tasks, NUM_LISTENERS of them
  FanoutSize,  \* READ_SIZE
  FaninSize,   \* WRITE_SIZE
  LineLen,     \* bytes that an SSH client sends at once
  Commands,    \* the commands of the menu that are used
  Budgets      \* bounds, one of which is chosen for each behaviour

Local == "local"    \* the menu on the second USB interface
Free  == "free"     \* a mutex that nobody holds
Tasks == Conns \cup {Local}

\* the commands of the menus that change the configuration: AUTH_ITEM, then
\* WIFI_ITEM and NET_ITEM
AuthChanges == {"admin_pw", "clear_admin_pw", "console_pw",
                "clear_console_pw", "noauth_yes", "noauth_no"}
NetChanges  == {"net"}
Changes     == AuthChanges \cup NetChanges \cup {"erase_config"}

\* conns: connections accepted.  changes: menu commands that may change the
\* configuration, and resets.  faults: losses of power and flash errors.
\* takes: sessions that take the pipe.  ins: lines that SSH clients send to
\* the serial line.  outs: bytes that the serial line sends.
Budget == [conns: Nat, changes: Nat, faults: Nat, takes: Nat, ins: Nat,
           outs: Nat]

ASSUME PicoDemoAssumption ==
  /\ Local \notin Conns /\ Free \notin Tasks
  /\ FanoutSize \in Nat \ {0} /\ FaninSize \in Nat \ {0}
  /\ LineLen \in Nat \ {0} /\ Commands \subseteq Changes
  /\ Budgets \subseteq Budget

VARIABLES
  flash,   \* what the configuration's flash sector holds
  ram,     \* PicoDemo::config
  lock,    \* who holds its mutex, and so also that of PicoDemo::flash
  boot,    \* where main() is
  task,    \* task[t]: one session
  pipe,    \* the TakePipe of the serial line
  hist,
  budget   \* what is left of the bounds

vars == <<flash, ram, lock, boot, task, pipe, hist, budget>>

-----------------------------------------------------------------------------
(* The configuration.                                                      *)

\* A key or a salted password hash is a number never used before, 0 for None.
\* net stands for the wifi and address settings.
SSHConfig == [hostkey: Nat, admin_pw: Nat, console_pw: Nat,
              console_noauth: BOOLEAN, net: Nat]

NewConfig(n) == [hostkey |-> n, admin_pw |-> 0, console_pw |-> 0,
                 console_noauth |-> FALSE, net |-> 0]

NoConfig == NewConfig(0)

\* FlashConfig: a configuration and the one its hash was made of.  An erased
\* sector, or one not written to its end, fails the hash.
Image(c) == [config |-> c, hash |-> c]
Erased   == [config |-> NoConfig, hash |-> NewConfig(1)]
Torn(c)  == [config |-> [c EXCEPT !.hostkey = 0], hash |-> c]

FlashImages == [config: SSHConfig, hash: SSHConfig]

\* mutant: the version is checked, the hash is not
LoadableNoHash(f) == f.config # NoConfig
Loadable(f) == f.config = f.hash

\* what their handlers do to it
NetChange(c, n) == [c EXCEPT !.net = n]

Change(c, cmd, n) ==
  CASE cmd = "admin_pw"         -> [c EXCEPT !.admin_pw = n]
    [] cmd = "clear_admin_pw"   -> [c EXCEPT !.admin_pw = 0]
    [] cmd = "console_pw"       -> [c EXCEPT !.console_pw = n]
    [] cmd = "clear_console_pw" -> [c EXCEPT !.console_pw = 0]
    [] cmd = "noauth_yes"       -> [c EXCEPT !.console_noauth = TRUE]
    [] cmd = "noauth_no"        -> [c EXCEPT !.console_noauth = FALSE]
    [] cmd \in NetChanges       -> NetChange(c, n)
    [] cmd = "erase_config"     -> NewConfig(n)

-----------------------------------------------------------------------------
(* State.                                                                  *)

\* Idle: not connected.  Clone: in session(), waiting for the configuration.
\* Auth: not logged in yet.  Menu: waiting for a key.  Flush: a key has been
\* handled.  Lock, Erase, Write: saving.  Reset: the watchdog is set.  TakeR,
\* TakeW: in take(), waiting for one of its mutexes.  Serial: in serial().
PCs == {"Idle", "Clone", "Auth", "Menu", "Flush", "Lock", "Erase", "Write",
        "Reset", "TakeR", "TakeW", "Serial"}

\* flag: what the last key asks of MenuCtx::progress.  r: the loop of serial()
\* that reads the pipe waits for its mutex, for a byte (holding the mutex) or
\* for the SSH channel.  w: the loop that writes it waits for the SSH channel,
\* for the mutex or for room.  got: bytes read.
Task == [pc: PCs, conf: SSHConfig, need_save: BOOLEAN,
         flag: {"none", "logout", "reset", "serial"}, counter: Nat,
         r: {"Lock", "Pipe", "Chan"}, w: {"Chan", "Lock", "Pipe"},
         left: 0 .. LineLen, got: Nat]

NewTask == [pc |-> "Idle", conf |-> NoConfig, need_save |-> FALSE,
            flag |-> "none", counter |-> 0, r |-> "Lock", w |-> "Chan",
            left |-> 0, got |-> 0]

\* who wrote each byte on its way to the line
Fanin == {q \in Seq(Tasks) : Len(q) <= FaninSize}

\* fanout: bytes on their way from the line
TakePipe == [rlock: Tasks \cup {Free}, wlock: Tasks \cup {Free}, cr: Nat,
             cw: Nat, wake: BOOLEAN, fanout: 0 .. FanoutSize,
             fanin: Fanin]

NewPipe == [rlock |-> Free, wlock |-> Free, cr |-> 0, cw |-> 0,
            wake |-> FALSE, fanout |-> 0, fanin |-> <<>>]

\* saved: the configuration last written in full.  torn: the sector has been
\* erased since.  lost: a change of the configuration will not be saved, as
\* its session is gone or saving failed.  holder: who took the pipe last.
\* crowded: take() was called with two sessions at the pipe, or with one that
\* was taking it.
Hist == [saved: SSHConfig, torn: BOOLEAN, lost: BOOLEAN,
         holder: Tasks \cup {Free}, crowded: BOOLEAN, fresh: Nat]

Spend(what) == /\ budget[what] > 0
               /\ budget' = [budget EXCEPT ![what] = @ - 1]

\* a task gives back what it holds
Unlock(t) == lock' = IF lock = t THEN Free ELSE lock

Released(p, t) == [p EXCEPT !.rlock = IF @ = t THEN Free ELSE @,
                            !.wlock = IF @ = t THEN Free ELSE @]

Become(t, s) == task' = [task EXCEPT ![t] = s]
Goto(t, pc) == Become(t, [task[t] EXCEPT !.pc = pc])

Running == boot = "Run"

store == <<flash, ram, lock, boot>>

-----------------------------------------------------------------------------
(* main(): loading the configuration, or making a new one.                 *)

\* load() finds a good configuration
BootLoad ==
  /\ boot = "Load" /\ Loadable(flash)
  /\ ram' = flash.config /\ boot' = "Run"
  /\ UNCHANGED <<flash, hist, lock, task, pipe, budget>>

\* flash error: load() cannot read the sector, whatever it holds
ReadError == boot = "Load" /\ Spend("faults")

\* load() fails, and load_or_create() goes on to create()
BootCreate ==
  /\ boot = "Load" /\ boot' = "Erase"
  /\ \/ ~ Loadable(flash) /\ UNCHANGED budget
     \/ ReadError
  /\ ram' = NewConfig(hist.fresh + 1)
  /\ hist' = [hist EXCEPT !.fresh = @ + 1]
  /\ UNCHANGED <<flash, lock, task, pipe>>

\* the two halves of save() in create(), which goes on with the new
\* configuration even if it cannot be saved
BootErase(ok) ==
  /\ boot = "Erase"
  /\ IF ok
       THEN /\ boot' = "Save" /\ flash' = Erased
            /\ hist' = [hist EXCEPT !.torn = TRUE]
            /\ UNCHANGED budget
       ELSE /\ boot' = "Run" /\ flash' \in {flash, Erased}
            /\ hist' = [hist EXCEPT !.lost = TRUE, !.torn = @ \/ flash' # flash]
            /\ Spend("faults")
  /\ UNCHANGED <<ram, lock, task, pipe>>

BootSave(ok) ==
  /\ boot = "Save" /\ boot' = "Run"
  /\ IF ok
       THEN /\ flash' = Image(ram)
            /\ hist' = [hist EXCEPT !.saved = ram, !.torn = FALSE,
                                    !.lost = FALSE]
            /\ UNCHANGED budget
       ELSE /\ flash' \in {flash, Torn(ram)}
            /\ hist' = [hist EXCEPT !.lost = TRUE]
            /\ Spend("faults")
  /\ UNCHANGED <<ram, lock, task, pipe>>

\* what the sector may hold when writing it is broken off
Interrupted ==
  IF boot = "Save" \/ \E t \in Tasks : task[t].pc = "Write"
    THEN {flash, Torn(ram)} ELSE {flash}

Restart ==
  /\ flash' \in Interrupted
  /\ boot' = "Load" /\ lock' = Free /\ pipe' = NewPipe
  /\ task' = [t \in Tasks |-> NewTask]
  /\ hist' = [hist EXCEPT !.lost = FALSE, !.holder = Free]
  /\ UNCHANGED ram

\* any time, also while main() starts
PowerLoss == Spend("faults") /\ Restart

\* do_reset(): the watchdog fires
WatchdogReset ==
  /\ \E t \in Tasks : task[t].pc = "Reset"
  /\ Restart
  /\ UNCHANGED budget

-----------------------------------------------------------------------------
(* Sessions.                                                               *)

\* listen() and menu_if02_run(): a connection, or a key on the local menu
Accept(t) ==
  /\ Running /\ task[t].pc = "Idle" /\ Spend("conns")
  /\ Goto(t, "Clone")
  /\ UNCHANGED <<store, pipe, hist>>

\* the session works on a copy of the configuration from here on
Clone(t) ==
  /\ task[t].pc = "Clone" /\ lock = Free
  /\ Become(t, [task[t] EXCEPT !.pc = "Auth", !.conf = ram])
  /\ UNCHANGED <<store, pipe, hist, budget>>

\* handle_firstauth() and handle_password(), run() for the user "config"; the
\* local menu asks for a password only if there is one
LoginAdmin(t) ==
  /\ task[t].pc = "Auth"
  /\ t = Local \/ task[t].conf.admin_pw # 0
  /\ Goto(t, "Menu")
  /\ UNCHANGED <<store, pipe, hist, budget>>

CanLoginConsole(t) ==
  /\ task[t].pc = "Auth" /\ t # Local
  /\ task[t].conf.console_noauth \/ task[t].conf.console_pw # 0

\* the connection ends, or the local terminal is closed, which does not break
\* off a save: the task is then not waiting for the terminal
Gone(t) ==
  [hist EXCEPT !.lost = @ \/ task[t].need_save
                          \/ task[t].pc \in {"Lock", "Erase", "Write"}]

Drop(t) ==
  /\ task[t].pc \notin {"Idle", "Clone", "Reset"}
  /\ t = Local => task[t].pc \in {"Auth", "Menu", "Flush"}
  /\ flash' \in (IF task[t].pc = "Write" THEN Interrupted ELSE {flash})
  /\ Become(t, NewTask)
  /\ Unlock(t) /\ pipe' = Released(pipe, t)
  /\ hist' = Gone(t)
  /\ UNCHANGED <<ram, boot, budget>>

-----------------------------------------------------------------------------
(* menu() and MenuCtx.                                                     *)

\* with_config(), the mutex being free
WithConfig(t, cmd) ==
  LET c == Change(ram, cmd, hist.fresh + 1) IN
  /\ ram' = c
  /\ Become(t, [task[t] EXCEPT !.pc = "Flush", !.need_save = @ \/ c # ram])

\* a command of the menu that changes the configuration; with its mutex taken
\* it does nothing but say so
Command(t, cmd) ==
  /\ task[t].pc = "Menu" /\ Spend("changes")
  /\ IF lock = Free
       THEN /\ WithConfig(t, cmd)
            /\ hist' = [hist EXCEPT !.fresh = @ + 1]
       ELSE /\ Goto(t, "Flush")
            /\ UNCHANGED <<ram, hist>>
  /\ UNCHANGED <<flash, lock, boot, pipe>>

\* do_logout(), do_reset(), do_usb1()
Ask(t, flag) ==
  /\ task[t].pc = "Menu"
  /\ CASE flag = "reset"  -> Spend("changes")
       [] flag = "serial" -> budget.takes > 0 /\ UNCHANGED budget
       [] OTHER           -> UNCHANGED budget
  /\ Become(t, [task[t] EXCEPT !.pc = "Flush", !.flag = flag])
  /\ UNCHANGED <<store, pipe, hist>>

\* progress(), when the output of the key has been sent.  One key sets one
\* flag; "serial can't loop" on the local menu.
Progress(t) ==
  LET s == task[t]
      pc == CASE s.need_save -> "Lock"
              [] s.flag = "logout" -> "Idle"
              [] s.flag = "reset" -> "Reset"
              [] OTHER -> "Menu"
  IN /\ s.pc = "Flush" /\ ~ (s.flag = "serial" /\ t # Local)
     /\ Become(t, IF pc = "Idle" THEN NewTask
                  ELSE [s EXCEPT !.pc = pc, !.need_save = FALSE,
                                 !.flag = "none"])
     /\ UNCHANGED <<store, pipe, hist, budget>>

SaveLock(t) ==
  /\ task[t].pc = "Lock" /\ lock = Free
  /\ lock' = t /\ Goto(t, "Erase")
  /\ UNCHANGED <<flash, ram, boot, pipe, hist, budget>>

\* the first half of save()
SaveErase(t) ==
  /\ task[t].pc = "Erase"
  /\ flash' = Erased /\ hist' = [hist EXCEPT !.torn = TRUE]
  /\ Goto(t, "Write")
  /\ UNCHANGED <<ram, lock, boot, pipe, budget>>

\* mutant: the copy made when the session began is saved
SaveWriteCopy(t) ==
  /\ task[t].pc = "Write"
  /\ flash' = Image(task[t].conf)
  /\ hist' = [hist EXCEPT !.saved = ram, !.torn = FALSE, !.lost = FALSE]
  /\ Goto(t, "Menu") /\ Unlock(t)
  /\ UNCHANGED <<ram, boot, pipe, budget>>

\* and the second
SaveWrite(t) ==
  /\ task[t].pc = "Write"
  /\ flash' = Image(ram)
  /\ hist' = [hist EXCEPT !.saved = ram, !.torn = FALSE, !.lost = FALSE]
  /\ Goto(t, "Menu") /\ Unlock(t)
  /\ UNCHANGED <<ram, boot, pipe, budget>>

\* flash error: save() returns, and progress() has cleared need_save already
SaveError(t) ==
  /\ task[t].pc \in {"Erase", "Write"} /\ Spend("faults")
  /\ flash' \in Interrupted \cup {Erased}
  /\ hist' = [hist EXCEPT !.lost = TRUE, !.torn = @ \/ flash' # flash]
  /\ Goto(t, "Menu") /\ Unlock(t)
  /\ UNCHANGED <<ram, boot, pipe>>

-----------------------------------------------------------------------------
(* TakePipe and serial().                                                  *)

\* TakeRead::read() by t: the bytes there are, or EOF, or nothing yet; it is
\* the mutex, then the counter, then the pipe, and the signal only if there
\* was nothing
CanRead(p, t)  == p.rlock \in {Free, t}
CanWrite(p, t) == p.wlock \in {Free, t}

\* mutant: the counter is not looked at
ReadEofNoCounter(p, s, t) == p.wake /\ (~ CanRead(p, t) \/ p.fanout = 0)

ReadEof(p, s, t) ==
  \/ CanRead(p, t) /\ p.cr # s.counter
  \/ p.wake /\ (~ CanRead(p, t) \/ p.fanout = 0)

\* the reading loop of serial(): what was read goes to the channel, which may
\* have no room; if it has, the loop is back in read() in the same poll
ReadPipe(p, s, t, blocked) ==
  CASE CanRead(p, t) /\ p.fanout > 0 /\ blocked ->
         <<[p EXCEPT !.fanout = 0, !.rlock = Free],
           [s EXCEPT !.r = "Chan", !.got = @ + p.fanout]>>
    [] CanRead(p, t) /\ (p.fanout = 0 \/ ~ blocked) ->
         <<[p EXCEPT !.fanout = 0, !.rlock = t],
           [s EXCEPT !.r = "Pipe", !.got = @ + p.fanout]>>
    [] OTHER -> <<p, [s EXCEPT !.r = "Lock"]>>

\* serial() ends with either loop, and the session with it
EndSerial(p, t) ==
  /\ pipe' = Released(p, t) /\ Become(t, NewTask)

ReadLoop(t, blocked) ==
  LET s == task[t]
      res == ReadPipe(pipe, s, t, blocked)
  IN /\ IF ReadEof(pipe, s, t)
          THEN EndSerial([pipe EXCEPT !.wake = @ /\ CanRead(pipe, t)
                                            /\ pipe.cr # s.counter], t)
          ELSE pipe' = res[1] /\ Become(t, res[2])
     /\ UNCHANGED <<store, hist, budget>>

PollRead(t, blocked) ==
  /\ task[t].pc = "Serial" /\ task[t].r # "Chan"
  /\ ReadLoop(t, blocked)

\* the channel has taken everything, and the loop reads on
ChanReady(t, blocked) ==
  /\ task[t].pc = "Serial" /\ task[t].r = "Chan"
  /\ ReadLoop(t, blocked)

\* TakeWrite::write(), called by write_all() until nothing is left
Room(p) == FaninSize - Len(p.fanin)

WriteEof(p, s, t) ==
  \/ CanWrite(p, t) /\ p.cw # s.counter
  \/ p.wake /\ (~ CanWrite(p, t) \/ Room(p) = 0)

WritePipe(p, s, t) ==
  LET n == IF s.left < Room(p) THEN s.left ELSE Room(p)
      more == s.left > n
  IN IF ~ CanWrite(p, t) THEN <<p, [s EXCEPT !.w = "Lock"]>>
     ELSE <<[p EXCEPT !.fanin = @ \o [i \in 1 .. n |-> t],
                      !.wlock = IF more THEN t ELSE Free],
            [s EXCEPT !.left = @ - n, !.w = IF more THEN "Pipe" ELSE "Chan"]>>

WriteLoop(t, s) ==
  LET res == WritePipe(pipe, s, t)
  IN /\ IF WriteEof(pipe, s, t)
          THEN EndSerial([pipe EXCEPT !.wake = @ /\ CanWrite(pipe, t)
                                            /\ pipe.cw # s.counter], t)
          ELSE pipe' = res[1] /\ Become(t, res[2])
     /\ UNCHANGED <<store, hist>>

PollWrite(t) ==
  /\ task[t].pc = "Serial" /\ task[t].w # "Chan"
  /\ WriteLoop(t, task[t])
  /\ UNCHANGED budget

\* the writing loop of serial() is given a line by the SSH client; at the end
\* of the client's input it ends, as in Drop
ClientLine(t) ==
  /\ task[t].pc = "Serial" /\ task[t].w = "Chan" /\ Spend("ins")
  /\ WriteLoop(t, [task[t] EXCEPT !.left = LineLen])

Taking(t) == task[t].pc \in {"TakeR", "TakeW"}
Others(t) == {u \in Tasks \ {t} : Taking(u) \/ task[u].pc = "Serial"}

Taken(t, p) ==
  [hist EXCEPT !.holder = IF p.rlock \in {Free, t} /\ p.wlock = Free
                            THEN t ELSE @,
               !.crowded = \/ @ \/ Cardinality(Others(t)) > 1
                           \/ \E u \in Others(t) : Taking(u)]

\* mutant: the signal is reset before the mutexes are waited for
TakeResetsFirst(t, s, p, blocked) ==
  LET done == [p EXCEPT !.cr = @ + 1, !.cw = @ + 1]
      res == ReadPipe(done, [s EXCEPT !.pc = "Serial", !.counter = done.cr],
                      t, blocked)
  IN /\ IF p.rlock \notin {Free, t}
          THEN /\ pipe' = [p EXCEPT !.wake = FALSE]
               /\ Become(t, [s EXCEPT !.pc = "TakeR"])
        ELSE IF p.wlock # Free
          THEN /\ pipe' = [p EXCEPT !.rlock = t, !.wake = FALSE]
               /\ Become(t, [s EXCEPT !.pc = "TakeW"])
          ELSE pipe' = res[1] /\ Become(t, res[2])
     /\ hist' = Taken(t, p)
     /\ UNCHANGED store

\* take() after the signal, and then the first poll of the reading loop
Take(t, s, p, blocked) ==
  LET done == [p EXCEPT !.cr = @ + 1, !.cw = @ + 1, !.wake = FALSE,
                        !.rlock = Free]
      res == ReadPipe(done, [s EXCEPT !.pc = "Serial", !.counter = done.cr],
                      t, blocked)
  IN /\ IF p.rlock \notin {Free, t}
          THEN pipe' = p /\ Become(t, [s EXCEPT !.pc = "TakeR"])
        ELSE IF p.wlock # Free
          THEN /\ pipe' = [p EXCEPT !.rlock = t]
               /\ Become(t, [s EXCEPT !.pc = "TakeW"])
          ELSE pipe' = res[1] /\ Become(t, res[2])
     /\ hist' = Taken(t, p)
     /\ UNCHANGED store

\* do_usb1() in the menu, or a login as anyone but "config"
StartSerial(t, blocked) ==
  /\ \/ task[t].pc = "Flush" /\ task[t].flag = "serial" /\ t # Local
     \/ CanLoginConsole(t)
  /\ Take(t, [task[t] EXCEPT !.flag = "none"],
          [pipe EXCEPT !.wake = TRUE], blocked)
  /\ Spend("takes")

PollTake(t, blocked) ==
  /\ task[t].pc \in {"TakeR", "TakeW"}
  /\ Take(t, task[t], pipe, blocked)
  /\ UNCHANGED budget

\* the fixed end of the pipe: console_if00_run() or serial.rs task()
LineReads ==
  /\ Running /\ pipe.fanin # <<>>
  /\ pipe' = [pipe EXCEPT !.fanin = Tail(@)]
  /\ UNCHANGED <<store, task, hist, budget>>

LineSends ==
  /\ Running /\ pipe.fanout < FanoutSize /\ Spend("outs")
  /\ pipe' = [pipe EXCEPT !.fanout = @ + 1]
  /\ UNCHANGED <<store, task, hist>>

-----------------------------------------------------------------------------
\* a device that has been set up, with both kinds of login
SetUp == [NewConfig(1) EXCEPT !.admin_pw = 1, !.console_noauth = TRUE]

Init ==
  /\ flash = Image(SetUp) /\ ram = NoConfig /\ boot = "Load" /\ lock = Free
  /\ task = [t \in Tasks |-> NewTask] /\ pipe = NewPipe
  /\ hist = [saved |-> SetUp, torn |-> FALSE, lost |-> FALSE,
             holder |-> Free, crowded |-> FALSE, fresh |-> 1]
  /\ budget \in Budgets

Poll(t) ==
  \/ Clone(t)
  \/ Progress(t)
  \/ SaveLock(t)
  \/ SaveErase(t)
  \/ SaveWrite(t)
  \/ PollWrite(t)
  \/ \E blocked \in BOOLEAN : PollRead(t, blocked) \/ PollTake(t, blocked)

Next ==
  \/ BootLoad \/ BootCreate
  \/ \E ok \in BOOLEAN : BootErase(ok) \/ BootSave(ok)
  \/ PowerLoss
  \/ WatchdogReset
  \/ LineReads
  \/ LineSends
  \/ \E t \in Tasks :
       \/ Poll(t)
       \/ Accept(t)
       \/ LoginAdmin(t)
       \/ Drop(t)
       \/ \E cmd \in Commands : Command(t, cmd)
       \/ \E flag \in {"logout", "reset", "serial"} : Ask(t, flag)
       \/ SaveError(t)
       \/ ClientLine(t)
       \/ \E blocked \in BOOLEAN : StartSerial(t, blocked)
                                   \/ ChanReady(t, blocked)

Spec == Init /\ [][Next]_vars

\* The executor polls every task that is woken, and flash operations end.
\* Users, the channel's room and the serial line may stop for ever.
Fairness ==
  /\ WF_vars(BootLoad) /\ WF_vars(BootCreate)
  /\ WF_vars(BootErase(TRUE)) /\ WF_vars(BootSave(TRUE))
  /\ \A t \in Tasks : WF_vars(Poll(t))

FairSpec == Spec /\ Fairness

-----------------------------------------------------------------------------
(* Properties.                                                             *)

\* The configuration, the tasks and the pipe stay in their domains; the
\* pipe's buffers hold no more than their sizes.
TypeOK ==
  /\ flash \in FlashImages /\ ram \in SSHConfig
  /\ lock \in Tasks \cup {Free} /\ boot \in {"Load", "Erase", "Save", "Run"}
  /\ task \in [Tasks -> Task] /\ pipe \in TakePipe /\ hist \in Hist
  /\ budget \in Budget

\* The flash holds the configuration the device runs with, unless a session
\* has yet to save a change or a change was given up: two menus that change
\* and save at the same time do not leave the older of their configurations
\* in flash, as progress() keeps the mutex of the configuration through
\* save() and with_config() refuses a change meanwhile.
FlashCurrent ==
  /\ TypeOK
  /\ Running /\ ~ hist.lost =>
       \/ Loadable(flash) /\ flash.config = ram
       \/ \E t \in Tasks : \/ task[t].need_save
                          \/ task[t].pc \in {"Lock", "Erase", "Write"}

\* After a restart, by power loss or by the watchdog, at whatever step, the
\* device runs with the configuration it last saved in full, host key
\* included, or with an entirely new one (load_or_create), and that only if a
\* save was broken off since or load() could not read the flash, which costs
\* a good configuration; never with a part of one.
Rebooted ==
  [][boot = "Load" /\ boot' # "Load" =>
       \/ ~ hist.torn /\ ram' = hist.saved
       \/ /\ hist.torn \/ ReadError
          /\ ram' = NewConfig(hist.fresh + 1)]_vars

\* Once take() has returned, the session that had the pipe before neither
\* reads nor writes another byte of it, also when it was in the middle of
\* either: what goes each way belongs to the session that took it last.
OnlyTheTaker ==
  [][\A t \in Tasks :
       \/ task'[t].got > task[t].got
       \/ /\ Len(pipe'.fanin) > Len(pipe.fanin)
          /\ pipe'.fanin[Len(pipe'.fanin)] = t
       => hist'.holder = t]_vars

\* A session that takes the pipe gets it from the one that has it, even if
\* the line is silent and takes nothing: the signal ends the read or the
\* write that holds a mutex take() waits for.  Stated for sessions that take
\* it one after the other: of three at once, the signal of one can end
\* another than the one that has the pipe, or be reset by it.
TakerServed ==
  \A t \in Tasks : Taking(t) ~> (~ Taking(t) \/ hist.crowded)
=============================================================================
