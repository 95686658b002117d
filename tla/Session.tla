------------------------------- MODULE Session -------------------------------
(***************************************************************************)
(* A receive session as a whole: normal_rx_routine (menu.c) starts all     *)
(* threads, waits for X or the end of the input, and stops the threads;    *)
(* kill_all (ui.c) does so when ESC is pressed or a thread calls lirerr.   *)
(* The keyboard is a thread too, with a ring of keys and one event.        *)
(*                                                                         *)
(* Each processing thread is reduced to what the session sees of it: it    *)
(* starts, reports its status, and returns when it is told to.  What holds *)
(* a thread up in between is in ScreenControl, RxOutput and Fft1Pool.      *)
(***************************************************************************)
EXTENDS Integers, SequencesExt

CONSTANTS
  KeyboardSize,  \* KEYBOARD_BUFFER_SIZE
  Setups,        \* sets of threads that take part beside those of Always
  Faulty,        \* threads that may call lirerr
  Disturbances   \* "absent": the input device never appears

Threads == {"USER", "NARROWBAND", "WIDEBAND", "SCREEN", "SERVER", "INPUT", "OUTPUT",
            "TX_OUTPUT", "TX_INPUT"}
Always  == {"USER", "NARROWBAND", "WIDEBAND", "INPUT", "OUTPUT"}
Keys    == {"X", "other", "none"}

\* t in a list, if it takes part.
InUse(t, s) == IF t \in s THEN <<t>> ELSE <<>>

\* Threads that are started before the inputs; the rest follows one by one.
StartOrder(s) ==
  <<"USER", "NARROWBAND", "WIDEBAND">> \o InUse("SCREEN", s) \o InUse("SERVER", s)

\* Mutant: the transmitter is stopped whether it is in use or not.
StopOrderTx(s) ==
  <<"TX_INPUT">> \o InUse("TX_OUTPUT", s) \o <<"OUTPUT", "INPUT">> \o InUse("SCREEN", s)
    \o <<"NARROWBAND">> \o InUse("SERVER", s) \o <<"WIDEBAND">>

StopOrder(s) ==
  InUse("TX_INPUT", s) \o InUse("TX_OUTPUT", s) \o <<"OUTPUT", "INPUT">> \o InUse("SCREEN", s)
    \o <<"NARROWBAND">> \o InUse("SERVER", s) \o <<"WIDEBAND">>

\* The transmitter has two threads or, if use_tx is 0, none.
ASSUME SessionAssumption ==
  /\ KeyboardSize \in Nat \ {0} /\ Setups \subseteq SUBSET (Threads \ Always)
  /\ \A s \in Setups : "TX_INPUT" \in s <=> "TX_OUTPUT" \in s
  /\ Faulty \subseteq Threads \ {"USER"} /\ Disturbances \subseteq {"absent"}

VARIABLES
  cmd, status, tpc,     \* of the threads: command, status, where it is
  setup,                \* of this session
  mpc, todo,            \* main thread: where it is, threads still to start or stop
  all_threads_started,
  kill_all_flag, kill_event, lir_errcod,
  kpc,                  \* where the thread kill_all is
  keys,                 \* unread keys of keyboard_buffer
  key_event,            \* EVENT_KEYBOARD
  kbd                   \* where the keyboard thread is

threads  == <<cmd, status, tpc>>
main     == <<mpc, todo, all_threads_started, setup>>
killer   == <<kpc, kill_all_flag>>
errors   == <<kill_event, lir_errcod>>
keyboard == <<keys, key_event, kbd>>
vars     == <<threads, main, killer, errors, keyboard>>

TypeOK ==
  /\ cmd \in [Threads -> {"NOT_ACTIVE", "ACTIVE", "IDLE", "SEMCLEAR", "KILL"}]
  /\ status \in [Threads -> {"NOT_ACTIVE", "INIT", "ACTIVE", "IDLE", "SEMCLEAR",
                             "SEM_WAIT", "RETURNED"}]
  /\ tpc \in [Threads -> {"none", "init", "run", "store", "held", "spin", "ended"}]
  /\ setup \in Setups /\ all_threads_started \in BOOLEAN
  /\ mpc \in {"menu", "create", "ready", "create_in", "create_out",
              "out_active", "stop_out", "out_idle", "out_semclear", "tx_output", "tx_input",
              "started", "in_active", "loop", "join_user", "stop", "stop_wait",
              "stop_join", "free", "clear", "clear_wait", "prompt", "end"}
  /\ \A t \in ToSet(todo) : t \in Threads
  /\ kill_all_flag \in BOOLEAN /\ kill_event \in BOOLEAN
  /\ lir_errcod \in {"none", "765934"} \cup Faulty
  /\ kpc \in {"await", "sleep", "round", "done"}
  /\ keys \in Seq(Keys) /\ Len(keys) < KeyboardSize
  /\ key_event \in BOOLEAN
  /\ kbd \in {"get", "set", "esc", "dead"}

Init ==
  /\ cmd = [t \in Threads |-> "NOT_ACTIVE"] /\ status = cmd
  /\ tpc = [t \in Threads |-> "none"]
  /\ setup \in Setups /\ mpc = "menu" /\ todo = <<>> /\ all_threads_started = FALSE
  /\ kill_all_flag = FALSE /\ kill_event = FALSE /\ lir_errcod = "none"
  /\ kpc = "await"
  /\ keys = <<>> /\ key_event = FALSE /\ kbd = "get"
-----------------------------------------------------------------------------
(* The keyboard                                                             *)

\* Mutant: the ring takes in one key more than it has room for.
PushPastEnd(k) == keys' = Append(keys, k)

\* A ring that is full looks empty.
Push(k) == keys' = IF Len(keys) + 1 = KeyboardSize THEN <<>> ELSE Append(keys, k)

\* A key is stored, whether the one before has been read or not, and the event is
\* set 10 ms later.  Nothing is pressed any more when the program is about to end.
KeyPress ==
  /\ kbd = "get" /\ ~kill_all_flag /\ kbd' = "set"
  /\ \E k \in {"X", "other"} : Push(k)
  /\ UNCHANGED <<threads, main, killer, errors, key_event>>

KeyEvent ==
  /\ kbd = "set" /\ kbd' = "get" /\ key_event' = TRUE
  /\ UNCHANGED <<threads, main, killer, errors, keys>>

EscPress ==
  /\ kbd = "get" /\ kbd' = "esc" /\ ~kill_all_flag /\ kill_event' = TRUE
  /\ UNCHANGED <<threads, main, killer, lir_errcod, keys, key_event>>

\* Mutant: no key follows, so that nobody who waits for one is woken up.
EscKeyMissing ==
  /\ kbd = "esc" /\ kill_all_flag /\ kbd' = "dead"
  /\ UNCHANGED <<threads, main, killer, errors, keys, key_event>>

\* When kill_all has begun, a key for those who wait for one.
EscKey ==
  /\ kbd = "esc" /\ kill_all_flag /\ kbd' = "dead"
  /\ Push("none") /\ key_event' = TRUE
  /\ UNCHANGED <<threads, main, killer, errors>>

TakeKey  == keys # <<>> /\ keys' = Tail(keys) /\ UNCHANGED kbd
AwaitKey == key_event /\ key_event' = FALSE
-----------------------------------------------------------------------------
(* The processing threads                                                   *)

Status(t, s) == status' = [status EXCEPT ![t] = s]
Goto(t, p)   == tpc' = [tpc EXCEPT ![t] = p]

\* What a thread reports when it is ready.
Ready == [t \in Threads |-> IF t = "NARROWBAND" THEN "SEM_WAIT" ELSE "ACTIVE"]

\* WIDEBAND is not ready before the first samples have come.
Begin(t) ==
  /\ tpc[t] = "init" /\ ~ (t = "INPUT" /\ "absent" \in Disturbances)
  /\ t = "WIDEBAND" => tpc["INPUT"] \in {"run", "store", "held"}
  /\ Goto(t, "run") /\ Status(t, Ready[t])
  /\ UNCHANGED <<cmd, main, killer, errors, keyboard>>

\* The output is led to its first pause, and from there to its wait.
Output ==
  /\ tpc["OUTPUT"] = "run"
  /\ \/ cmd["OUTPUT"] = "IDLE" /\ status["OUTPUT"] = "ACTIVE"
     \/ cmd["OUTPUT"] = "SEMCLEAR" /\ status["OUTPUT"] = "IDLE"
  /\ Status("OUTPUT", cmd["OUTPUT"])
  /\ UNCHANGED <<cmd, tpc, main, killer, errors, keyboard>>

\* Mutant: lirerr does not look at kill_all_flag.
ErrTestBlind(t) ==
  /\ t \in Faulty /\ tpc[t] = "run" /\ Goto(t, "store")
  /\ UNCHANGED <<cmd, status, main, killer, errors, keyboard>>

\* lirerr: what comes after kill_all_flag is not worth a code.
ErrTest(t) ==
  /\ t \in Faulty /\ tpc[t] = "run" /\ ~kill_all_flag /\ Goto(t, "store")
  /\ UNCHANGED <<cmd, status, main, killer, errors, keyboard>>

ErrStore(t) ==
  /\ tpc[t] = "store" /\ Goto(t, "held")
  /\ lir_errcod' = t /\ kill_event' = TRUE
  /\ UNCHANGED <<cmd, status, main, killer, keyboard>>

\* A thread that waits for its device, or in lirerr, looks at kill_all_flag only.
\* No one reads a status between the flag and the first round of kill_all, so that
\* the threads may as well wait for the round.
Return(t) ==
  /\ t # "USER"
  /\ \/ tpc[t] = "run" /\ cmd[t] = "KILL"
     \/ tpc[t] = "init" /\ t = "WIDEBAND" /\ cmd[t] = "KILL"
     \/ tpc[t] = "held" /\ kpc = "round"
     \/ tpc[t] = "init" /\ t = "INPUT" /\ kpc = "round"
  /\ Goto(t, "spin") /\ Status(t, "RETURNED")
  /\ UNCHANGED <<cmd, main, killer, errors, keyboard>>

\* A thread that has returned comes to its end when it is taken off.
Ended(t) == tpc[t] = "ended" \/ (tpc[t] = "spin" /\ cmd[t] = "NOT_ACTIVE")

\* Mutant: after X the thread does not say that it has returned.
UserLeavesSilent(x) ==
  IF kill_all_flag THEN Goto("USER", "spin") /\ Status("USER", "RETURNED")
  ELSE Goto("USER", IF x THEN "ended" ELSE "run") /\ UNCHANGED status

\* The thread ends when it is told to, and after X.
UserLeaves(x) ==
  IF kill_all_flag THEN Goto("USER", "spin") /\ Status("USER", "RETURNED")
  ELSE IF x \/ cmd["USER"] # "ACTIVE"
  THEN Goto("USER", "ended") /\ Status("USER", "RETURNED")
  ELSE UNCHANGED <<tpc, status>>

\* Mutant: each key is taken with its event, as test_keyboard does.
UserTakeWithEvent ==
  /\ tpc["USER"] = "run" /\ TakeKey /\ AwaitKey /\ UserLeaves(Head(keys) = "X")
  /\ UNCHANGED <<cmd, main, killer, errors>>

\* user_command: aw_keyb takes a key without the event if there is one, ...
UserTake ==
  /\ tpc["USER"] = "run" /\ TakeKey /\ UserLeaves(Head(keys) = "X")
  /\ UNCHANGED <<cmd, main, killer, errors, key_event>>

\* ... and otherwise waits for the event, as often as there is no key.
UserWake ==
  /\ tpc["USER"] = "run" /\ keys = <<>> /\ AwaitKey
  /\ IF kill_all_flag THEN UserLeaves(FALSE) ELSE UNCHANGED <<tpc, status>>
  /\ UNCHANGED <<cmd, main, killer, errors, keys, kbd>>

User == UserTake \/ UserWake

Thread(t) == Begin(t) \/ ErrStore(t) \/ Return(t)
-----------------------------------------------------------------------------
(* kill_all                                                                 *)

\* The sleep of 10 ms that follows lets a first error be stored.  From now on
\* all look at kill_all_flag before they look at a key: all keys are alike.
KillStart ==
  /\ kpc = "await" /\ kill_event
  /\ kill_all_flag' = TRUE /\ kpc' = "sleep"
  /\ keys' = [k \in DOMAIN keys |-> "none"]
  /\ UNCHANGED <<threads, main, errors, key_event, kbd>>

\* All threads are told, and those that wait for an event are woken up.
KillFirst ==
  /\ kpc = "sleep" /\ kpc' = "round"
  /\ \A t \in Threads : tpc[t] # "store"
  /\ cmd' = [t \in Threads |-> IF cmd[t] = "NOT_ACTIVE" THEN cmd[t] ELSE "KILL"]
  /\ key_event' = (key_event \/ cmd["USER"] # "NOT_ACTIVE")
  /\ UNCHANGED <<status, tpc, main, kill_all_flag, errors, keys, kbd>>

\* The thread that main waits for, if any.
Awaited ==
  IF mpc = "join_user" THEN {"USER"}
  ELSE IF mpc \in {"stop", "stop_wait", "stop_join"} /\ todo # <<>> THEN {Head(todo)} ELSE {}

\* A round in which all are told already, and only threads are taken off that nobody
\* waits for, makes no difference as long as others have still to return.
RoundMatters ==
  \/ \E t \in Threads : cmd[t] \notin {"KILL", "NOT_ACTIVE"}
  \/ cmd["USER"] = "KILL" /\ status["USER"] # "RETURNED" /\ ~key_event
  \/ \E t \in Awaited : cmd[t] # "NOT_ACTIVE" /\ status[t] = "RETURNED"
  \/ \A t \in Threads : cmd[t] # "NOT_ACTIVE" => status[t] = "RETURNED"

\* Those that have returned are taken off, the others are told again, ...
KillRound ==
  /\ kpc = "round" /\ RoundMatters /\ \E t \in Threads : cmd[t] # "NOT_ACTIVE"
  /\ cmd' = [t \in Threads |->
       IF cmd[t] = "NOT_ACTIVE" \/ status[t] \in {"RETURNED", "NOT_ACTIVE"}
       THEN "NOT_ACTIVE" ELSE "KILL"]
  /\ key_event' = (key_event \/ cmd'["USER"] # "NOT_ACTIVE")
  /\ UNCHANGED <<status, tpc, main, killer, errors, keys, kbd>>

\* ... until a round finds none that runs.
KillDone ==
  /\ kpc = "round" /\ \A t \in Threads : cmd[t] = "NOT_ACTIVE"
  /\ kpc' = "done"
  /\ UNCHANGED <<threads, main, kill_all_flag, errors, keyboard>>

KillAll == KillStart \/ KillFirst \/ KillRound \/ KillDone
-----------------------------------------------------------------------------
(* The main thread                                                          *)

M(from, to) == mpc = from /\ mpc' = to
quiet == <<killer, errors, keyboard>>

\* The menus between two sessions, where main reads the keys itself.  X leads to
\* another menu.  Parameters that do not fit the mode are prompted for first.
MenuKey ==
  /\ mpc = "menu" /\ TakeKey
  /\ IF kill_all_flag THEN mpc' = "end" /\ UNCHANGED <<todo, setup, all_threads_started>>
     ELSE IF Head(keys) = "X" THEN UNCHANGED main
     ELSE /\ mpc' \in {"create", "clear"} /\ setup' \in Setups /\ todo' = StartOrder(setup')
          /\ all_threads_started' = FALSE
  /\ UNCHANGED <<threads, killer, errors, key_event>>

\* await_keyboard in the menu, and behind a prompt.
MenuWake ==
  /\ mpc \in {"menu", "prompt"} /\ keys = <<>> /\ AwaitKey
  /\ mpc' = IF kill_all_flag THEN "end" ELSE mpc
  /\ UNCHANGED <<threads, todo, setup, all_threads_started, killer, errors, keys, kbd>>

\* prompt_reason: clear_keyboard throws away the keys that are there, ...
ClearTest ==
  /\ mpc = "clear"
  /\ mpc' = IF kill_all_flag THEN "end" ELSE IF keys = <<>> THEN "prompt" ELSE "clear_wait"
  /\ UNCHANGED <<threads, todo, setup, all_threads_started, quiet>>

\* ... for each of which test_keyboard waits for the event.  The ring is not looked
\* at again: one that looks empty now gives its old contents.
ClearKey ==
  /\ M("clear_wait", "clear") /\ AwaitKey
  /\ keys' = IF keys = <<>> THEN [i \in 1 .. KeyboardSize - 1 |-> "other"] ELSE Tail(keys)
  /\ UNCHANGED <<threads, todo, setup, all_threads_started, killer, errors, kbd>>

\* The key that the prompt asks for; the parameters are set, and the session starts.
PromptKey ==
  /\ mpc = "prompt" /\ TakeKey
  /\ mpc' = IF kill_all_flag THEN "end" ELSE "create"
  /\ UNCHANGED <<threads, todo, setup, all_threads_started, killer, errors, key_event>>

\* linrad_thread_create
Created(t) ==
  /\ Status(t, "INIT") /\ cmd' = [cmd EXCEPT ![t] = "ACTIVE"] /\ Goto(t, "init")
  /\ UNCHANGED <<setup, all_threads_started, quiet>>

Create ==
  /\ mpc = "create" /\ Created(Head(todo)) /\ todo' = Tail(todo)
  /\ mpc' = IF kill_all_flag THEN "free" ELSE IF Len(todo) = 1 THEN "ready" ELSE "create"

\* Main waits as long as none of the threads is ready.
AllReady ==
  ~ /\ status["OUTPUT"] # "SEMCLEAR"      /\ status["USER"] # "ACTIVE"
    /\ status["NARROWBAND"] # "SEM_WAIT"  /\ status["WIDEBAND"] # "ACTIVE"

Wait(from, condition, to) ==
  /\ mpc = from /\ (condition \/ kill_all_flag)
  /\ mpc' = IF kill_all_flag THEN "free" ELSE to
  /\ UNCHANGED <<threads, todo, setup, all_threads_started, quiet>>

ReadyWait == Wait("ready", AllReady, "create_in")

CreateInput  == M("create_in", "create_out") /\ Created("INPUT") /\ UNCHANGED todo
CreateOutput == M("create_out", "out_active") /\ Created("OUTPUT") /\ UNCHANGED todo

\* From here on the output is led by its command.
Lead(from, s, next, to) ==
  /\ M(from, to) /\ ~kill_all_flag /\ status["OUTPUT"] = s
  /\ cmd' = [cmd EXCEPT !["OUTPUT"] = next]
  /\ UNCHANGED <<status, tpc, todo, setup, all_threads_started, quiet>>

LeadToIdle  == Lead("out_active", "ACTIVE", "IDLE", "out_idle")
LeadToClear == Lead("out_idle", "IDLE", "SEMCLEAR", "out_semclear")

\* Only here the kill is followed by a stop.
LeadKilled ==
  /\ mpc \in {"out_active", "out_idle"} /\ kill_all_flag
  /\ IF mpc = "out_active" THEN mpc' = "stop" /\ todo' = <<"OUTPUT">>
     ELSE mpc' = "free" /\ UNCHANGED todo
  /\ UNCHANGED <<threads, setup, all_threads_started, quiet>>

\* The transmitter, if it is in use.
OutputLed ==
  /\ mpc = "out_semclear" /\ (kill_all_flag \/ status["OUTPUT"] = "SEMCLEAR")
  /\ IF kill_all_flag
     THEN mpc' = "free" /\ UNCHANGED <<threads, todo, setup, all_threads_started, quiet>>
     ELSE IF "TX_OUTPUT" \in setup
     THEN mpc' = "tx_output" /\ Created("TX_OUTPUT") /\ UNCHANGED todo
     ELSE mpc' = "started" /\ UNCHANGED <<threads, todo, setup, all_threads_started, quiet>>

TxOutputReady ==
  /\ mpc = "tx_output" /\ (kill_all_flag \/ status["TX_OUTPUT"] = "ACTIVE")
  /\ IF kill_all_flag
     THEN mpc' = "free" /\ UNCHANGED <<threads, todo, setup, all_threads_started, quiet>>
     ELSE mpc' = "tx_input" /\ Created("TX_INPUT") /\ UNCHANGED todo

TxInputReady == Wait("tx_input", status["TX_INPUT"] = "ACTIVE", "started")

Started ==
  /\ mpc = "started" /\ mpc' = IF kill_all_flag THEN "free" ELSE "in_active"
  /\ all_threads_started' = ~kill_all_flag
  /\ UNCHANGED <<threads, todo, setup, quiet>>

\* The wait for the input looks at nothing else.
InputActive ==
  /\ M("in_active", "loop") /\ (kill_all_flag \/ status["INPUT"] = "ACTIVE")
  /\ UNCHANGED <<threads, todo, setup, all_threads_started, quiet>>

LoopEnds ==
  /\ M("loop", "join_user")
  /\ kill_all_flag \/ status["USER"] # "ACTIVE" \/ status["INPUT"] = "RETURNED"
  /\ UNCHANGED <<threads, todo, setup, all_threads_started, quiet>>

UserJoined ==
  /\ M("join_user", "stop") /\ Ended("USER") /\ todo' = StopOrder(setup)
  /\ Goto("USER", "none")
  /\ UNCHANGED <<cmd, status, setup, all_threads_started, quiet>>

\* linrad_thread_stop_and_join, for one thread after the other.
StopNext ==
  /\ mpc = "stop" /\ todo # <<>> /\ cmd[Head(todo)] # "NOT_ACTIVE" /\ mpc' = "stop_wait"
  /\ cmd' = [cmd EXCEPT ![Head(todo)] = "KILL"]
  /\ UNCHANGED <<status, tpc, todo, setup, all_threads_started, quiet>>

StopNone ==
  /\ mpc = "stop" /\ todo # <<>> /\ cmd[Head(todo)] = "NOT_ACTIVE" /\ todo' = Tail(todo)
  /\ IF kill_all_flag
     THEN UNCHANGED errors
     ELSE lir_errcod' = "765934" /\ kill_event' = TRUE
  /\ UNCHANGED <<threads, mpc, setup, all_threads_started, killer, keyboard>>

StopWait ==
  /\ M("stop_wait", "stop_join") /\ status[Head(todo)] = "RETURNED"
  /\ cmd' = [cmd EXCEPT ![Head(todo)] = "NOT_ACTIVE"]
  /\ UNCHANGED <<status, tpc, todo, setup, all_threads_started, quiet>>

StopJoin ==
  /\ M("stop_join", "stop") /\ Ended(Head(todo))
  /\ Status(Head(todo), "NOT_ACTIVE") /\ Goto(Head(todo), "none") /\ todo' = Tail(todo)
  /\ UNCHANGED <<cmd, setup, all_threads_started, quiet>>

Stopped ==
  /\ M("stop", "free") /\ todo = <<>>
  /\ UNCHANGED <<threads, todo, setup, all_threads_started, quiet>>

\* free_semaphores; back to the menu, which ends if it has to.
Free ==
  /\ mpc = "free" /\ mpc' = IF kill_all_flag THEN "end" ELSE "menu"
  /\ UNCHANGED <<threads, todo, setup, all_threads_started, quiet>>

Menu  == MenuKey \/ MenuWake \/ ClearTest \/ ClearKey \/ PromptKey
Start == Create \/ ReadyWait \/ CreateInput \/ CreateOutput \/ LeadToIdle \/ LeadToClear
           \/ LeadKilled \/ OutputLed \/ TxOutputReady \/ TxInputReady \/ Started \/ InputActive
Stop  == LoopEnds \/ UserJoined \/ StopNext \/ StopNone \/ StopWait \/ StopJoin
           \/ Stopped \/ Free
Main  == Menu \/ Start \/ Stop

\* With main the program ends.
Others == Output \/ \E t \in Threads : Thread(t)
Keyboard == KeyEvent \/ EscKey

Next ==
  /\ mpc # "end"
  /\ Main \/ User \/ KillAll \/ Others \/ Keyboard \/ KeyPress \/ EscPress
     \/ \E t \in Threads : ErrTest(t)

Spec == Init /\ [][Next]_vars

Fairness ==
  /\ WF_vars(Main /\ mpc # "end") /\ WF_vars(User /\ mpc # "end")
  /\ WF_vars(KillAll /\ mpc # "end") /\ WF_vars(Others /\ mpc # "end")
  /\ WF_vars(Keyboard /\ mpc # "end")

FairSpec == Spec /\ Fairness
-----------------------------------------------------------------------------
(* Properties                                                               *)

Gone(t) == tpc[t] \in {"none", "spin", "ended"}

\* When a session that had been started as a whole is left, each of its threads
\* has returned, in every setup, and linrad_thread_stop_and_join has not met a
\* thread that was never started (lirerr 765934).
EndsClean ==
  /\ mpc = "free" /\ all_threads_started => \A t \in Threads : Gone(t)
  /\ lir_errcod # "765934"

\* An error that comes up when the threads are being stopped does not replace
\* the one that the program ends for.
KeepsFirstError == [][kpc \notin {"await", "sleep"} => UNCHANGED lir_errcod]_vars

\* ESC and fatal errors end the program from everywhere.  Neither flag is taken back.
KillEnds == []<>(kill_event \/ kill_all_flag => mpc = "end")

\* From the end of user_command until main is back in the menu.
Ending == tpc["USER"] = "ended" \/ mpc \in {"stop", "stop_wait", "stop_join", "free"}

\* X leads back to the menu: no session goes on ending for ever.
XEnds == []<>(Ending => mpc = "end")

\* Keys may be pressed faster than they are read, so that one event stands for
\* several of them.  aw_keyb, by which a session, the menu and a prompt read, does not
\* leave a key in the ring for want of its event (ui.c:667-677).
KeysRead ==
  \/ []<>(keys = <<>> \/ mpc = "end" \/ (tpc["USER"] # "run" /\ mpc \notin {"menu", "prompt"}))
  \/ []<><<UserTake \/ MenuKey \/ PromptKey>>_vars

\* "Press any key" (uivar.c:749, shown by menu.c:931): a prompt goes away for those
\* who go on pressing keys, in the end one by one, when the last one has been seen.
AnyKeyWillDo ==
  []<><<KeyEvent>>_vars /\ <>[][KeyPress => ~key_event /\ mpc # "clear"]_vars =>
    []<>(mpc \notin {"clear", "clear_wait"})

\* "stop all processing threads so main can write any error code/message and
\* exit" (lxsys.c:746-747)
StoppedBeforeExit == mpc = "end" => \A t \in Threads : Gone(t)
=============================================================================
