----------------------------- MODULE SessionProof -----------------------------
(***************************************************************************)
(* EndsClean and KeepsFirstError of Session, for every size of the ring of *)
(* keys, all setups of a session and every set of threads that may fail.   *)
(* What makes them true is spread over two writers of the command flags    *)
(* that do not look at each other: the main thread, which takes the        *)
(* threads off one by one, and kill_all, which may take off any of them    *)
(* first.                                                                  *)
(***************************************************************************)
EXTENDS Session, SequenceTheorems, TLAPS

InUseNow == setup \cup Always
Late     == {"INPUT", "OUTPUT", "TX_OUTPUT", "TX_INPUT"}

Prompting == {"clear", "clear_wait", "prompt"}
BeforeAll == Prompting \cup
             {"create", "ready", "create_in", "create_out", "out_active", "stop_out", "out_idle",
              "out_semclear", "tx_output", "tx_input", "started"}
Running   == {"in_active", "loop", "join_user"}
Stopping  == {"stop", "stop_wait", "stop_join"}

\* Threads of the session that main has not created yet.
NotYet ==
  IF mpc \in Prompting \cup {"create"} THEN ToSet(todo) \cup Late
  ELSE IF mpc \in {"ready", "create_in"} THEN Late
  ELSE IF mpc = "create_out" THEN Late \ {"INPUT"}
  ELSE IF mpc \in {"out_active", "out_idle", "out_semclear"} THEN {"TX_OUTPUT", "TX_INPUT"}
  ELSE IF mpc = "tx_output" THEN {"TX_INPUT"} ELSE {}

\* The list of main names threads of the session, each one once.
TodoTrue ==
  /\ todo \in Seq(Threads)
  /\ mpc \in Prompting \cup {"create", "stop_wait", "stop_join"} => todo # <<>>
  /\ mpc \in Prompting \cup {"create"} => ToSet(todo) \subseteq InUseNow
  /\ mpc = "tx_output" => "TX_INPUT" \in InUseNow
  /\ mpc \in Stopping => \A i, j \in DOMAIN todo : todo[i] = todo[j] => i = j

\* A thread that says it has returned, or that has been taken off, is gone.
FlagsTrue ==
  \A t \in Threads :
    status[t] \in {"RETURNED", "NOT_ACTIVE"} \/ cmd[t] = "NOT_ACTIVE" => Gone(t)

\* A thread about to store its error code has got past the test in time.
StoresTrue ==
  \A t \in Threads : tpc[t] = "store" => t \in Faulty /\ kpc \notin {"round", "done"}

KillTrue == kpc # "await" => kill_all_flag

\* The threads of a session that has been started as a whole, or that has not
\* been killed, are all on the list or gone when main stops them.
Whole == all_threads_started \/ ~kill_all_flag

Accounted ==
  /\ mpc \in BeforeAll => ~all_threads_started
  /\ mpc = "menu" => \A t \in Threads : Gone(t)
  /\ mpc \in BeforeAll \cup Running => \A t \in Threads \ InUseNow : Gone(t)
  /\ mpc \in Stopping /\ Whole => \A t \in Threads : t \in ToSet(todo) \/ Gone(t)
  /\ mpc = "free" /\ Whole => \A t \in Threads : Gone(t)

\* Unless kill_all comes, nobody but main takes a thread off.
Kept ==
  ~kill_all_flag =>
    /\ mpc \in BeforeAll \cup Running => \A t \in InUseNow \ NotYet : cmd[t] # "NOT_ACTIVE"
    /\ mpc \in Stopping => \A i \in DOMAIN todo :
         i # 1 \/ mpc # "stop_join" => cmd[todo[i]] # "NOT_ACTIVE"

NoStopError == lir_errcod # "765934"

IInv ==
  /\ TypeOK /\ TodoTrue /\ FlagsTrue /\ StoresTrue /\ KillTrue
  /\ Accounted /\ Kept /\ NoStopError
-----------------------------------------------------------------------------
(* Sequences                                                                *)

LEMMA TailOf ==
  ASSUME NEW S, NEW s \in Seq(S), s # <<>>
  PROVE  /\ Head(s) \in S /\ Head(s) = s[1] /\ 1 \in DOMAIN s
         /\ Tail(s) \in Seq(S) /\ Len(Tail(s)) = Len(s) - 1
         /\ \A i \in DOMAIN Tail(s) : i \in Nat \ {0} /\ i + 1 \in DOMAIN s /\ Tail(s)[i] = s[i + 1]
         /\ ToSet(s) = {Head(s)} \cup ToSet(Tail(s))
<1>1. Len(s) \in Nat /\ Len(s) > 0 /\ DOMAIN s = 1 .. Len(s)
  OBVIOUS
<1>2. /\ Head(s) \in S /\ Head(s) = s[1] /\ Tail(s) \in Seq(S)
      /\ Len(Tail(s)) = Len(s) - 1 /\ DOMAIN Tail(s) = 1 .. Len(s) - 1
  BY <1>1
<1>3. \A i \in 1 .. Len(s) - 1 : Tail(s)[i] = s[i + 1]
  BY <1>1
<1>4. ToSet(s) \subseteq {Head(s)} \cup ToSet(Tail(s))
  <2> SUFFICES ASSUME NEW i \in DOMAIN s PROVE s[i] \in {Head(s)} \cup ToSet(Tail(s))
    BY DEF ToSet
  <2>1. CASE i = 1
    BY <2>1, <1>2
  <2>2. CASE i # 1
    <3>1. i - 1 \in DOMAIN Tail(s) /\ Tail(s)[i - 1] = s[i]
      BY <2>2, <1>1, <1>2, <1>3
    <3> QED
      BY <3>1 DEF ToSet
  <2> QED
    BY <2>1, <2>2
<1>5. {Head(s)} \cup ToSet(Tail(s)) \subseteq ToSet(s)
  <2>1. Head(s) \in ToSet(s)
    BY <1>1, <1>2 DEF ToSet
  <2>2. ASSUME NEW i \in DOMAIN Tail(s) PROVE Tail(s)[i] \in ToSet(s)
    <3>1. i + 1 \in DOMAIN s /\ Tail(s)[i] = s[i + 1]
      BY <1>1, <1>2, <1>3
    <3> QED
      BY <3>1 DEF ToSet
  <2> QED
    BY <2>1, <2>2 DEF ToSet
<1> QED
  BY <1>1, <1>2, <1>3, <1>4, <1>5

LEMMA ElementsOf ==
  ASSUME NEW S, NEW s \in Seq(S)
  PROVE  ToSet(s) \subseteq S
BY DEF ToSet

\* A list of threads without repetitions.
Lists(s, S) == s \in Seq(Threads) /\ ToSet(s) = S /\ IsInjective(s)

LEMMA ListsConcat ==
  ASSUME NEW s, NEW S, NEW t, NEW T, Lists(s, S), Lists(t, T), S \cap T = {}
  PROVE  Lists(s \o t, S \cup T)
<1> USE DEF Lists
<1>1. /\ Len(s) \in Nat /\ DOMAIN s = 1 .. Len(s)
      /\ Len(t) \in Nat /\ DOMAIN t = 1 .. Len(t)
  OBVIOUS
<1>2. /\ s \o t \in Seq(Threads) /\ DOMAIN (s \o t) = 1 .. Len(s) + Len(t)
      /\ \A i \in 1 .. Len(s) + Len(t) :
           (s \o t)[i] = IF i <= Len(s) THEN s[i] ELSE t[i - Len(s)]
  BY ConcatProperties
<1>3. /\ \A i \in DOMAIN s : s[i] \in S
      /\ \A i \in DOMAIN t : t[i] \in T
  BY DEF ToSet
<1>4. ToSet(s \o t) = S \cup T
  <2>1. ASSUME NEW i \in DOMAIN (s \o t) PROVE (s \o t)[i] \in S \cup T
    <3>1. CASE i <= Len(s)
      BY <3>1, <1>1, <1>2, <1>3
    <3>2. CASE ~ (i <= Len(s))
      <4>1. i - Len(s) \in DOMAIN t /\ (s \o t)[i] = t[i - Len(s)]
        BY <3>2, <1>1, <1>2
      <4> QED
        BY <4>1, <1>3
    <3> QED
      BY <3>1, <3>2
  <2>2. ASSUME NEW i \in DOMAIN s PROVE s[i] \in ToSet(s \o t)
    <3>1. i \in DOMAIN (s \o t) /\ (s \o t)[i] = s[i]
      BY <1>1, <1>2
    <3> QED
      BY <3>1 DEF ToSet
  <2>3. ASSUME NEW i \in DOMAIN t PROVE t[i] \in ToSet(s \o t)
    <3>1. i + Len(s) \in DOMAIN (s \o t) /\ (s \o t)[i + Len(s)] = t[i]
      BY <1>1, <1>2
    <3> QED
      BY <3>1 DEF ToSet
  <2>4. S \subseteq ToSet(s \o t) /\ T \subseteq ToSet(s \o t)
    BY <2>2, <2>3 DEF ToSet
  <2>5. ToSet(s \o t) \subseteq S \cup T
    BY <2>1 DEF ToSet
  <2> QED
    BY <2>4, <2>5
<1>5. IsInjective(s \o t)
  <2> SUFFICES ASSUME NEW i \in 1 .. Len(s) + Len(t), NEW j \in 1 .. Len(s) + Len(t),
                      (s \o t)[i] = (s \o t)[j]
               PROVE  i = j
    BY <1>2 DEF IsInjective
  <2>1. CASE i <= Len(s) /\ j <= Len(s)
    BY <2>1, <1>1, <1>2 DEF IsInjective
  <2>2. CASE ~ (i <= Len(s)) /\ ~ (j <= Len(s))
    <3>1. /\ i - Len(s) \in DOMAIN t /\ j - Len(s) \in DOMAIN t
          /\ t[i - Len(s)] = t[j - Len(s)]
      BY <2>2, <1>1, <1>2
    <3>2. i - Len(s) = j - Len(s)
      BY <3>1 DEF IsInjective
    <3> QED
      BY <3>2, <1>1
  <2>3. CASE i <= Len(s) /\ ~ (j <= Len(s))
    <3>1. i \in DOMAIN s /\ j - Len(s) \in DOMAIN t /\ s[i] = t[j - Len(s)]
      BY <2>3, <1>1, <1>2
    <3> QED
      BY <3>1, <1>3
  <2>4. CASE ~ (i <= Len(s)) /\ j <= Len(s)
    <3>1. j \in DOMAIN s /\ i - Len(s) \in DOMAIN t /\ s[j] = t[i - Len(s)]
      BY <2>4, <1>1, <1>2
    <3> QED
      BY <3>1, <1>3
  <2> QED
    BY <2>1, <2>2, <2>3, <2>4
<1> QED
  BY <1>2, <1>4, <1>5

LEMMA ListsInUse ==
  ASSUME NEW t \in Threads, NEW s
  PROVE  Lists(InUse(t, s), {t} \cap s)
BY DEF Lists, InUse, ToSet, IsInjective

\* Threads are started and stopped if they take part, and no others.
LEMMA StartOrderTrue ==
  ASSUME NEW s \in Setups
  PROVE  /\ StartOrder(s) \in Seq(Threads) /\ StartOrder(s) # <<>>
         /\ ToSet(StartOrder(s)) \subseteq s \cup Always
         /\ s \cup Always \subseteq ToSet(StartOrder(s)) \cup Late
<1>1. s \subseteq Threads \ Always
  BY SessionAssumption
<1>2. Lists(<<"USER", "NARROWBAND", "WIDEBAND">>, {"USER", "NARROWBAND", "WIDEBAND"})
  BY DEF Lists, ToSet, IsInjective, Threads
<1>3. Lists(InUse("SCREEN", s), {"SCREEN"} \cap s) /\ Lists(InUse("SERVER", s), {"SERVER"} \cap s)
  BY ListsInUse DEF Threads
<1>4. Lists(<<"USER", "NARROWBAND", "WIDEBAND">> \o InUse("SCREEN", s),
            {"USER", "NARROWBAND", "WIDEBAND"} \cup ({"SCREEN"} \cap s))
  BY <1>2, <1>3, ListsConcat
<1>5. Lists(StartOrder(s),
            {"USER", "NARROWBAND", "WIDEBAND"} \cup ({"SCREEN"} \cap s) \cup ({"SERVER"} \cap s))
  BY <1>3, <1>4, ListsConcat DEF StartOrder
<1>6. "USER" \in ToSet(StartOrder(s))
  BY <1>5 DEF Lists
<1>7. StartOrder(s) # <<>>
  BY <1>6 DEF ToSet
<1> QED
  BY <1>1, <1>5, <1>7 DEF Lists, Always, Late, Threads

LEMMA StopOrderTrue ==
  ASSUME NEW s \in Setups
  PROVE  Lists(StopOrder(s), (s \cup Always) \ {"USER"})
<1>1. s \subseteq Threads \ Always
  BY SessionAssumption
<1> DEFINE Use(t) == {t} \cap s
<1>2. ASSUME NEW t \in Threads PROVE Lists(InUse(t, s), Use(t))
  BY ListsInUse
<1>3. /\ Lists(<<"OUTPUT", "INPUT">>, {"OUTPUT", "INPUT"})
      /\ Lists(<<"NARROWBAND">>, {"NARROWBAND"}) /\ Lists(<<"WIDEBAND">>, {"WIDEBAND"})
  BY DEF Lists, ToSet, IsInjective, Threads
<1>4. /\ Lists(InUse("TX_INPUT", s), Use("TX_INPUT")) /\ Lists(InUse("TX_OUTPUT", s), Use("TX_OUTPUT"))
      /\ Lists(InUse("SCREEN", s), Use("SCREEN")) /\ Lists(InUse("SERVER", s), Use("SERVER"))
  BY <1>2 DEF Threads
<1> DEFINE s2 == InUse("TX_INPUT", s) \o InUse("TX_OUTPUT", s)
           s4 == s2 \o <<"OUTPUT", "INPUT">>
           s5 == s4 \o InUse("SCREEN", s)
           s6 == s5 \o <<"NARROWBAND">>
           s7 == s6 \o InUse("SERVER", s)
           S2 == Use("TX_INPUT") \cup Use("TX_OUTPUT")
           S4 == S2 \cup {"OUTPUT", "INPUT"}
           S5 == S4 \cup Use("SCREEN")
           S6 == S5 \cup {"NARROWBAND"}
           S7 == S6 \cup Use("SERVER")
<1>5. Lists(s2, S2)
  BY <1>4, ListsConcat
<1>6. Lists(s4, S4)
  <2>1. S2 \cap {"OUTPUT", "INPUT"} = {}
    OBVIOUS
  <2> HIDE DEF s2, S2, Use
  <2> QED
    BY <1>3, <1>5, <2>1, ListsConcat
<1>7. Lists(s5, S5)
  <2>1. S4 \cap Use("SCREEN") = {}
    OBVIOUS
  <2> HIDE DEF s4, S4, Use
  <2> QED
    BY <1>4, <1>6, <2>1, ListsConcat
<1>8. Lists(s6, S6)
  <2>1. S5 \cap {"NARROWBAND"} = {}
    OBVIOUS
  <2> HIDE DEF s5, S5, Use
  <2> QED
    BY <1>3, <1>7, <2>1, ListsConcat
<1>9. Lists(s7, S7)
  <2>1. S6 \cap Use("SERVER") = {}
    OBVIOUS
  <2> HIDE DEF s6, S6, Use
  <2> QED
    BY <1>4, <1>8, <2>1, ListsConcat
<1>10. Lists(s7 \o <<"WIDEBAND">>, S7 \cup {"WIDEBAND"})
  <2>1. S7 \cap {"WIDEBAND"} = {}
    OBVIOUS
  <2> HIDE DEF s7, S7, Use
  <2> QED
    BY <1>3, <1>9, <2>1, ListsConcat
<1>11. S7 \cup {"WIDEBAND"} = (s \cup Always) \ {"USER"}
  BY <1>1 DEF Always, Threads
<1> QED
  BY <1>10, <1>11 DEF StopOrder
-----------------------------------------------------------------------------
(* The invariant                                                            *)

USE DEF threads, main, killer, errors, keyboard, quiet, Prompting

LEMMA InvInitial == Init => IInv
<1> SUFFICES ASSUME Init PROVE IInv
  OBVIOUS
<1> USE SessionAssumption DEF Init
<1>1. /\ cmd \in [Threads -> {"NOT_ACTIVE"}] /\ status \in [Threads -> {"NOT_ACTIVE"}]
      /\ tpc \in [Threads -> {"none"}] /\ ToSet(todo) = {}
  BY DEF ToSet
<1>2. TypeOK
  <2>1. /\ cmd \in [Threads -> {"NOT_ACTIVE", "ACTIVE", "IDLE", "SEMCLEAR", "KILL"}]
        /\ status \in [Threads -> {"NOT_ACTIVE", "INIT", "ACTIVE", "IDLE", "SEMCLEAR",
                                   "SEM_WAIT", "RETURNED"}]
        /\ tpc \in [Threads -> {"none", "init", "run", "store", "held", "spin", "ended"}]
    OBVIOUS
  <2>2. keys \in Seq(Keys) /\ Len(keys) < KeyboardSize
    OBVIOUS
  <2> QED
    BY <1>1, <2>1, <2>2 DEF TypeOK
<1>3. TodoTrue /\ FlagsTrue /\ StoresTrue /\ KillTrue /\ NoStopError
  BY <1>1 DEF TodoTrue, FlagsTrue, StoresTrue, KillTrue, NoStopError, Gone, Stopping
<1>4. Accounted /\ Kept
  BY <1>1 DEF Accounted, Kept, Gone, BeforeAll, Running, Stopping
<1> QED
  BY <1>2, <1>3, <1>4 DEF IInv

LEMMA PushType ==
  ASSUME TypeOK, NEW k \in Keys, Push(k)
  PROVE  keys' \in Seq(Keys) /\ Len(keys') < KeyboardSize
BY SessionAssumption DEF TypeOK, Push

\* A key changes what is in the ring, and nothing that the threads look at.
LEMMA KeyboardStep ==
  ASSUME IInv, KeyPress \/ KeyEvent \/ EscPress \/ EscKey
  PROVE  IInv'
<1>1. UNCHANGED <<threads, main, killer, lir_errcod>>
  BY DEF KeyPress, KeyEvent, EscPress, EscKey
<1>2. keys' \in Seq(Keys) /\ Len(keys') < KeyboardSize
  <2>1. UNCHANGED keys \/ \E k \in Keys : Push(k)
    BY DEF KeyPress, KeyEvent, EscPress, EscKey, Keys
  <2> QED
    BY <2>1, PushType DEF IInv, TypeOK
<1>3. kill_event' \in BOOLEAN /\ key_event' \in BOOLEAN /\ kbd' \in {"get", "set", "esc", "dead"}
  BY DEF KeyPress, KeyEvent, EscPress, EscKey, IInv, TypeOK
<1>4. TypeOK'
  BY <1>1, <1>2, <1>3 DEF IInv, TypeOK, ToSet
<1> QED
  BY <1>1, <1>4 DEF IInv, TodoTrue, FlagsTrue, StoresTrue, KillTrue, Accounted, Kept, NoStopError,
     Gone, InUseNow, NotYet, Whole, ToSet

ThreadActs == User \/ Output \/ \E t \in Threads : Thread(t) \/ ErrTest(t)

\* What a thread does by itself, as the others see it: it leaves the commands
\* alone, and when it has gone it does not come back.
LEMMA ThreadFrame ==
  ASSUME IInv, ThreadActs
  PROVE  /\ UNCHANGED <<cmd, main, killer, kbd>>
         /\ \A t \in Threads : Gone(t) => Gone(t)'
         /\ \A t \in Threads : status'[t] \in {"RETURNED", "NOT_ACTIVE"} => Gone(t)'
         /\ \A t \in Threads : tpc'[t] = "store" =>
              tpc[t] = "store" \/ (t \in Faulty /\ ~kill_all_flag)
         /\ \/ UNCHANGED lir_errcod
            \/ \E t \in Threads : tpc[t] = "store" /\ lir_errcod' = t
<1> USE DEF IInv, TypeOK, FlagsTrue, Gone, Goto, Status
<1>1. CASE User
  BY <1>1 DEF User, UserTake, UserWake, UserLeaves, TakeKey, AwaitKey, Threads
<1>2. CASE Output
  BY <1>2 DEF Output, Threads
<1>3. ASSUME NEW u \in Threads, Begin(u) \/ ErrStore(u) \/ ErrTest(u) \/ Return(u)
      PROVE  /\ UNCHANGED <<cmd, main, killer, kbd>>
             /\ \A t \in Threads : Gone(t) => Gone(t)'
             /\ \A t \in Threads : status'[t] \in {"RETURNED", "NOT_ACTIVE"} => Gone(t)'
             /\ \A t \in Threads : tpc'[t] = "store" =>
                  tpc[t] = "store" \/ (t \in Faulty /\ ~kill_all_flag)
             /\ \/ UNCHANGED lir_errcod
                \/ \E t \in Threads : tpc[t] = "store" /\ lir_errcod' = t
  BY <1>3 DEF Begin, ErrStore, ErrTest, Return, Ready
<1> QED
  BY <1>1, <1>2, <1>3 DEF ThreadActs, Thread

LEMMA ThreadStep ==
  ASSUME IInv, ThreadActs
  PROVE  IInv'
<1>1. /\ UNCHANGED <<cmd, main, killer, kbd>>
      /\ \A t \in Threads : Gone(t) => Gone(t)'
      /\ \A t \in Threads : status'[t] \in {"RETURNED", "NOT_ACTIVE"} => Gone(t)'
      /\ \A t \in Threads : tpc'[t] = "store" => tpc[t] = "store" \/ (t \in Faulty /\ ~kill_all_flag)
      /\ \/ UNCHANGED lir_errcod
         \/ \E t \in Threads : tpc[t] = "store" /\ lir_errcod' = t
  BY ThreadFrame
<1>2. FlagsTrue' /\ KillTrue'
  BY <1>1 DEF IInv, FlagsTrue, KillTrue
<1>3. StoresTrue'
  BY <1>1 DEF IInv, StoresTrue, KillTrue
<1>4. TodoTrue' /\ Accounted' /\ Kept'
  BY <1>1 DEF IInv, TodoTrue, Accounted, Kept, InUseNow, NotYet, Whole
<1>5. NoStopError' /\ lir_errcod' \in {"none", "765934"} \cup Faulty
  BY <1>1, SessionAssumption DEF IInv, TypeOK, NoStopError, StoresTrue, Threads
<1>6. /\ keys' \in Seq(Keys) /\ Len(keys') < KeyboardSize
      /\ key_event' \in BOOLEAN /\ kill_event' \in BOOLEAN
  <2>1. \/ UNCHANGED keys
        \/ keys # <<>> /\ keys' = Tail(keys)
    BY DEF ThreadActs, User, UserTake, UserWake, TakeKey, Output, Thread, Begin, ErrStore, ErrTest,
       Return
  <2>2. keys' \in Seq(Keys) /\ Len(keys') < KeyboardSize
    BY <2>1, SessionAssumption DEF IInv, TypeOK
  <2>3. key_event' \in BOOLEAN /\ kill_event' \in BOOLEAN
    BY DEF IInv, TypeOK, ThreadActs, User, UserTake, UserWake, AwaitKey, Output, Thread, Begin,
       ErrStore, ErrTest, Return
  <2> QED
    BY <2>2, <2>3
<1>7. /\ status' \in [Threads -> {"NOT_ACTIVE", "INIT", "ACTIVE", "IDLE", "SEMCLEAR",
                                  "SEM_WAIT", "RETURNED"}]
      /\ tpc' \in [Threads -> {"none", "init", "run", "store", "held", "spin", "ended"}]
  <2> USE DEF IInv, TypeOK, Goto, Status
  <2>1. CASE User
    BY <2>1 DEF User, UserTake, UserWake, UserLeaves
  <2>2. CASE Output
    BY <2>2 DEF Output
  <2>3. CASE \E t \in Threads : Begin(t) \/ ErrStore(t) \/ ErrTest(t) \/ Return(t)
    BY <2>3 DEF Begin, ErrStore, ErrTest, Return, Ready
  <2> QED
    BY <2>1, <2>2, <2>3 DEF ThreadActs, Thread
<1>8. TypeOK'
  BY <1>1, <1>5, <1>6, <1>7 DEF IInv, TypeOK
<1> QED
  BY <1>2, <1>3, <1>4, <1>5, <1>8 DEF IInv

\* kill_all takes off only what has returned.
LEMMA KillStep ==
  ASSUME IInv, KillAll
  PROVE  IInv'
<1>1. UNCHANGED <<status, tpc, main, errors, kbd>> /\ (kill_all_flag => kill_all_flag')
  BY DEF KillAll, KillStart, KillFirst, KillRound, KillDone
<1>2. /\ \/ UNCHANGED cmd
         \/ kill_all_flag /\ \A t \in Threads : cmd'[t] = "NOT_ACTIVE" =>
              cmd[t] = "NOT_ACTIVE" \/ status[t] \in {"RETURNED", "NOT_ACTIVE"}
      /\ cmd' \in [Threads -> {"NOT_ACTIVE", "ACTIVE", "IDLE", "SEMCLEAR", "KILL"}]
  <2> USE DEF IInv, TypeOK
  <2>1. CASE KillStart \/ KillDone
    BY <2>1 DEF KillStart, KillDone
  <2>2. CASE KillFirst
    BY <2>2 DEF KillFirst, KillTrue
  <2>3. CASE KillRound
    BY <2>3 DEF KillRound, KillTrue
  <2> QED
    BY <2>1, <2>2, <2>3 DEF KillAll
<1>3. /\ keys' \in Seq(Keys) /\ Len(keys') < KeyboardSize
      /\ key_event' \in BOOLEAN /\ kill_all_flag' \in BOOLEAN
      /\ kpc' \in {"await", "sleep", "round", "done"}
  <2>1. CASE KillStart
    <3>1. keys' \in Seq(Keys) /\ Len(keys') = Len(keys)
      BY <2>1 DEF KillStart, IInv, TypeOK, Keys
    <3> QED
      BY <2>1, <3>1 DEF KillStart, IInv, TypeOK
  <2>2. CASE KillFirst \/ KillRound \/ KillDone
    BY <2>2 DEF IInv, TypeOK, KillFirst, KillRound, KillDone
  <2> QED
    BY <2>1, <2>2 DEF KillAll
<1>4. TypeOK'
  BY <1>1, <1>2, <1>3 DEF IInv, TypeOK
<1>5. TodoTrue' /\ NoStopError'
  BY <1>1 DEF IInv, TodoTrue, NoStopError, InUseNow
<1>6. FlagsTrue'
  BY <1>1, <1>2 DEF IInv, FlagsTrue, Gone
<1>7. StoresTrue' /\ KillTrue'
  BY <1>1 DEF IInv, StoresTrue, KillTrue, KillAll, KillStart, KillFirst, KillRound, KillDone
<1>8. Accounted'
  BY <1>1 DEF IInv, Accounted, Gone, InUseNow, Whole
<1>9. Kept'
  BY <1>1, <1>2 DEF IInv, Kept, InUseNow, NotYet
<1> QED
  BY <1>4, <1>5, <1>6, <1>7, <1>8, <1>9 DEF IInv

\* linrad_thread_create, for a thread that takes part.
LEMMA CreatedTrue ==
  ASSUME IInv, NEW t \in InUseNow, Created(t)
  PROVE  /\ UNCHANGED <<setup, all_threads_started, killer, errors, keyboard>>
         /\ cmd' \in [Threads -> {"NOT_ACTIVE", "ACTIVE", "IDLE", "SEMCLEAR", "KILL"}]
         /\ status' \in [Threads -> {"NOT_ACTIVE", "INIT", "ACTIVE", "IDLE", "SEMCLEAR",
                                     "SEM_WAIT", "RETURNED"}]
         /\ tpc' \in [Threads -> {"none", "init", "run", "store", "held", "spin", "ended"}]
         /\ FlagsTrue' /\ StoresTrue' /\ KillTrue' /\ NoStopError'
         /\ \A u \in Threads \ InUseNow : Gone(u) => Gone(u)'
         /\ cmd'[t] # "NOT_ACTIVE" /\ \A u \in Threads \ {t} : cmd'[u] = cmd[u]
<1> USE DEF IInv, TypeOK, Created, Status, Goto, Gone
<1>1. t \in Threads
  BY SessionAssumption DEF InUseNow, Always, Threads
<1>2. /\ UNCHANGED <<setup, all_threads_started, killer, errors, keyboard>>
      /\ cmd' \in [Threads -> {"NOT_ACTIVE", "ACTIVE", "IDLE", "SEMCLEAR", "KILL"}]
      /\ status' \in [Threads -> {"NOT_ACTIVE", "INIT", "ACTIVE", "IDLE", "SEMCLEAR",
                                  "SEM_WAIT", "RETURNED"}]
      /\ tpc' \in [Threads -> {"none", "init", "run", "store", "held", "spin", "ended"}]
  BY <1>1
<1>3. FlagsTrue' /\ StoresTrue' /\ KillTrue' /\ NoStopError'
  BY <1>1, <1>2 DEF FlagsTrue, StoresTrue, KillTrue, NoStopError
<1>4. /\ \A u \in Threads \ InUseNow : Gone(u) => Gone(u)'
      /\ cmd'[t] # "NOT_ACTIVE" /\ \A u \in Threads \ {t} : cmd'[u] = cmd[u]
  BY <1>1, <1>2
<1> QED
  BY <1>2, <1>3, <1>4

CreateActs ==
  \/ Create \/ CreateInput \/ CreateOutput
  \/ OutputLed /\ ~kill_all_flag /\ "TX_OUTPUT" \in setup
  \/ TxOutputReady /\ ~kill_all_flag

\* While the threads are created one by one, NotYet shrinks by the thread that
\* is created.
LEMMA CreateStep ==
  ASSUME IInv, CreateActs
  PROVE  IInv'
<1> USE DEF IInv, Stopping, BeforeAll, Running
<1>1. setup \in Setups /\ setup \subseteq Threads /\ InUseNow \subseteq Threads
      /\ ("TX_INPUT" \in setup <=> "TX_OUTPUT" \in setup)
  BY SessionAssumption DEF TypeOK, InUseNow, Always, Threads
<1>2. CASE Create
  <2>1. /\ Head(todo) \in ToSet(todo) /\ Tail(todo) \in Seq(Threads)
        /\ ToSet(todo) = {Head(todo)} \cup ToSet(Tail(todo))
        /\ Len(Tail(todo)) = Len(todo) - 1 /\ todo \in Seq(Threads) /\ todo # <<>>
    BY <1>2, TailOf DEF Create, TodoTrue
  <2>2. Head(todo) \in InUseNow /\ Created(Head(todo)) /\ mpc = "create" /\ todo' = Tail(todo)
        /\ mpc' = IF kill_all_flag THEN "free" ELSE IF Len(todo) = 1 THEN "ready" ELSE "create"
    BY <1>2, <2>1 DEF Create, TodoTrue
  <2>3. /\ UNCHANGED <<setup, all_threads_started, killer, errors, keyboard, InUseNow>>
        /\ FlagsTrue' /\ StoresTrue' /\ KillTrue' /\ NoStopError'
        /\ \A u \in Threads \ InUseNow : Gone(u) => Gone(u)'
        /\ cmd'[Head(todo)] # "NOT_ACTIVE" /\ \A u \in Threads \ {Head(todo)} : cmd'[u] = cmd[u]
    BY <2>2, CreatedTrue DEF InUseNow
  <2>4. Len(todo) = 1 => todo' = <<>> /\ ToSet(todo') = {}
    BY <2>1, <2>2 DEF ToSet
  <2>5. Len(todo) # 1 => todo' # <<>>
    <3>1. Len(todo) # 1 => Len(todo') # 0
      BY <2>1, <2>2
    <3> QED
      BY <3>1
  <2>6. TodoTrue'
    BY <2>1, <2>2, <2>3, <2>5 DEF TodoTrue
  <2>7. TypeOK'
    BY <2>1, <2>2, <2>3, <2>6, CreatedTrue DEF TypeOK, TodoTrue, ToSet
  <2>8. Accounted'
    BY <2>2, <2>3 DEF Accounted, Whole
  <2>9. Kept'
    BY <1>1, <2>1, <2>2, <2>3, <2>4 DEF Kept, NotYet
  <2> QED
    BY <2>3, <2>6, <2>7, <2>8, <2>9
<1>3. ASSUME NEW t \in {"INPUT", "OUTPUT", "TX_OUTPUT", "TX_INPUT"} \cap InUseNow, Created(t),
             UNCHANGED todo, ~kill_all_flag \/ t \in {"INPUT", "OUTPUT"},
             \/ t = "INPUT"     /\ mpc = "create_in"    /\ mpc' = "create_out"
             \/ t = "OUTPUT"    /\ mpc = "create_out"   /\ mpc' = "out_active"
             \/ t = "TX_OUTPUT" /\ mpc = "out_semclear" /\ mpc' = "tx_output"
             \/ t = "TX_INPUT"  /\ mpc = "tx_output"    /\ mpc' = "tx_input"
      PROVE  IInv'
  <2>1. /\ UNCHANGED <<setup, all_threads_started, killer, errors, keyboard, InUseNow>>
        /\ FlagsTrue' /\ StoresTrue' /\ KillTrue' /\ NoStopError'
        /\ \A u \in Threads \ InUseNow : Gone(u) => Gone(u)'
        /\ cmd'[t] # "NOT_ACTIVE" /\ \A u \in Threads \ {t} : cmd'[u] = cmd[u]
    BY <1>3, CreatedTrue DEF InUseNow
  <2>2. TypeOK'
    BY <1>3, <2>1, CreatedTrue DEF TypeOK, ToSet
  <2>3. TodoTrue'
    BY <1>1, <1>3, <2>1 DEF TodoTrue, InUseNow, Always
  <2>4. Accounted'
    BY <1>3, <2>1 DEF Accounted, Whole
  <2>5. Kept'
    BY <1>1, <1>3, <2>1 DEF Kept, NotYet, Late
  <2> QED
    BY <2>1, <2>2, <2>3, <2>4, <2>5
<1>4. CASE CreateInput \/ CreateOutput
  <2>1. {"INPUT", "OUTPUT"} \subseteq InUseNow
    BY DEF InUseNow, Always
  <2>2. \/ Created("INPUT") /\ mpc = "create_in" /\ mpc' = "create_out"
        \/ Created("OUTPUT") /\ mpc = "create_out" /\ mpc' = "out_active"
    BY <1>4 DEF CreateInput, CreateOutput, M
  <2>3. UNCHANGED todo
    BY <1>4 DEF CreateInput, CreateOutput
  <2> QED
    BY <1>3, <2>1, <2>2, <2>3
<1>5. CASE OutputLed /\ ~kill_all_flag /\ "TX_OUTPUT" \in setup
  BY <1>3, <1>5 DEF OutputLed, InUseNow
<1>6. CASE TxOutputReady /\ ~kill_all_flag
  BY <1>3, <1>6 DEF TxOutputReady, TodoTrue
<1> QED
  BY <1>2, <1>4, <1>5, <1>6 DEF CreateActs

\* Main goes on and leaves the threads as they are.
MoveActs ==
  \/ Menu \/ ReadyWait \/ LeadKilled \/ TxInputReady \/ Started \/ InputActive
  \/ OutputLed /\ (kill_all_flag \/ "TX_OUTPUT" \notin setup)
  \/ TxOutputReady /\ kill_all_flag
  \/ LoopEnds \/ Stopped \/ Free

LEMMA MoveStep ==
  ASSUME IInv, MoveActs
  PROVE  IInv'
<1> USE DEF IInv, BeforeAll, Running, Stopping
<1>1. UNCHANGED <<cmd, status, tpc, killer, lir_errcod, kill_event, kbd>>
  BY DEF MoveActs, Menu, MenuKey, MenuWake, ClearTest, ClearKey, PromptKey, ReadyWait,
     Wait, LeadKilled, TxInputReady, Started, InputActive, OutputLed, TxOutputReady, LoopEnds,
     Stopped, Free, TakeKey
<1>2. FlagsTrue' /\ StoresTrue' /\ KillTrue' /\ NoStopError'
  BY <1>1 DEF FlagsTrue, StoresTrue, KillTrue, NoStopError, Gone
<1>3. keys' \in Seq(Keys) /\ Len(keys') < KeyboardSize /\ key_event' \in BOOLEAN
  <2>1. \/ UNCHANGED keys
        \/ keys # <<>> /\ keys' = Tail(keys)
        \/ keys' = [i \in 1 .. KeyboardSize - 1 |-> "other"]
    BY DEF MoveActs, Menu, MenuKey, MenuWake, ClearTest, ClearKey, PromptKey, ReadyWait,
       Wait, LeadKilled, TxInputReady, Started, InputActive, OutputLed, TxOutputReady, LoopEnds,
     Stopped, Free, TakeKey
  <2>2. keys' \in Seq(Keys) /\ Len(keys') < KeyboardSize
    <3>1. CASE UNCHANGED keys \/ (keys # <<>> /\ keys' = Tail(keys))
      BY <3>1, SessionAssumption DEF TypeOK
    <3>2. CASE keys' = [i \in 1 .. KeyboardSize - 1 |-> "other"]
      <4>1. KeyboardSize - 1 \in Nat
        BY SessionAssumption
      <4> QED
        BY <3>2, <4>1, SessionAssumption DEF Keys
    <3> QED
      BY <2>1, <3>1, <3>2
  <2>3. key_event' \in BOOLEAN
    BY DEF MoveActs, Menu, MenuKey, MenuWake, ClearTest, ClearKey, PromptKey, ReadyWait,
       Wait, LeadKilled, TxInputReady, Started, InputActive, OutputLed, TxOutputReady, LoopEnds,
       Stopped, Free, AwaitKey, TypeOK
  <2> QED
    BY <2>2, <2>3
<1> DEFINE Rest == TodoTrue' /\ Accounted' /\ Kept' /\ TypeOK'
<1>4. ASSUME MenuKey, ~kill_all_flag, Head(keys) # "X" PROVE Rest
  <2>1. /\ mpc = "menu" /\ mpc' \in {"create", "clear"} /\ setup' \in Setups
        /\ todo' = StartOrder(setup') /\ all_threads_started' = FALSE
    BY <1>4 DEF MenuKey
  <2>2. /\ todo' \in Seq(Threads) /\ todo' # <<>>
        /\ ToSet(todo') \subseteq InUseNow' /\ InUseNow' \subseteq ToSet(todo') \cup Late
    BY <2>1, StartOrderTrue DEF InUseNow
  <2>3. TodoTrue'
    BY <2>1, <2>2 DEF TodoTrue
  <2>4. Accounted' /\ Kept'
    BY <1>1, <2>1, <2>2 DEF Accounted, Kept, Gone, NotYet
  <2>5. TypeOK'
    BY <1>1, <1>3, <2>1, <2>2, ElementsOf DEF TypeOK
  <2> QED
    BY <2>3, <2>4, <2>5
<1>5. ASSUME LeadKilled PROVE Rest
  <2>1. /\ kill_all_flag /\ UNCHANGED <<setup, all_threads_started>> /\ ~all_threads_started
        /\ \/ mpc' = "stop" /\ todo' = <<"OUTPUT">>
           \/ mpc' = "free" /\ UNCHANGED todo
    BY <1>5 DEF LeadKilled, Accounted
  <2>2. TodoTrue'
    <3>1. CASE todo' = <<"OUTPUT">>
      BY <2>1, <3>1 DEF TodoTrue, Threads
    <3>2. CASE UNCHANGED todo /\ mpc' = "free"
      BY <2>1, <3>2 DEF TodoTrue
    <3> QED
      BY <2>1, <3>1, <3>2
  <2>3. Accounted' /\ Kept'
    BY <1>1, <2>1 DEF Accounted, Kept, Whole
  <2>4. TypeOK'
    BY <1>1, <1>3, <2>1, <2>2, ElementsOf DEF TypeOK, TodoTrue
  <2> QED
    BY <2>2, <2>3, <2>4
<1>6. ASSUME UNCHANGED <<setup, todo, all_threads_started>>, mpc' \in {"menu", "end"},
             mpc' = "menu" => mpc = "menu" \/ (mpc = "free" /\ ~kill_all_flag)
      PROVE  Rest
  BY <1>1, <1>3, <1>6 DEF TodoTrue, Accounted, Kept, TypeOK, Gone, InUseNow, Whole
<1>7. ASSUME UNCHANGED <<setup, todo>>, mpc' = "free",
             \/ mpc \in BeforeAll /\ kill_all_flag /\ all_threads_started' = FALSE
             \/ mpc = "stop" /\ todo = <<>> /\ UNCHANGED all_threads_started
      PROVE  Rest
  <2>1. todo = <<>> => ToSet(todo) = {}
    BY DEF ToSet
  <2>2. TodoTrue' /\ Kept' /\ TypeOK'
    BY <1>1, <1>3, <1>7 DEF TodoTrue, Kept, TypeOK
  <2>3. Accounted'
    BY <1>1, <1>7, <2>1 DEF Accounted, Gone, Whole
  <2> QED
    BY <2>2, <2>3
<1>8. ASSUME UNCHANGED <<setup, todo>>,
             \/ mpc = "ready" /\ mpc' = "create_in" /\ UNCHANGED all_threads_started
             \/ /\ mpc = "out_semclear" /\ mpc' = "started" /\ "TX_OUTPUT" \notin setup
                /\ UNCHANGED all_threads_started
             \/ mpc = "tx_input" /\ mpc' = "started" /\ UNCHANGED all_threads_started
             \/ mpc = "started" /\ mpc' = "in_active" /\ all_threads_started' = TRUE
             \/ mpc = "in_active" /\ mpc' = "loop" /\ UNCHANGED all_threads_started
             \/ mpc = "loop" /\ mpc' = "join_user" /\ UNCHANGED all_threads_started
      PROVE  Rest
  <2>1. "TX_OUTPUT" \notin setup => InUseNow \cap {"TX_OUTPUT", "TX_INPUT"} = {}
    BY SessionAssumption DEF TypeOK, InUseNow, Always
  <2>2. TodoTrue' /\ TypeOK'
    <3>1. TodoTrue'
      BY <1>8 DEF TodoTrue
    <3>2. /\ all_threads_started' \in BOOLEAN
          /\ mpc' \in {"create_in", "started", "in_active", "loop", "join_user"}
      BY <1>8 DEF TypeOK
    <3>3. \A t \in ToSet(todo') : t \in Threads
      BY <1>8 DEF TypeOK
    <3> QED
      BY <1>1, <1>3, <1>8, <3>1, <3>2, <3>3 DEF TypeOK
  <2>3. Accounted'
    BY <1>1, <1>8 DEF Accounted, Gone, InUseNow
  <2>4. Kept'
    BY <1>1, <1>8, <2>1 DEF Kept, NotYet, InUseNow, Late
  <2> QED
    BY <2>2, <2>3, <2>4
<1>10. ASSUME UNCHANGED <<setup, todo, all_threads_started>>, mpc \in Prompting,
              mpc' \in Prompting \cup {"create"}
       PROVE  Rest
  BY <1>1, <1>3, <1>10 DEF TodoTrue, Accounted, Kept, TypeOK, Gone, InUseNow, NotYet, Whole
<1> HIDE DEF Rest
<1>9. Rest
  <2>1. CASE Menu
    BY <2>1, <1>4, <1>6, <1>10 DEF Menu, MenuKey, MenuWake, ClearTest, ClearKey, PromptKey, M
  <2>2. CASE ReadyWait \/ TxInputReady
    BY <2>2, <1>7, <1>8 DEF ReadyWait, TxInputReady, Wait, Accounted, TypeOK
  <2>3. CASE Started
    BY <2>3, <1>7, <1>8 DEF Started, TypeOK
  <2>4. CASE InputActive \/ LoopEnds
    BY <2>4, <1>8 DEF InputActive, LoopEnds, M
  <2>5. CASE OutputLed /\ (kill_all_flag \/ "TX_OUTPUT" \notin setup)
    BY <2>5, <1>7, <1>8 DEF OutputLed, Accounted, TypeOK
  <2>6. CASE TxOutputReady /\ kill_all_flag
    BY <2>6, <1>7 DEF TxOutputReady, Accounted, TypeOK
  <2>7. CASE Stopped
    BY <2>7, <1>7 DEF Stopped, M
  <2>8. CASE Free
    BY <2>8, <1>6 DEF Free
  <2> QED
    BY <2>1, <2>2, <2>3, <2>4, <2>5, <2>6, <2>7, <2>8, <1>5 DEF MoveActs
<1> QED
  BY <1>2, <1>9 DEF Rest

\* The output is led by its command, which is never that of a thread taken off.
LEMMA LeadStep ==
  ASSUME IInv, LeadToIdle \/ LeadToClear
  PROVE  IInv'
<1> USE DEF IInv, BeforeAll, Running, Stopping, LeadToIdle, LeadToClear, Lead, M
<1>1. /\ UNCHANGED <<status, tpc, todo, setup, all_threads_started, killer, errors, keyboard>>
      /\ \A t \in Threads : cmd'[t] = "NOT_ACTIVE" => cmd[t] = "NOT_ACTIVE"
      /\ cmd' \in [Threads -> {"NOT_ACTIVE", "ACTIVE", "IDLE", "SEMCLEAR", "KILL"}]
  BY DEF TypeOK
<1>2. /\ mpc \in {"out_active", "out_idle"} /\ mpc' \in {"out_idle", "out_semclear"}
      /\ ~kill_all_flag
  OBVIOUS
<1> HIDE DEF LeadToIdle, LeadToClear
<1>3. FlagsTrue' /\ StoresTrue' /\ KillTrue' /\ NoStopError'
  BY <1>1 DEF FlagsTrue, StoresTrue, KillTrue, NoStopError, Gone
<1>4. TypeOK' /\ TodoTrue'
  BY <1>1, <1>2 DEF TypeOK, TodoTrue, ToSet
<1>5. Accounted'
  BY <1>1, <1>2 DEF Accounted, Gone, InUseNow, Whole
<1>6. Kept'
  <2>1. InUseNow \subseteq Threads
    BY SessionAssumption DEF TypeOK, InUseNow, Always, Threads
  <2> QED
    BY <1>1, <1>2, <2>1 DEF Kept, NotYet, InUseNow
<1> QED
  BY <1>3, <1>4, <1>5, <1>6

StopActs == UserJoined \/ StopNext \/ StopNone \/ StopWait \/ StopJoin

\* Main takes one thread after the other off its list, which holds all that
\* may still run.
LEMMA StopStep ==
  ASSUME IInv, StopActs
  PROVE  IInv'
<1> USE DEF IInv, BeforeAll, Running, Stopping
<1>1. CASE UserJoined
  <2>1. /\ mpc = "join_user" /\ mpc' = "stop" /\ todo' = StopOrder(setup)
        /\ tpc' = [tpc EXCEPT !["USER"] = "none"]
        /\ UNCHANGED <<cmd, status, setup, all_threads_started, killer, errors, keyboard>>
    BY <1>1 DEF UserJoined, M, Goto
  <2>2. /\ setup \in Setups /\ "USER" \in Threads /\ InUseNow \subseteq Threads
    BY SessionAssumption DEF TypeOK, InUseNow, Always, Threads
  <2>3. /\ todo' \in Seq(Threads) /\ ToSet(todo') = InUseNow \ {"USER"}
        /\ \A i, j \in DOMAIN todo' : todo'[i] = todo'[j] => i = j
    BY <2>1, <2>2, StopOrderTrue DEF Lists, IsInjective, InUseNow
  <2>4. /\ Gone("USER")' /\ \A t \in Threads : Gone(t) => Gone(t)'
        /\ tpc' \in [Threads -> {"none", "init", "run", "store", "held", "spin", "ended"}]
        /\ \A t \in Threads : tpc'[t] = "store" => tpc[t] = "store"
    BY <2>1, <2>2 DEF TypeOK, Gone
  <2>5. TypeOK' /\ TodoTrue' /\ StoresTrue' /\ KillTrue' /\ NoStopError'
    BY <2>1, <2>3, <2>4, ElementsOf DEF TypeOK, TodoTrue, StoresTrue, KillTrue, NoStopError
  <2>6. FlagsTrue'
    BY <2>1, <2>4 DEF FlagsTrue
  <2>7. Accounted'
    BY <2>1, <2>3, <2>4 DEF Accounted
  <2>8. Kept'
    <3>1. \A i \in DOMAIN todo' : todo'[i] \in InUseNow
      BY <2>3 DEF ToSet
    <3>2. NotYet = {}
      BY <2>1 DEF NotYet
    <3> QED
      BY <2>1, <3>1, <3>2 DEF Kept
  <2> QED
    BY <2>5, <2>6, <2>7, <2>8
<1>2. CASE StopNext \/ StopNone \/ StopWait \/ StopJoin
  <2>1. /\ mpc \in Stopping /\ todo # <<>> /\ todo \in Seq(Threads)
    BY <1>2 DEF StopNext, StopNone, StopWait, StopJoin, TodoTrue, M
  <2>2. /\ Head(todo) \in Threads /\ Head(todo) = todo[1] /\ 1 \in DOMAIN todo
        /\ Tail(todo) \in Seq(Threads)
        /\ \A i \in DOMAIN Tail(todo) :
             i \in Nat \ {0} /\ i + 1 \in DOMAIN todo /\ Tail(todo)[i] = todo[i + 1]
        /\ ToSet(todo) = {Head(todo)} \cup ToSet(Tail(todo))
    BY <2>1, TailOf
  <2> DEFINE head == Head(todo)
  <2>3. CASE StopNext
    <3>1. /\ mpc = "stop" /\ mpc' = "stop_wait" /\ cmd[head] # "NOT_ACTIVE"
          /\ cmd' = [cmd EXCEPT ![head] = "KILL"]
          /\ UNCHANGED <<status, tpc, todo, setup, all_threads_started, killer, errors, keyboard>>
      BY <2>3 DEF StopNext
    <3>2. /\ cmd' \in [Threads -> {"NOT_ACTIVE", "ACTIVE", "IDLE", "SEMCLEAR", "KILL"}]
          /\ \A t \in Threads : cmd'[t] = "NOT_ACTIVE" => cmd[t] = "NOT_ACTIVE"
      BY <2>2, <3>1 DEF TypeOK
    <3>3. TypeOK' /\ TodoTrue'
      BY <2>1, <3>1, <3>2, ElementsOf DEF TypeOK, TodoTrue
    <3>4. FlagsTrue' /\ StoresTrue' /\ KillTrue' /\ NoStopError' /\ Accounted'
      BY <3>1, <3>2 DEF FlagsTrue, StoresTrue, KillTrue, NoStopError, Accounted, Gone, Whole
    <3>5. Kept'
      <4>1. \A i \in DOMAIN todo : todo[i] \in Threads
        BY <2>1
      <4> QED
        BY <3>1, <3>2, <4>1 DEF Kept
    <3> QED
      BY <3>3, <3>4, <3>5
  <2>4. CASE StopNone
    <3>1. /\ mpc = "stop" /\ cmd[head] = "NOT_ACTIVE" /\ todo' = Tail(todo)
          /\ UNCHANGED <<threads, mpc, setup, all_threads_started, killer, keyboard>>
      BY <2>4 DEF StopNone
    <3>2. kill_all_flag /\ UNCHANGED errors
      BY <2>2, <2>4, <3>1 DEF StopNone, Kept
    <3>3. Gone(head)
      BY <2>2, <3>1 DEF FlagsTrue
    <3>4. TodoTrue'
      BY <2>2, <3>1 DEF TodoTrue
    <3>5. TypeOK' /\ FlagsTrue' /\ StoresTrue' /\ KillTrue' /\ NoStopError'
      BY <3>1, <3>2, <3>4, ElementsOf
         DEF TypeOK, TodoTrue, FlagsTrue, StoresTrue, KillTrue, NoStopError, Gone
    <3>6. Accounted' /\ Kept'
      BY <2>2, <3>1, <3>2, <3>3 DEF Accounted, Kept, Whole, Gone
    <3> QED
      BY <3>4, <3>5, <3>6
  <2>5. CASE StopWait
    <3>1. /\ mpc = "stop_wait" /\ mpc' = "stop_join" /\ status[head] = "RETURNED"
          /\ cmd' = [cmd EXCEPT ![head] = "NOT_ACTIVE"]
          /\ UNCHANGED <<status, tpc, todo, setup, all_threads_started, killer, errors, keyboard>>
      BY <2>5 DEF StopWait, M
    <3>2. /\ cmd' \in [Threads -> {"NOT_ACTIVE", "ACTIVE", "IDLE", "SEMCLEAR", "KILL"}]
          /\ \A t \in Threads \ {head} : cmd'[t] = cmd[t]
      BY <2>2, <3>1 DEF TypeOK
    <3>3. TypeOK' /\ TodoTrue'
      BY <2>1, <3>1, <3>2, ElementsOf DEF TypeOK, TodoTrue
    <3>4. FlagsTrue' /\ StoresTrue' /\ KillTrue' /\ NoStopError' /\ Accounted'
      BY <3>1, <3>2 DEF FlagsTrue, StoresTrue, KillTrue, NoStopError, Accounted, Gone, Whole
    <3>5. Kept'
      <4>1. \A i \in DOMAIN todo : i # 1 => todo[i] \in Threads \ {head}
        BY <2>1, <2>2, <3>1 DEF TodoTrue
      <4> QED
        BY <3>1, <3>2, <4>1 DEF Kept
    <3> QED
      BY <3>3, <3>4, <3>5
  <2>6. CASE StopJoin
    <3>1. /\ mpc = "stop_join" /\ mpc' = "stop" /\ todo' = Tail(todo)
          /\ status' = [status EXCEPT ![head] = "NOT_ACTIVE"]
          /\ tpc' = [tpc EXCEPT ![head] = "none"]
          /\ UNCHANGED <<cmd, setup, all_threads_started, killer, errors, keyboard>>
      BY <2>6 DEF StopJoin, M, Status, Goto
    <3>2. \A t \in Threads : t = head \/ Gone(t) => Gone(t)'
      BY <2>2, <3>1 DEF TypeOK, Gone
    <3>3. /\ status' \in [Threads -> {"NOT_ACTIVE", "INIT", "ACTIVE", "IDLE", "SEMCLEAR",
                                      "SEM_WAIT", "RETURNED"}]
          /\ tpc' \in [Threads -> {"none", "init", "run", "store", "held", "spin", "ended"}]
          /\ \A t \in Threads : tpc'[t] = "store" => tpc[t] = "store"
          /\ \A t \in Threads : t # head => status'[t] = status[t]
      BY <2>2, <3>1 DEF TypeOK
    <3>4. TodoTrue'
      BY <2>2, <3>1 DEF TodoTrue
    <3>5. TypeOK' /\ StoresTrue' /\ KillTrue' /\ NoStopError'
      BY <3>1, <3>3, <3>4, ElementsOf DEF TypeOK, TodoTrue, StoresTrue, KillTrue, NoStopError
    <3>6. FlagsTrue'
      BY <3>1, <3>2, <3>3 DEF FlagsTrue
    <3>7. Accounted'
      BY <2>2, <3>1, <3>2 DEF Accounted, Whole
    <3>8. Kept'
      <4>1. \A i \in DOMAIN todo' : i + 1 \in DOMAIN todo /\ i + 1 # 1 /\ todo'[i] = todo[i + 1]
        BY <2>2, <3>1
      <4> QED
        BY <3>1, <4>1 DEF Kept
    <3> QED
      BY <3>4, <3>5, <3>6, <3>7, <3>8
  <2> QED
    BY <1>2, <2>3, <2>4, <2>5, <2>6
<1> QED
  BY <1>1, <1>2 DEF StopActs

LEMMA Inductive == IInv /\ [Next]_vars => IInv'
<1> SUFFICES ASSUME IInv, [Next]_vars PROVE IInv'
  OBVIOUS
<1>1. CASE KeyPress \/ KeyEvent \/ EscPress \/ EscKey
  BY <1>1, KeyboardStep
<1>2. CASE ThreadActs
  BY <1>2, ThreadStep
<1>3. CASE KillAll
  BY <1>3, KillStep
<1>4. CASE Main
  <2>1. CASE CreateActs \/ MoveActs \/ StopActs
    BY <2>1, CreateStep, MoveStep, StopStep
  <2>2. CASE LeadToIdle \/ LeadToClear
    BY <2>2, LeadStep
  <2> QED
    BY <1>4, <2>1, <2>2 DEF Main, Start, Stop, CreateActs, MoveActs, StopActs
<1>5. CASE UNCHANGED vars
  BY <1>5 DEF vars, IInv, TypeOK, TodoTrue, FlagsTrue, StoresTrue, KillTrue, Accounted, Kept,
     NoStopError, Gone, InUseNow, NotYet, Whole
<1> QED
  BY <1>1, <1>2, <1>3, <1>4, <1>5 DEF Next, Others, Keyboard, ThreadActs

\* Every variable keeps its type: no thread writes past the ring of keys, and
\* main never looks at the head of a list that is empty.
THEOREM TypeCorrect == Spec => []TypeOK
<1>1. IInv => TypeOK
  BY DEF IInv
<1> QED
  BY <1>1, InvInitial, Inductive, PTL DEF Spec

\* A session that has been started is left with all its threads returned, and no
\* thread is stopped that was never started, whenever X, ESC or an error comes.
THEOREM EndsCleanAlways == Spec => []EndsClean
<1>1. IInv => EndsClean
  BY DEF IInv, EndsClean, Accounted, Whole, NoStopError
<1> QED
  BY <1>1, InvInitial, Inductive, PTL DEF Spec

\* In the menu there are no threads but those of the program itself: the next
\* session starts from where the first one did.
MenuAlone == mpc = "menu" => \A t \in Threads : Gone(t)

\* No thread of a session is alive in the menu, in whatever way the session ended.
THEOREM MenuAloneAlways == Spec => []MenuAlone
<1>1. IInv => MenuAlone
  BY DEF IInv, MenuAlone, Accounted
<1> QED
  BY <1>1, InvInitial, Inductive, PTL DEF Spec

\* From the first round of kill_all on, the code of the error is what it was.
THEOREM FirstErrorKept == Spec => KeepsFirstError
<1>1. IInv /\ [Next]_vars => [kpc \notin {"await", "sleep"} => UNCHANGED lir_errcod]_vars
  <2> SUFFICES ASSUME IInv, Next, kpc \notin {"await", "sleep"}
               PROVE  UNCHANGED lir_errcod
    OBVIOUS
  <2> USE DEF IInv
  <2>1. kill_all_flag /\ \A t \in Threads : tpc[t] # "store"
    BY DEF KillTrue, StoresTrue, TypeOK
  <2>2. CASE KeyPress \/ KeyEvent \/ EscPress \/ EscKey \/ KillAll
    BY <2>2 DEF KeyPress, KeyEvent, EscPress, EscKey, KillAll, KillStart, KillFirst,
       KillRound, KillDone
  <2>3. CASE ThreadActs
    BY <2>1, <2>3, ThreadFrame
  <2>4. CASE Main
    <3>1. CASE Menu
      BY <3>1 DEF Menu, MenuKey, MenuWake, ClearTest, ClearKey, PromptKey
    <3>2. CASE Start
      BY <3>2 DEF Start, Create, ReadyWait, Wait, CreateInput, CreateOutput, LeadToIdle,
         LeadToClear, Lead, LeadKilled, OutputLed, TxOutputReady, TxInputReady, Started,
         InputActive, Created
    <3>3. CASE Stop
      BY <2>1, <3>3 DEF Stop, LoopEnds, UserJoined, StopNext, StopNone, StopWait, StopJoin,
         Stopped, Free
    <3> QED
      BY <2>4, <3>1, <3>2, <3>3 DEF Main
  <2> QED
    BY <2>2, <2>3, <2>4 DEF Next, Others, Keyboard, ThreadActs
<1> QED
  BY <1>1, InvInitial, Inductive, PTL DEF Spec, KeepsFirstError
=============================================================================
