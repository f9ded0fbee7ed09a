------------------------------- MODULE Logger -------------------------------
(***************************************************************************)
(* The logger (utility/logger.*, an Actor) from its start to the end of    *)
(* main (server_main.cpp).  Every thread of the server pushes entries on   *)
(* the bounded buffer and waits when it is full; the logger thread writes  *)
(* them to the console and to the file; main shuts it down last.           *)
(***************************************************************************)
EXTENDS RingBufferMPMC

CONSTANTS Clients,            \* the threads that the destructor of Server joins
          Main, LoggerThread,
          ConsoleOnly,          \* the entries of LOG_CONSOLE
          Ending,               \* LOG_INFO("Main thread", "Ending")
          FileLogging,          \* FILE_LOGGING_ENABLED
          ConsoleOutput,        \* CONSOLE_OUTPUT_ENABLED
          MaxLogs               \* bound: entries after which no log is begun

ASSUME ThreadsAssumption ==
    /\ Threads = Clients \cup {Main, LoggerThread}
    /\ Main \notin Clients
    /\ LoggerThread \notin Clients \cup {Main}
ASSUME EntriesAssumption == ConsoleOnly \subseteq Values /\ Ending \in Values \ ConsoleOnly
ASSUME SettingsAssumption == FileLogging \in BOOLEAN /\ ConsoleOutput \in BOOLEAN

VARIABLES
    isFinishing,     \* m_isFinishing
    loggerpc,        \* where run and processLogs are
    last,            \* is this the processLogs after the finish signal?
    console, file,   \* what was written
    mainpc           \* where main is

loggerVars == <<isFinishing, loggerpc, last, console, file>>
vars == <<ringVars, loggerVars, mainpc>>

TypeOK ==
    /\ RingTypeOK
    /\ isFinishing \in BOOLEAN
    /\ loggerpc \in {"top", "count", "pop", "check", "ended"}
    /\ last \in BOOLEAN
    /\ console \in Seq(Values)
    /\ file \in Seq(Values)
    /\ mainpc \in {"serving", "quitting", "ending", "joining", "exited"}

(* initialise made the buffer, setLogFile opened the file, start was called. *)
Init ==
    /\ RingInit
    /\ isFinishing = FALSE
    /\ loggerpc = "top"
    /\ last = FALSE
    /\ console = <<>>
    /\ file = <<>>
    /\ mainpc = "serving"

-----------------------------------------------------------------------------
(* Threads that log *)

(* log: entries are made by the main thread while it reads commands, and by *)
(* the others until the destructor of Server has joined them.               *)
Log(t, v) ==
    /\ mainpc = "serving" \/ (mainpc = "quitting" /\ t # Main)
    /\ v # Ending
    /\ Len(sent) < MaxLogs
    /\ CallPush(t, v)
    /\ UNCHANGED <<loggerVars, mainpc>>

ThreadStep(t) == RingStep(t) /\ UNCHANGED <<loggerVars, mainpc>>

(* main: the "quit" command leaves run, the destructor joins the threads,   *)
(* then main logs, signals the logger to finish and joins it.               *)
Quit ==
    /\ mainpc = "serving"
    /\ ringpc[Main] = "outside"
    /\ mainpc' = "quitting"
    /\ UNCHANGED <<ringVars, loggerVars>>

ServerDestroyed ==
    /\ mainpc = "quitting"
    /\ \A t \in Clients : ringpc[t] = "outside"
    /\ CallPush(Main, Ending)
    /\ mainpc' = "ending"
    /\ UNCHANGED loggerVars

SendFinishSignal ==
    /\ mainpc = "ending"
    /\ ringpc[Main] = "outside"
    /\ isFinishing' = TRUE
    /\ mainpc' = "joining"
    /\ UNCHANGED <<ringVars, loggerpc, last, console, file>>

Join ==
    /\ mainpc = "joining"
    /\ loggerpc = "ended"
    /\ mainpc' = "exited"
    /\ UNCHANGED <<ringVars, loggerVars>>

MainStep == ServerDestroyed \/ SendFinishSignal \/ Join

-----------------------------------------------------------------------------
(* The logger thread *)

(* With an output enabled, processLogs is called; otherwise run yields, and *)
(* does so for ever, as nothing changes the settings after the start.       *)
Top ==
    /\ loggerpc = "top"
    /\ FileLogging \/ ConsoleOutput
    /\ loggerpc' = "count"
    /\ UNCHANGED <<ringVars, isFinishing, last, console, file, mainpc>>

(* while (m_buffer->count() > 0) m_buffer->pop() ... *)
CountPositive ==
    /\ loggerpc = "count"
    /\ count > 0
    /\ CallPop(LoggerThread)
    /\ loggerpc' = "pop"
    /\ UNCHANGED <<isFinishing, last, console, file, mainpc>>

CountZero ==
    /\ loggerpc = "count"
    /\ count = 0
    /\ loggerpc' = IF last THEN "ended" ELSE "check"
    /\ UNCHANGED <<ringVars, isFinishing, last, console, file, mainpc>>

(* After pop: the entry goes to the enabled outputs. *)
Write ==
    /\ loggerpc = "pop"
    /\ ringpc[LoggerThread] = "outside"
    /\ LET entry == item[LoggerThread]
       IN  /\ console' = IF ConsoleOutput THEN Append(console, entry) ELSE console
           /\ file' = IF FileLogging /\ entry \notin ConsoleOnly
                      THEN Append(file, entry) ELSE file
    /\ loggerpc' = "count"
    /\ UNCHANGED <<ringVars, isFinishing, last, mainpc>>

CheckFinishingBreaks ==      \* for mutation: no processLogs before the break
    /\ loggerpc = "check"
    /\ loggerpc' = IF isFinishing THEN "ended" ELSE "top"
    /\ UNCHANGED <<ringVars, isFinishing, last, console, file, mainpc>>

(* If it is time to finish, a last processLogs. *)
CheckFinishing ==
    /\ loggerpc = "check"
    /\ last' = isFinishing
    /\ loggerpc' = IF isFinishing THEN "count" ELSE "top"
    /\ UNCHANGED <<ringVars, isFinishing, console, file, mainpc>>

LoggerStep ==
    \/ Top
    \/ CountPositive
    \/ CountZero
    \/ Write
    \/ CheckFinishing

Next ==
    \/ \E t \in Clients \cup {Main} : \E v \in Values : Log(t, v)
    \/ \E t \in Threads : ThreadStep(t)
    \/ \E t \in Threads : SpuriousWakeup(t) /\ UNCHANGED <<loggerVars, mainpc>>
    \/ Quit
    \/ MainStep
    \/ LoggerStep

Spec == Init /\ [][Next]_vars

(* Threads run; nothing is assumed of who types "quit", of new entries, nor *)
(* of wake-ups without a notification.                                      *)
FairSpec ==
    /\ Spec
    /\ \A t \in Threads : WF_vars(ThreadStep(t))
    /\ WF_vars(MainStep)
    /\ WF_vars(LoggerStep)

-----------------------------------------------------------------------------
(* Properties *)

(* "output" is what is left of "entries" without those for the console:     *)
(* "at" tells where each entry of it was.                                   *)
IsFileOf(output, entries) ==
    \E at \in [DOMAIN output -> DOMAIN entries] :
        /\ \A i, j \in DOMAIN output : i < j => at[i] < at[j]
        /\ \A k \in DOMAIN entries :
              entries[k] \notin ConsoleOnly <=> \E i \in DOMAIN output : at[i] = k
        /\ \A i \in DOMAIN output : output[i] = entries[at[i]]

(* When shutdown has returned, every entry anybody logged is on the console *)
(* and, unless it is for the console only, in the file, in the order of the *)
(* pushes: the finish signal can come between the logger's look at the      *)
(* buffer and its look at the signal.                                       *)
EverythingWrittenAtExit ==
    mainpc = "exited" =>
        /\ ConsoleOutput => console = sent
        /\ FileLogging => IsFileOf(file, sent)

(* "quit : Shutdowns the server": the command ends the program.  Threads    *)
(* asleep on the full buffer must be woken, and the logger must see the     *)
(* finish signal.                                                           *)
QuitShutsDown == mainpc = "quitting" ~> mainpc = "exited"

-----------------------------------------------------------------------------
(* The inductive invariant of the proofs *)

(* Only the logger thread pops, and only inside processLogs. *)
CallersInv ==
    /\ \A t \in Clients \cup {Main} : ringpc[t] \in {"outside", "push", "notFull", "pushed"}
    /\ ringpc[LoggerThread] \in {"outside", "pop", "notEmpty", "popped"}
    /\ loggerpc # "pop" => ringpc[LoggerThread] = "outside"

(* What was popped is written, but for the entry in the logger's hands.     *)
InHand == loggerpc = "pop" /\ ringpc[LoggerThread] \in {"popped", "outside"}
Written == IF InHand THEN SubSeq(received, 1, Len(received) - 1) ELSE received

WrittenInv ==
    /\ InHand => item[LoggerThread] \in Values /\ received = Append(Written, item[LoggerThread])
    /\ ConsoleOutput => console = Written
    /\ FileLogging => IsFileOf(file, Written)

(* Nobody logs after the finish signal, and the logger ends only when it    *)
(* has seen the signal and, after that, an empty buffer.                    *)
FinishInv ==
    /\ isFinishing <=> mainpc \in {"joining", "exited"}
    /\ last => isFinishing
    /\ mainpc \in {"ending", "joining", "exited"} => \A t \in Clients : ringpc[t] = "outside"
    /\ mainpc \in {"joining", "exited"} => ringpc[Main] = "outside"
    /\ loggerpc = "ended" => last /\ count = 0
    /\ mainpc = "exited" => loggerpc = "ended"

LoggerInv ==
    /\ TypeOK
    /\ RingInv
    /\ CallersInv
    /\ WrittenInv
    /\ FinishInv
=============================================================================
