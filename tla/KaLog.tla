--------------------------------- MODULE KaLog ---------------------------------
(***************************************************************************)
(* Util/KaLog.cpp: the asynchronous log.  Any thread calls output, which   *)
(* queues the line in m_listLine; one writer thread prints the lines and   *)
(* appends them to a file, which it changes when it has grown too large;   *)
(* uninit tells the writer to stop and joins it.  A FATAL line bypasses    *)
(* the queue: the calling thread writes it itself, without the mutex, and  *)
(* then crashes the program.                                               *)
(*                                                                         *)
(* A line is known by its length.  A line below m_nCurrentLevel leaves no  *)
(* trace: Output is a call that passes.  The time in a file's name decides *)
(* only whether fopen finds the last file again (two files in one second). *)
(***************************************************************************)
EXTENDS Integers, Sequences

CONSTANTS Lines,       \* the lines that are logged
          MaxLogSize,  \* m_MaxLogSize, the roll size given to init
          ToFile,      \* whether init was given a file name
          CanFail,     \* whether fopen and fwrite may fail
          MaxLines,    \* bound on the lines logged
          MaxStarts    \* bound on the calls of init

ASSUME ConstantsAssumption ==
  /\ Lines \subseteq Nat \ {0}
  /\ MaxLogSize \in Nat
  /\ ToFile \in BOOLEAN /\ CanFail \in BOOLEAN
  /\ MaxLines \in Nat /\ MaxStarts \in Nat

NULL == 0              \* no file; files are numbered from 1 in the order of fopen

VARIABLES
  list,      \* m_listLine
  exit,      \* m_Exit
  h,         \* m_hLogFile
  written,   \* m_CurrentWrittenSize
  wpc,       \* where writeThreadProc is
  taken,     \* strLine in writeThreadProc, a sequence of at most one line
  upc,       \* where uninit is
  starts,    \* calls of init
  files,     \* the size of each file
  open,      \* the files that are open
  accepted,  \* every line queued, in order
  shown,     \* every line printed by the writer, in order
  filed,     \* every line written to a file by the writer, in order
  due,       \* lines the writer must have written before it returns
  failed,    \* a writer has returned because of the file
  fpc,       \* where a FATAL call of output is
  onRecord   \* the FATAL line is in a file

\* What a FATAL call shares with the writer, and what is its own.
fileVars == <<h, files, open>>
fatalVars == <<fpc, onRecord>>
vars == <<list, exit, h, written, wpc, taken, upc, starts, files, open,
          accepted, shown, filed, due, failed, fpc, onRecord>>

Init ==
  /\ list = <<>> /\ exit = FALSE /\ h = NULL /\ written = 0
  /\ wpc = "none" /\ taken = <<>> /\ upc = "idle" /\ starts = 0
  /\ files = <<>> /\ open = {}
  /\ accepted = <<>> /\ shown = <<>> /\ filed = <<>>
  /\ due = 0 /\ failed = FALSE
  /\ fpc = "idle" /\ onRecord = FALSE

Alive == fpc # "crashed"

\* m_mutexWrite is held across actions only by a writer that is about to wait.
MutexFree == wpc # "toWait"

-----------------------------------------------------------------------------
(* init, output and uninit, called by the program's threads.               *)

\* What the writer has made of the lines.
Delivered == IF ToFile THEN filed ELSE shown

\* init starts the writer.  Again after uninit: m_Exit is not reset.
Start ==
  /\ Alive /\ starts < MaxStarts
  /\ upc = "done" \/ wpc = "none"
  /\ starts' = starts + 1
  /\ wpc' = "roll" /\ upc' = "idle" /\ taken' = <<>>
  /\ due' = Len(Delivered) + Len(list)
  /\ UNCHANGED <<list, exit, written, accepted, shown, filed, failed>>
  /\ UNCHANGED fileVars /\ UNCHANGED fatalVars

\* m_CV.notify_one()
Notified == IF wpc = "asleep" THEN "check" ELSE wpc

\* The line is put at the front.
Output_Front(x) ==
  /\ Alive /\ MutexFree /\ Len(accepted) < MaxLines
  /\ list' = <<x>> \o list /\ accepted' = Append(accepted, x)
  /\ wpc' = Notified
  /\ UNCHANGED <<exit, written, taken, upc, starts, shown, filed, due, failed>>
  /\ UNCHANGED fileVars /\ UNCHANGED fatalVars

\* Nobody is told.
Output_Silent(x) ==
  /\ Alive /\ MutexFree /\ Len(accepted) < MaxLines
  /\ list' = Append(list, x) /\ accepted' = Append(accepted, x)
  /\ UNCHANGED <<exit, written, wpc, taken, upc, starts, shown, filed, due, failed>>
  /\ UNCHANGED fileVars /\ UNCHANGED fatalVars

\* output of any level but FATAL: queued and notified under the mutex.
Output(x) ==
  /\ Alive /\ MutexFree /\ Len(accepted) < MaxLines
  /\ list' = Append(list, x) /\ accepted' = Append(accepted, x)
  /\ wpc' = Notified
  /\ UNCHANGED <<exit, written, taken, upc, starts, shown, filed, due, failed>>
  /\ UNCHANGED fileVars /\ UNCHANGED fatalVars

\* uninit sets m_Exit and notifies, both without the mutex.
UninitExit ==
  /\ Alive /\ wpc # "none" /\ upc = "idle"
  /\ exit' = TRUE /\ upc' = "notify"
  /\ due' = IF exit THEN due ELSE Len(accepted)
  /\ UNCHANGED <<list, written, wpc, taken, starts, accepted, shown, filed, failed>>
  /\ UNCHANGED fileVars /\ UNCHANGED fatalVars

UninitNotify ==
  /\ Alive /\ upc = "notify"
  /\ wpc' = Notified /\ upc' = "join"
  /\ UNCHANGED <<list, exit, written, taken, starts, accepted, shown, filed, due, failed>>
  /\ UNCHANGED fileVars /\ UNCHANGED fatalVars

\* The writer is joined and the file closed.
UninitJoin ==
  /\ Alive /\ upc = "join" /\ wpc = "gone"
  /\ upc' = "done" /\ h' = NULL /\ open' = open \ {h}
  /\ UNCHANGED <<list, exit, written, wpc, taken, starts, files, accepted, shown,
                 filed, due, failed>>
  /\ UNCHANGED fatalVars

-----------------------------------------------------------------------------
(* writeThreadProc.                                                        *)

NeedFile == h = NULL \/ written >= MaxLogSize

\* The head of the loop: is a new file needed?
WriterRoll ==
  /\ Alive /\ wpc = "roll"
  /\ wpc' = IF ToFile /\ NeedFile THEN "close" ELSE "check"
  /\ UNCHANGED <<list, exit, written, taken, upc, starts, accepted, shown, filed,
                 due, failed>>
  /\ UNCHANGED fileVars /\ UNCHANGED fatalVars

\* createNewFile closes the old file.
WriterClose ==
  /\ Alive /\ wpc = "close"
  /\ wpc' = "open" /\ open' = open \ {h}
  /\ UNCHANGED <<list, exit, h, written, taken, upc, starts, files, accepted, shown,
                 filed, due, failed>>
  /\ UNCHANGED fatalVars

\* The writer returns because of the file.
Fails ==
  /\ CanFail
  /\ wpc' = "gone" /\ failed' = TRUE

\* createNewFile opens a file: a new one, or the last again.
WriterOpen ==
  /\ Alive /\ wpc = "open"
  /\ \/ /\ wpc' = "check" /\ UNCHANGED failed
        /\ \/ files' = Append(files, 0)
           \/ files # <<>> /\ files' = files
        /\ h' = Len(files') /\ open' = open \cup {Len(files')}
     \/ Fails /\ h' = NULL /\ UNCHANGED <<files, open>>
  /\ UNCHANGED <<list, exit, written, taken, upc, starts, accepted, shown, filed, due>>
  /\ UNCHANGED fatalVars

\* m_Exit is looked at before the list.
WriterCheck_ExitFirst ==
  /\ Alive /\ wpc = "check"
  /\ \/ /\ exit
        /\ wpc' = "gone" /\ UNCHANGED <<list, taken>>
     \/ /\ ~exit /\ list = <<>>
        /\ wpc' = "toWait" /\ UNCHANGED <<list, taken>>
     \/ /\ ~exit /\ list # <<>>
        /\ taken' = <<Head(list)>> /\ list' = Tail(list) /\ wpc' = "print"
  /\ UNCHANGED <<exit, written, upc, starts, accepted, shown, filed, due, failed>>
  /\ UNCHANGED fileVars /\ UNCHANGED fatalVars

\* m_Exit is looked at only before the first wait.
WriterCheck_NoExit ==
  /\ Alive /\ wpc = "check"
  /\ \/ /\ list = <<>>
        /\ wpc' = "toWait" /\ UNCHANGED <<list, taken>>
     \/ /\ list # <<>>
        /\ taken' = <<Head(list)>> /\ list' = Tail(list) /\ wpc' = "print"
  /\ UNCHANGED <<exit, written, upc, starts, accepted, shown, filed, due, failed>>
  /\ UNCHANGED fileVars /\ UNCHANGED fatalVars

\* With the mutex: return, or decide to wait, or take the first line.
WriterCheck ==
  /\ Alive /\ wpc = "check"
  /\ \/ /\ list = <<>> /\ exit
        /\ wpc' = "gone" /\ UNCHANGED <<list, taken>>
     \/ /\ list = <<>> /\ ~exit
        /\ wpc' = "toWait" /\ UNCHANGED <<list, taken>>
     \/ /\ list # <<>>
        /\ taken' = <<Head(list)>> /\ list' = Tail(list) /\ wpc' = "print"
  /\ UNCHANGED <<exit, written, upc, starts, accepted, shown, filed, due, failed>>
  /\ UNCHANGED fileVars /\ UNCHANGED fatalVars

\* m_CV.wait: asleep, and the mutex released.
WriterWait ==
  /\ Alive /\ wpc = "toWait"
  /\ wpc' = "asleep"
  /\ UNCHANGED <<list, exit, written, taken, upc, starts, accepted, shown, filed,
                 due, failed>>
  /\ UNCHANGED fileVars /\ UNCHANGED fatalVars

\* A condition variable may wake without being notified.
SpuriousWake ==
  /\ Alive /\ wpc = "asleep"
  /\ wpc' = "check"
  /\ UNCHANGED <<list, exit, written, taken, upc, starts, accepted, shown, filed,
                 due, failed>>
  /\ UNCHANGED fileVars /\ UNCHANGED fatalVars

WriterPrint ==
  /\ Alive /\ wpc = "print"
  /\ shown' = shown \o taken
  /\ IF ToFile THEN wpc' = "write" /\ UNCHANGED taken
               ELSE wpc' = "roll" /\ taken' = <<>>
  /\ UNCHANGED <<list, exit, written, upc, starts, accepted, filed, due, failed>>
  /\ UNCHANGED fileVars /\ UNCHANGED fatalVars

\* writeToFile into a file that is open.
WriterWrite ==
  /\ Alive /\ wpc = "write" /\ h \in open
  /\ \/ /\ wpc' = "roll" /\ taken' = <<>> /\ UNCHANGED failed
        /\ filed' = filed \o taken
        /\ written' = written + taken[1]
        /\ files' = [files EXCEPT ![h] = @ + taken[1]]
     \/ Fails /\ UNCHANGED <<taken, filed, written, files>>
  /\ UNCHANGED <<list, exit, h, upc, starts, open, accepted, shown, due>>
  /\ UNCHANGED fatalVars

\* writeToFile with a FILE* that a FATAL call has closed (it seems to succeed,
\* or fails, or crashes), or with none (it crashes).
WriterWriteClosed ==
  /\ Alive /\ wpc = "write" /\ h \notin open
  /\ \/ /\ h # NULL
        /\ wpc' = "roll" /\ taken' = <<>> /\ written' = written + taken[1]
        /\ UNCHANGED <<failed, fpc>>
     \/ /\ h # NULL
        /\ wpc' = "gone" /\ failed' = TRUE /\ UNCHANGED <<taken, written, fpc>>
     \/ fpc' = "crashed" /\ UNCHANGED <<wpc, failed, taken, written>>
  /\ UNCHANGED <<list, exit, upc, starts, accepted, shown, filed, due, onRecord>>
  /\ UNCHANGED fileVars

\* fclose of a file that is closed already (by a FATAL call, or under it).
DoubleClose ==
  /\ Alive /\ h # NULL /\ h \notin open
  /\ wpc = "close" \/ fpc = "close" \/ (upc = "join" /\ wpc = "gone")
  /\ fpc' = "crashed"
  /\ UNCHANGED <<list, exit, written, wpc, taken, upc, starts, accepted, shown, filed,
                 due, failed, onRecord>>
  /\ UNCHANGED fileVars

WriterStep == \/ WriterRoll \/ WriterClose \/ WriterOpen \/ WriterCheck
              \/ WriterWait \/ WriterPrint \/ WriterWrite

-----------------------------------------------------------------------------
(* output of level FATAL, by one of the program's threads.                 *)

othersUnchanged == UNCHANGED <<list, exit, written, wpc, taken, upc, starts, accepted,
                               shown, filed, due, failed>>

FatalBegin ==
  /\ fpc = "idle"
  /\ fpc' = IF ~ToFile THEN "crashed" ELSE IF h = NULL THEN "close" ELSE "write"
  /\ UNCHANGED onRecord /\ UNCHANGED fileVars /\ othersUnchanged

FatalClose ==
  /\ fpc = "close"
  /\ fpc' = "open" /\ open' = open \ {h}
  /\ UNCHANGED <<h, files, onRecord>> /\ othersUnchanged

\* When the file cannot be created output returns, and the program goes on.
FatalOpen ==
  /\ fpc = "open"
  /\ \/ /\ fpc' = "write" /\ files' = Append(files, 0)
        /\ h' = Len(files') /\ open' = open \cup {h'}
     \/ CanFail /\ fpc' = "idle" /\ h' = NULL /\ UNCHANGED <<files, open>>
  /\ UNCHANGED onRecord /\ othersUnchanged

\* writeToFile, whose result is ignored; an open file takes the line.
FatalWrite ==
  /\ fpc = "write"
  /\ \/ fpc' = "toCrash" /\ onRecord' = (h \in open)
     \/ (CanFail \/ h \notin open) /\ fpc' = "toCrash" /\ UNCHANGED onRecord
  /\ UNCHANGED fileVars /\ othersUnchanged

Crash ==
  /\ fpc = "toCrash"
  /\ fpc' = "crashed"
  /\ UNCHANGED onRecord /\ UNCHANGED fileVars /\ othersUnchanged

Fatal == FatalBegin \/ FatalClose \/ FatalOpen \/ FatalWrite \/ Crash

-----------------------------------------------------------------------------
Program == Start \/ UninitExit \/ UninitNotify \/ UninitJoin
           \/ \E x \in Lines : Output(x)

\* Without FATAL lines.
Next == Program \/ WriterStep \/ SpuriousWake

\* With FATAL lines.
NextFatal == Next \/ WriterWriteClosed \/ DoubleClose \/ Fatal

Spec == Init /\ [][Next]_vars
FatalSpec == Init /\ [][NextFatal]_vars

\* The writer is a thread of its own and is scheduled; so is the thread that
\* calls uninit.  Nothing makes the program log, or a spurious wakeup happen.
Fairness == WF_vars(WriterStep) /\ WF_vars(UninitNotify) /\ WF_vars(UninitJoin)
FairSpec == Spec /\ Fairness

-----------------------------------------------------------------------------
\* The file's handle is valid whenever the writer is past opening it, and it is
\* the only open file.
TypeOK ==
  /\ list \in Seq(Lines) /\ accepted \in Seq(Lines)
  /\ shown \in Seq(Lines) /\ filed \in Seq(Lines)
  /\ exit \in BOOLEAN /\ failed \in BOOLEAN /\ onRecord \in BOOLEAN
  /\ written \in Nat /\ due \in Nat /\ starts \in Nat
  /\ files \in Seq(Nat)
  /\ h \in 0..Len(files)
  /\ wpc \in {"none", "roll", "close", "open", "check", "toWait", "asleep",
              "print", "write", "gone"}
  /\ taken \in {<<>>} \cup {<<x>> : x \in Lines}
  /\ upc \in {"idle", "notify", "join", "done"}
  /\ fpc = "idle"
  /\ open = IF wpc = "open" \/ h = NULL THEN {} ELSE {h}
  /\ wpc \in {"check", "toWait", "asleep", "print", "write"} /\ ToFile => h # NULL

\* Every line queued is, in the order of queueing, in a file (or printed, if
\* there is no file), in the writer's hands or in the queue: none is lost,
\* written twice or overtaken.
InOrder == failed \/ Delivered \o taken \o list = accepted

\* A writer that returns has written every line queued before m_Exit was set.
Drained == wpc = "gone" /\ ~failed => Len(Delivered) >= due

\* A writer that waits, or has decided to, has nothing to write.
NoLineAsleep == wpc \in {"toWait", "asleep"} => list = <<>>

\* A line queued while m_Exit is not set ends up written, unless the file fails.
EveryLineWritten ==
  \A n \in 1..MaxLines :
    (Len(accepted) >= n /\ ~exit /\ wpc # "none") ~> (Len(Delivered) >= n \/ failed)

\* uninit returns if the writer is asleep when m_Exit is set: the notification
\* reaches it.  (uninit may hang when the writer has looked at m_Exit and is about
\* to wait: the notification, sent without the mutex, is lost.)
UninitEnds == (upc = "notify" /\ wpc = "asleep") ~> upc = "done"

\* What reaches the standard output is the queued lines in their order, whatever a
\* FATAL line and the failures of the file do.
PrintedInOrder ==
  shown \o (IF wpc = "print" THEN taken ELSE <<>>) \o list = accepted

\* KaLog.cpp:211: the program crashes after the FATAL line is written.
FatalOnRecord == fpc = "crashed" /\ ToFile => onRecord
=============================================================================
