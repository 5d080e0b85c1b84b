------------------------------- MODULE KaDBConn -------------------------------
(***************************************************************************)
(* DataBase/KaMysql/KaDBManager.cpp, class KaDBConn: one connection to     *)
(* MySQL, used by one thread at a time.  A statement is its kind, what the *)
(* server answers to it: "write" (no result set), "select" (one), "call"   *)
(* (one, and a status after it), "bad" (an error).                         *)
(*                                                                         *)
(* The client library is external.  It refuses a statement while a result  *)
(* of the one before is unread (CR_COMMANDS_OUT_OF_SYNC), answers          *)
(* CR_SERVER_GONE_ERROR when it could not send it, and any other error     *)
(* when the answer was lost, whether the statement ran or not.             *)
(***************************************************************************)
EXTENDS Naturals

CONSTANT MaxLeaked      \* bound: handles that mysql_init may return in vain

Kinds == {"write", "select", "call", "bad"}

VARIABLES m_mysql,      \* "NULL", "idle" (never connected) or "connected"
          unread,       \* what must be read from it first: "none", "result",
                        \* or "status", the end of a call
          leaked,       \* handles that nothing points to any more
          last,         \* the last call: how often it ran, what it returned
          executed      \* execute ran a statement that has a result set

dbConnVars == <<m_mysql, unread, leaked, last, executed>>

NoCall == [method |-> "none", kind |-> "write", ran |-> 0, ret |-> "NULL"]

\* KaDBConn::KaDBConn.
DBConnInit ==
  /\ m_mysql = "NULL"
  /\ unread = "none"
  /\ leaked = 0
  /\ last = NoCall
  /\ executed = FALSE

-----------------------------------------------------------------------------
\* A handle and a count of lost ones, and whether it is ready.
Handle(m, u, l) == [mysql |-> m, unread |-> u, leaked |-> l]
Now == Handle(m_mysql, unread, leaked)

\* KaDBConn::Init: mysql_init always makes a new handle, the one before is
\* lost.  -1: none was made; -2: mysql_real_connect failed; 0.
InitHandle(h) ==
  LET l == IF h.mysql = "NULL" THEN h.leaked ELSE h.leaked + 1 IN
  {[rc |-> "failed", h |-> Handle("NULL", "none", l)],
   [rc |-> "failed", h |-> Handle("idle", "none", l)],
   [rc |-> "ok", h |-> Handle("connected", "none", l)]}

\* mysql_real_query: its error, how often the statement ran, and what is left
\* to be read.
real_query(h, kind) ==
  IF h.unread # "none"
  THEN {[err |-> "out of sync", ran |-> 0, unread |-> h.unread]}
  ELSE IF h.mysql = "idle" THEN {[err |-> "gone", ran |-> 0, unread |-> "none"]}
  ELSE {[err |-> "gone", ran |-> 0, unread |-> "none"],
        [err |-> "lost", ran |-> 0, unread |-> "none"],
        [err |-> "lost", ran |-> 1, unread |-> "none"],
        IF kind = "bad" THEN [err |-> "bad", ran |-> 0, unread |-> "none"]
        ELSE [err |-> "none", ran |-> 1,
              unread |-> IF kind = "write" THEN "none" ELSE "result"]}

\* mysql_store_result reads the result set; a call has its status after it.
\* There is none after a write.
store_result(kind) == IF kind = "call" THEN "status" ELSE "none"

Done(method, h, u, kind, ran, ret) ==
  /\ m_mysql' = h.mysql
  /\ unread' = u
  /\ leaked' = h.leaked
  /\ last' = [method |-> method, kind |-> kind, ran |-> ran, ret |-> ret]

\* Retries whatever the error was.
Again_Always(r) == r.err # "none"
\* if(CR_SERVER_GONE_ERROR == Error): one more attempt.
Again(r) == r.err = "gone"

\* The result of a statement that ran is left unread.
Stored_Not(h, kind, ran) == Done("query", h, "result", kind, ran, "result")

\* mysql_store_result: without a result set query returns NULL as well.
Stored(h, kind, ran) ==
  Done("query", h, store_result(kind), kind, ran,
       IF kind = "write" THEN "NULL" ELSE "result")

Failed(h, u, kind, ran) == Done("query", h, u, kind, ran, "NULL")

\* The second attempt, through a connection made for it.
Retry(h, kind, ran) ==
  \E o \in InitHandle(h) :
    IF o.rc = "failed" THEN Failed(o.h, "none", kind, ran)
    ELSE \E r \in real_query(o.h, kind) :
           IF r.err = "none" THEN Stored(o.h, kind, ran + r.ran)
           ELSE Failed(o.h, r.unread, kind, ran + r.ran)

\* The first attempt.
Attempt(h, kind) ==
  \E r \in real_query(h, kind) :
    CASE r.err = "none" -> Stored(h, kind, r.ran)
      [] Again(r) -> Retry(h, kind, r.ran)
      [] OTHER -> Failed(h, r.unread, kind, r.ran)

\* query, and pquery when vsnprintf formats its statement.
query(kind) ==
  /\ leaked < MaxLeaked
  /\ IF m_mysql = "NULL"
     THEN \E o \in InitHandle(Now) : IF o.rc = "failed" THEN Failed(o.h, "none", kind, 0)
                               ELSE Attempt(o.h, kind)
     ELSE Attempt(Now, kind)
  /\ UNCHANGED executed

\* pquery gives up on a format it cannot use.
pqueryUnformatted(kind) ==
  /\ Done("query", Now, unread, kind, 0, "NULL")
  /\ UNCHANGED executed

\* execute does not connect, does not retry, and does not read the result.
execute(kind) ==
  /\ IF m_mysql = "NULL" THEN Done("execute", Now, unread, kind, 0, "false")
     ELSE \E r \in real_query(Now, kind) :
            Done("execute", Now, r.unread, kind, r.ran,
                 IF r.err = "none" THEN "true" ELSE "false")
  /\ executed' = (executed \/ unread' = "result")

\* clearStoreResults: mysql_next_result steps over the status of a call, and
\* fails while the result before it is unread.
clearStoreResults ==
  /\ unread' = IF m_mysql # "NULL" /\ unread = "status" THEN "none" ELSE unread
  /\ last' = [NoCall EXCEPT !.method = "clear"]
  /\ UNCHANGED <<m_mysql, leaked, executed>>

DBConnNext ==
  \/ \E kind \in Kinds : query(kind) \/ pqueryUnformatted(kind) \/ execute(kind)
  \/ clearStoreResults

DBConnSpec == DBConnInit /\ [][DBConnNext]_dbConnVars

-----------------------------------------------------------------------------
DBConnTypeOK ==
  /\ m_mysql \in {"NULL", "idle", "connected"}
  /\ unread \in {"none", "result", "status"}
  /\ leaked \in Nat
  /\ last \in [method : {"none", "query", "execute", "clear"}, kind : Kinds,
               ran : Nat, ret : {"NULL", "result", "true", "false"}]
  /\ executed \in BOOLEAN

\* No statement runs twice in one call, though query sends it again on a new
\* connection: only a statement that was never sent is repeated (lines 65-78);
\* and a result that is returned is that of a run.
RunsAtMostOnce ==
  /\ last.ran <= 1
  /\ last.ret \in {"result", "true"} => last.ran = 1

\* A connection is lost for good (every statement is refused from then on) only
\* by an execute whose result nobody read: query reads its own (line 87).
SpoiltOnlyByExecute == unread = "result" => executed

\* What query leaves unread, the status of a call, is cleared by
\* clearStoreResults, and only that: a result left by execute stays for ever.
SpoiltForGood == [][unread = "result" => unread' = "result"]_dbConnVars

=============================================================================
