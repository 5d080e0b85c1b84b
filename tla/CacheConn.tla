------------------------------ MODULE CacheConn ------------------------------
(***************************************************************************)
(* DataBase/KaRedis/KaCachePool.cpp, class CacheConn: one redis connection *)
(* and its commands.  A CacheConn is used by one thread at a time (the     *)
(* pool lends it), so a command is one step; hiredis, the network and the  *)
(* server may answer it, refuse it, or lose it before or after the server  *)
(* ran it.  The text of commands and values is left out: a reply is its    *)
(* type, a result is what the caller can make of it.                       *)
(*                                                                         *)
(* `hist' is what an observer of the server and of the connection counts:  *)
(* it does not influence the steps.                                        *)
(***************************************************************************)
EXTENDS Integers

CONSTANTS DbNum,      \* KaIM_DBNUM, a database other than the default 0
          MaxTime     \* bound: time(NULL) stays below it

ASSUME CacheConnAssumption == DbNum \in Nat \ {0} /\ MaxTime \in Nat

RetryAfter == 4

VARIABLES conn,       \* the members of the object, and the context's database
          cacheNow,   \* time(NULL)
          result,     \* what the last call returned, and the reply it got
          hist,       \* counts of attempts, losses, ...
          corrupt     \* memory was used after it was freed

connVars == <<conn, cacheNow, result, hist, corrupt>>

\* CacheConn::CacheConn.  The epoch is long past.
ConnInit ==
  /\ conn = [m_pContext |-> "NULL", m_last_connect_time |-> 0, db |-> 0]
  /\ cacheNow = RetryAfter
  /\ result = [reply |-> "none", value |-> "empty"]
  /\ hist = [attempts |-> 0, lost |-> 0, blind |-> 0,
             refused |-> FALSE, stray |-> FALSE, existLost |-> FALSE]
  /\ corrupt = FALSE

-----------------------------------------------------------------------------
Outcome(rc, c) == [rc |-> rc, c |-> c]

\* Init without the four seconds between attempts.
InitOutcomes_Unthrottled(c) ==
  IF c.m_pContext # "NULL" THEN {Outcome(0, c)}
  ELSE LET tried == [c EXCEPT !.m_last_connect_time = cacheNow] IN
       {Outcome(1, tried),
        Outcome(0, [tried EXCEPT !.m_pContext = "live", !.db = DbNum])}

\* Init that takes a connection for ready before a database is selected.
InitOutcomes_NoSelect(c) ==
  IF c.m_pContext # "NULL" THEN {Outcome(0, c)}
  ELSE IF cacheNow < c.m_last_connect_time + RetryAfter THEN {Outcome(1, c)}
  ELSE LET tried == [c EXCEPT !.m_last_connect_time = cacheNow] IN
       {Outcome(1, tried),
        Outcome(0, [tried EXCEPT !.m_pContext = "live", !.db = 0])}

\* CacheConn::Init: what it may return and leave behind.  A context is kept as
\* it is; without one, no attempt is made within four seconds of the last; an
\* attempt fails (1), or connects and has its "select" refused or lost (2, and
\* the context stays, in database 0), or succeeds (0).
InitOutcomes(c) ==
  IF c.m_pContext # "NULL" THEN {Outcome(0, c)}
  ELSE IF cacheNow < c.m_last_connect_time + RetryAfter THEN {Outcome(1, c)}
  ELSE LET tried == [c EXCEPT !.m_last_connect_time = cacheNow] IN
       {Outcome(1, tried),
        Outcome(2, [tried EXCEPT !.m_pContext = "live", !.db = 0]),
        Outcome(0, [tried EXCEPT !.m_pContext = "live", !.db = DbNum])}

\* What m_pContext is after a command without a reply: redisFree, and NULL;
Drop == "NULL"

\* isExist frees the context and keeps the pointer.
Dangle == "freed"

Tried(o) == o.c.m_last_connect_time # conn.m_last_connect_time

\* hist after Init: an attempt was made, its select was refused.
HistInit(o) ==
  [hist EXCEPT !.attempts = @ + (IF Tried(o) THEN 1 ELSE 0),
               !.refused = @ \/ o.rc = 2]

\* Init() fails and the method returns.
NotReady(o, failure) ==
  /\ o.rc # 0
  /\ conn' = o.c
  /\ result' = [reply |-> "none", value |-> failure]
  /\ hist' = HistInit(o)
  /\ UNCHANGED corrupt

\* redisCommand through a freed context: anything may happen.
UseAfterFree(o) ==
  /\ o.rc = 0 /\ o.c.m_pContext = "freed"
  /\ corrupt' = TRUE
  /\ UNCHANGED <<conn, result, hist>>

\* No reply to `name': the server may have run it all the same.  Every method sends
\* its command once and gives up.
Lost(o, name, failure, left) ==
  /\ o.rc = 0 /\ o.c.m_pContext = "live"
  /\ conn' = [o.c EXCEPT !.m_pContext = left]
  /\ result' = [reply |-> "none", value |-> failure]
  /\ \E ran \in 0..1 :
       hist' = [HistInit(o) EXCEPT
                  !.lost = @ + 1, !.blind = @ + ran,
                  !.stray = @ \/ (ran > 0 /\ o.c.db # DbNum),
                  !.existLost = @ \/ name = "EXISTS"]
  /\ UNCHANGED corrupt

\* A reply: the server ran the command in the context's database.
Answered(o, answers) ==
  /\ o.rc = 0 /\ o.c.m_pContext = "live"
  /\ conn' = o.c
  /\ result' \in answers
  /\ hist' = [HistInit(o) EXCEPT !.stray = @ \/ o.c.db # DbNum]
  /\ UNCHANGED corrupt

Exists == ~corrupt /\ conn.m_pContext # "deleted"

\* A method: Init(), one redisCommand, and one of the answers to it, or failure.
Method(name, answers, failure, left) ==
  /\ Exists
  /\ \E o \in InitOutcomes(conn) :
       \/ NotReady(o, failure)
       \/ UseAfterFree(o)
       \/ Lost(o, name, failure, left)
       \/ Answered(o, answers)
  /\ UNCHANGED cacheNow

-----------------------------------------------------------------------------
ReplyTypes == {"STRING", "NIL", "STATUS", "INTEGER", "ARRAY", "ERROR"}

\* A reply of one of these types and what the method converts it to.  A server may
\* refuse any command with an error.
As(converted, replies) ==
  {[reply |-> r, value |-> converted[r]] : r \in replies \cup {"ERROR"}}

\* reply->integer, which is 0 in a reply of another type.
Integer == [r \in ReplyTypes |-> IF r = "INTEGER" THEN "integer" ELSE "0"]
\* std::string(reply->str, reply->len), whatever the type of the reply.
Text == [r \in ReplyTypes |-> CASE r = "ERROR" -> "error text" [] r = "NIL" -> "empty"
                                 [] OTHER -> "value"]
True == [r \in ReplyTypes |-> "true"]
\* reply->integer # 0
Truth == [r \in ReplyTypes |-> IF r = "INTEGER" THEN "true or false" ELSE "false"]
StringOnly == [r \in ReplyTypes |-> IF r = "STRING" THEN "value" ELSE "empty"]

get == Method("GET", As(StringOnly, {"STRING", "NIL"}), "empty", Drop)
setExpire == Method("SETEX", As(Text, {"STATUS"}), "empty", Drop)
set == Method("SET", As(Text, {"STATUS"}), "empty", Drop)

\* mget: without keys nothing is sent (after Init()); the command is "MGET"
\* and the first key in one word, which no server knows.
mget ==
  \/ Method("MGET", As(True, {}), "false", Drop)
  \/ /\ Exists
     /\ \E o \in InitOutcomes(conn) : /\ conn' = o.c
                              /\ hist' = HistInit(o)
     /\ result' = [reply |-> "none", value |-> "false"]
     /\ UNCHANGED <<cacheNow, corrupt>>

isExist == Method("EXISTS", As(Truth, {"INTEGER"}), "false", Dangle)

incrBy == Method("INCRBY", As(Integer, {"INTEGER"}), "-1", Drop)
incr == Method("INCR", As(Integer, {"INTEGER"}), "-1", Drop)
decr == Method("DECR", As(Integer, {"INTEGER"}), "-1", Drop)
hdel == Method("HDEL", As(Integer, {"INTEGER"}), "0", Drop)
\* hget sends "GET key field", which a server refuses, and returns the text of
\* the reply.
hget == Method("GET", As(Text, {}), "empty", Drop)
\* hgetAll sends "HEGTALL": the reply is an error, nothing is inserted.
hgetAll == Method("HEGTALL", As(True, {}), "false", Drop)
hset == Method("HSET", As(Integer, {"INTEGER"}), "-1", Drop)
hincrBy == Method("HINCRBY", As(Integer, {"INTEGER"}), "-1", Drop)
hmset == Method("HMSET", As(Text, {"STATUS"}), "empty", Drop)
hmget == Method("HMGET", As(True, {"ARRAY"}), "false", Drop)

lpush == Method("LPUSH", As(Integer, {"INTEGER"}), "-1", Drop)
rpush == Method("RPUSH", As(Integer, {"INTEGER"}), "-1", Drop)
llen == Method("LLEN", As(Integer, {"INTEGER"}), "-1", Drop)
lrange == Method("LRANGE", As(True, {"ARRAY"}), "false", Drop)

\* CacheConn::~CacheConn: frees the context it still points to.
Delete ==
  /\ Exists
  /\ corrupt' = (conn.m_pContext = "freed")
  /\ conn' = [conn EXCEPT !.m_pContext = "deleted"]
  /\ UNCHANGED <<cacheNow, result, hist>>

\* Wall-clock time passes, or is set back.
Clock ==
  /\ Exists
  /\ \/ cacheNow < MaxTime /\ cacheNow' = cacheNow + 1
     \/ cacheNow > RetryAfter /\ cacheNow' = cacheNow - 1
  /\ UNCHANGED <<conn, result, hist, corrupt>>

ConnNext ==
  \/ get \/ setExpire \/ set \/ mget \/ isExist \/ incrBy \/ incr \/ decr
  \/ hdel \/ hget \/ hgetAll \/ hset \/ hincrBy \/ hmset \/ hmget
  \/ lpush \/ rpush \/ llen \/ lrange
  \/ Delete \/ Clock

ConnSpec == ConnInit /\ [][ConnNext]_connVars

-----------------------------------------------------------------------------
Pointers == {"NULL", "live", "freed", "deleted"}
Values == {"empty", "value", "error text", "-1", "0", "integer",
           "true", "false", "true or false"}

ConnTypeOK ==
  /\ conn \in [m_pContext : Pointers, m_last_connect_time : Nat,
                db : {0, DbNum}]
  /\ cacheNow \in Nat
  /\ result \in [reply : ReplyTypes \cup {"none"}, value : Values]
  /\ hist \in [attempts : Nat, lost : Nat, blind : Nat,
                refused : BOOLEAN, stray : BOOLEAN, existLost : BOOLEAN]
  /\ corrupt \in BOOLEAN

\* Every command that got no reply closed a connection, so it took a new
\* attempt, and attempts are four seconds apart by whatever clock time(NULL)
\* shows: a caller that retries for ever loses at most one command in four
\* seconds (lines 28-40 with the `!reply' branch of every method).
AtMostOneLossPerInterval ==
  /\ hist.lost + (IF conn.m_pContext = "live" THEN 1 ELSE 0) <= hist.attempts
  /\ RetryAfter * hist.attempts <= conn.m_last_connect_time

\* A command reported as failed was run at most once: no method sends it
\* again, so INCR or LPUSH is never applied twice by one call.
RunAtMostOnce == hist.blind <= hist.lost

\* A pointer to a freed context, and its use, come from isExist alone
\* (line 196): every other method forgets the context it frees.
StaleOnlyAfterIsExist ==
  corrupt \/ conn.m_pContext = "freed" => hist.existLost

\* A command runs in a database other than the configured one only after a
\* "select" was refused (lines 58-68).
StrayOnlyAfterRefusal == hist.stray => hist.refused

\* What a caller who repeats its commands for ever may lose, and what may have run
\* without its knowing.
LossesAreBounded == AtMostOneLossPerInterval /\ RunAtMostOnce

\* m_pContext is the session its commands are meant for: live unless isExist was
\* there, and on the configured database unless the server refused it.
ContextIsRight == ConnTypeOK /\ StaleOnlyAfterIsExist /\ StrayOnlyAfterRefusal

=============================================================================
