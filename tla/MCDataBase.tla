------------------------------ MODULE MCDataBase ------------------------------
(***************************************************************************)
(* The classes under DataBase for TLC.  They share no state, so TLC        *)
(* explores the behaviours of one class at a time: `part' says which, and  *)
(* the variables of the others stay as they are in one initial state.      *)
(***************************************************************************)
EXTENDS CacheConn, KaCacheManager, KaDBConn, KaDBPool, QueryResult

CONSTANTS Parts,            \* the classes an instance explores
          t1, t2, t3, t4, m1, m2, m3, c1, c2, c3, c4

VARIABLE part

MCCallers == {t1, t2}
MCManagers == {m1, m2, m3}
MCThreads == {t1, t2, t3, t4}
MCConns == {c1, c2, c3, c4}

partVars == <<part, connVars, managerVars, dbConnVars, dbPoolVars, resultVars>>

MCInit ==
  /\ part \in Parts
  /\ ConnInit /\ ManagerInit /\ DBConnInit
  /\ DBPoolInit /\ (part # "DBPool" => free_list = <<c1, c2>>)
  /\ IF part = "QueryResult" THEN ResultInit
     ELSE /\ table = [names |-> <<>>, types |-> <<>>, rows |-> <<>>]
          /\ m_Result = FALSE /\ m_CurrentRow = <<>> /\ cursor = 0
          /\ copied = <<>>

MCNext ==
  /\ UNCHANGED part
  /\ \/ /\ part = "CacheConn" /\ ConnNext
        /\ UNCHANGED <<managerVars, dbConnVars, dbPoolVars, resultVars>>
     \/ /\ part = "KaCacheManager" /\ ManagerNext
        /\ UNCHANGED <<connVars, dbConnVars, dbPoolVars, resultVars>>
     \/ /\ part = "KaDBConn" /\ DBConnNext
        /\ UNCHANGED <<connVars, managerVars, dbPoolVars, resultVars>>
     \/ /\ part = "DBPool" /\ DBPoolNext
        /\ UNCHANGED <<connVars, managerVars, dbConnVars, resultVars>>
     \/ /\ part = "QueryResult" /\ ResultNext
        /\ UNCHANGED <<connVars, managerVars, dbConnVars, dbPoolVars>>

=============================================================================
