-------------------------------- MODULE MCData --------------------------------
(***************************************************************************)
(* The parts that keep or convert data: the classes of MCDataBase, and the *)
(* buffer, the settings, the chat session, the loop events and the pure    *)
(* conversions.  One part at a time: part is chosen at first and never     *)
(* changes, the variables of the others keep one of their first values.    *)
(***************************************************************************)
EXTENDS MCDataBase, Buffer, ConfigFile, ChatSession, LoopEventList, Conversions

dataVars == <<partVars, vars, cfgVars, chatVars, listVars, packingVars>>

Line(name, value) == name \o <<Equals>> \o value \o <<NL>>

\* Settings of a, b and bb whose values are plain, hold a comment, a '=' or blanks, are
\* empty, and are one too long for PairMax = 6.
A == <<97>>
B == <<98>>
BB == <<98, 98>>
MCSettings == { <<A, <<49, 50, 51>> >>, <<A, <<49, 35, 50>> >>,
                <<B, <<49, 50, 51, 52>> >>, <<B, <<61, 32>> >>,
                <<BB, <<49, 50>> >>, <<BB, <<>> >> }

\* A name with blanks, a comment and the same name again; a line without '=', one without a
\* name, and one that fgets takes in two pieces.
MCTexts == { <<>>,
             Line(<<32, 98, 9>>, <<49>>) \o <<35, 61, 49, NL>> \o Line(B, <<50, 13>>),
             <<97, NL, 61, 49, NL>> \o Line(BB, [i \in 1..12 |-> 97]) \o <<97, 61, 50>> }

Pack(flag, origin, compress) == [flag |-> flag, originSize |-> origin, compressSize |-> compress]
MCPackages == {Pack("UNCOMPRESSED", 1, 0), Pack("UNCOMPRESSED", 3, 0), Pack("COMPRESSED", 2, 3),
               Pack("COMPRESSED", 1, 3), Pack("UNCOMPRESSED", 4, 0), Pack("COMPRESSED", 1, 0)}

DataInit ==
  /\ MCInit /\ Init /\ ListInit
  /\ IF part = "config" THEN ConfigInit
     ELSE ConfigInit /\ file = <<>>
  /\ ChatInit /\ (part # "chat" => retrieves)
  /\ IF part = "packing" THEN PackingInit /\ (packet = <<>> \/ number = 0)
     ELSE packet = <<>> /\ number = 0

DataNext ==
  \/ MCNext /\ UNCHANGED <<vars, cfgVars, chatVars, listVars, packingVars>>
  \/ /\ UNCHANGED <<partVars, packingVars>>
     /\ \/ part = "buffer" /\ Next /\ UNCHANGED <<cfgVars, chatVars, listVars>>
        \/ part = "config" /\ ConfigNext /\ UNCHANGED <<vars, chatVars, listVars>>
        \/ part = "chat" /\ ChatNext /\ UNCHANGED <<vars, cfgVars, listVars>>
        \/ part = "list" /\ ListNext /\ UNCHANGED <<vars, cfgVars, chatVars>>

DataSpec == DataInit /\ [][DataNext]_dataVars
==============================================================================
