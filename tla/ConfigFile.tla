------------------------------ MODULE ConfigFile ------------------------------
(***************************************************************************)
(* Util/ConfigFileReader.cpp: the settings of a program, read from a text  *)
(* file when the program starts and written back, all of them, each time   *)
(* one is set.  Text is a sequence of character codes, for the conversions *)
(* between lines and settings are what the properties are about; the sizes *)
(* of the two line buffers are constants.                                  *)
(*                                                                         *)
(* A write is a step per line.  stdio keeps what is written until fclose,  *)
(* or until its own buffer is full, so a program that dies, a write that   *)
(* fails and a disk that is full at fclose leave any beginning of it.      *)
(***************************************************************************)
EXTENDS Integers, Sequences, SequencesExt

CONSTANTS LineMax,      \* characters fgets takes: sizeof buf - 1, 255
          PairMax,      \* characters snprintf keeps: sizeof szPaire - 1, 127
          Settings,     \* pairs <<name, value>> the program sets
          FileTexts     \* what the file may hold before the program runs

\* No text holds the NUL that ends a string of C.
CString == Seq(1..255)

\* A line that snprintf made fits the buffer it is read into.
ASSUME ConfigAssumption ==
  /\ LineMax \in Nat /\ PairMax \in 1..LineMax
  /\ Settings \subseteq CString \X CString
  /\ FileTexts \subseteq CString

VARIABLES file,         \* the bytes on the disk
          m_has_load,
          m_config_map,
          at,           \* "none": no reader; "ready"; "writing"
          left,         \* names WriteToFile has still to write
          stream,       \* what it wrote since fopen
          setResult     \* what the last SetConfigValue returned

cfgVars == <<file, m_has_load, m_config_map, at, left, stream, setResult>>

NL == 10
Hash == 35
Equals == 61
Blanks == {9, 13, 32}

-----------------------------------------------------------------------------
(* From a line to a setting and back.                                      *)

\* Where c stands first in s; past the end when it does not.
FirstAt(s, c) == CHOOSE i \in 1..(Len(s) + 1) :
                   /\ i <= Len(s) => s[i] = c
                   /\ \A j \in 1..(i - 1) : s[j] # c

\* TrimSpace; it answers NULL when nothing is left.  (Of an empty or blank name it also looks
\* at the byte before the line.)
TrimSpace(s) ==
  LET kept == {i \in DOMAIN s : s[i] \notin Blanks}
  IN  IF kept = {} THEN <<>>
      ELSE SubSeq(s, CHOOSE i \in kept : \A j \in kept : i <= j,
                     CHOOSE i \in kept : \A j \in kept : j <= i)

\* A line without its newline and without its comment.
Bare(s) == LET t == SubSeq(s, 1, FirstAt(s, NL) - 1)
           IN  SubSeq(t, 1, FirstAt(t, Hash) - 1)

NoSettings == [n \in {} |-> <<>>]

\* insert: a name that the map has keeps its value.
Insert(map, more) == [n \in DOMAIN map \cup DOMAIN more |->
                        IF n \in DOMAIN map THEN map[n] ELSE more[n]]

\* The setting in a line, if there is one: a map of at most one name.
ParseLine(s) ==
  LET p == FirstAt(s, Equals)
      key == TrimSpace(SubSeq(s, 1, p - 1))
      value == TrimSpace(SubSeq(s, p + 1, Len(s)))
  IN  IF p > Len(s) \/ key = <<>> \/ value = <<>> THEN NoSettings
      ELSE [n \in {key} |-> value]

\* Where the line that begins at p ends: fgets.
LineEnd(text, p) == CHOOSE e \in p..Len(text) :
                      /\ text[e] = NL \/ e = p + LineMax - 1 \/ e = Len(text)
                      /\ \A i \in p..(e - 1) : text[i] # NL /\ i # p + LineMax - 1

\* LoadFile's loop.
Loaded(text) ==
  LET from[p \in 1..(Len(text) + 1)] ==
        IF p > Len(text) THEN NoSettings
        ELSE LET e == LineEnd(text, p)
             IN  Insert(ParseLine(Bare(SubSeq(text, p, e))), from[e + 1])
  IN  from[1]

\* "%s=%s".
PairLine_NoNewline(pair) ==
  LET line == pair[1] \o <<Equals>> \o pair[2]
  IN  SubSeq(line, 1, IF Len(line) < PairMax THEN Len(line) ELSE PairMax)

\* The line snprintf makes of a pair: cut to the size of szPaire.
PairLine(pair) ==
  LET line == pair[1] \o <<Equals>> \o pair[2] \o <<NL>>
  IN  SubSeq(line, 1, IF Len(line) < PairMax THEN Len(line) ELSE PairMax)

\* The order of a std::map of strings.
Less(s, t) ==
  \E i \in 1..(Len(s) + 1) :
    /\ \A j \in 1..(i - 1) : j \in DOMAIN t /\ s[j] = t[j]
    /\ i <= Len(t)
    /\ i <= Len(s) => s[i] < t[i]

\* Where the iterator stands of a walk that has still these names to visit.
Least(names) == {n \in names : \A m \in names \ {n} : Less(n, m)}

Beginnings(s) == {SubSeq(s, 1, n) : n \in 0..Len(s)}

-----------------------------------------------------------------------------
(* The program.                                                            *)

ConfigInit ==
  /\ file \in FileTexts
  /\ m_has_load = FALSE /\ m_config_map = NoSettings
  /\ at = "none" /\ left = {} /\ stream = <<>>
  /\ setResult = 0

\* The constructor, and LoadFile.  Nothing gives m_has_load a value when fopen fails.
LoadFile(canOpen) ==
  /\ at = "none" /\ at' = "ready"
  /\ IF canOpen THEN m_has_load' = TRUE /\ m_config_map' = Loaded(file)
     ELSE m_has_load' \in BOOLEAN /\ m_config_map' = NoSettings
  /\ setResult' = 0
  /\ UNCHANGED <<file, left, stream>>

GetConfigName(name) ==
  IF m_has_load /\ name \in DOMAIN m_config_map THEN m_config_map[name] ELSE <<>>

\* fopen for update leaves the old text in place.
Truncated_Not(text) == text

\* What fopen(..., "w") leaves of the file.
Truncated(text) == <<>>

\* SetConfigValue, up to the fopen of WriteToFile.
SetConfigValue(name, value, canOpen) ==
  /\ at = "ready"
  /\ IF ~m_has_load THEN setResult' = -1 /\ UNCHANGED <<file, m_config_map, at, left, stream>>
     ELSE /\ m_config_map' = Insert([n \in {name} |-> value], m_config_map)
          /\ IF canOpen
             THEN /\ file' = Truncated(file)
                  /\ at' = "writing" /\ left' = DOMAIN m_config_map' /\ stream' = <<>>
                  /\ UNCHANGED setResult
             ELSE setResult' = -1 /\ UNCHANGED <<file, at, left, stream>>
  /\ UNCHANGED m_has_load

\* fwrite of one pair.
WritePair ==
  /\ at = "writing"
  /\ \E n \in Least(left) :
       /\ stream' = stream \o PairLine(<<n, m_config_map[n]>>)
       /\ left' = left \ {n}
  /\ UNCHANGED <<file, m_has_load, m_config_map, at, setResult>>

\* The disk holds the beginning s of the stream over what fopen left there.
Over(s, text) == s \o SubSeq(text, Len(s) + 1, Len(text))

\* fwrite fails: the stream is closed with what it holds.
WriteFails ==
  /\ at = "writing"
  /\ \E n \in Least(left) :
       \E s \in Beginnings(stream \o PairLine(<<n, m_config_map[n]>>)) : file' = Over(s, file)
  /\ at' = "ready" /\ left' = {} /\ stream' = <<>> /\ setResult' = -1
  /\ UNCHANGED <<m_has_load, m_config_map>>

\* fclose, whose answer is not looked at.
CloseFile(diskFull) ==
  /\ at = "writing" /\ left = {}
  /\ at' = "ready" /\ stream' = <<>>
  /\ \E s \in IF diskFull THEN Beginnings(stream) ELSE {stream} : file' = Over(s, file)
  /\ setResult' = 0
  /\ UNCHANGED <<m_has_load, m_config_map, left>>

\* The program ends, in the middle of a write or not.
Dies ==
  /\ at # "none" /\ at' = "none"
  /\ \E s \in Beginnings(stream) : file' = Over(s, file)
  /\ m_has_load' = FALSE /\ m_config_map' = NoSettings
  /\ left' = {} /\ stream' = <<>>
  /\ UNCHANGED setResult

ConfigNext ==
  \/ \E ok \in BOOLEAN : LoadFile(ok) \/ CloseFile(ok)
  \/ \E s \in Settings, ok \in BOOLEAN : SetConfigValue(s[1], s[2], ok)
  \/ WritePair \/ WriteFails \/ Dies

ConfigSpec == ConfigInit /\ [][ConfigNext]_cfgVars

-----------------------------------------------------------------------------
(* Properties.                                                             *)

\* Settings a file can hold: names without '=', '#' or outer blanks, nothing with a newline,
\* and pairs that are written whole.
Tidy(map) ==
  \A n \in DOMAIN map :
    /\ n # <<>> /\ TrimSpace(n) = n
    /\ \A c \in {NL, Hash, Equals} : c \notin ToSet(n)
    /\ NL \notin ToSet(map[n])
    /\ Len(n) + Len(map[n]) + 2 <= PairMax

\* What a value comes back as: cut at '#', without outer blanks.
Back(value) == TrimSpace(SubSeq(value, 1, FirstAt(value, Hash) - 1))

\* When a write has gone through, a program that starts on the file knows the names this one
\* knows, unless nothing is left of their values, and reads for each what GetConfigName
\* answers here, cut and trimmed (ConfigFileReader.cpp:92, 54).
SettingsSurvive ==
  [][CloseFile(FALSE) /\ Tidy(m_config_map) =>
       LET new == Loaded(file')
       IN  /\ DOMAIN new = {n \in DOMAIN m_config_map : Back(m_config_map[n]) # <<>>}
           /\ \A n \in DOMAIN new : new[n] = Back(GetConfigName(n))]_cfgVars

\* A write that was cut short, by an error, a full disk or the end of the program, loses
\* settings from the last name backwards and spoils at most one, whose value it cuts: a name
\* is never given a value that is not the beginning of its own (ConfigFileReader.cpp:97, 113).
LossIsAtTheEnd ==
  [][(at = "writing" /\ at' # "writing" /\ Tidy(m_config_map)) =>
       LET old == m_config_map
           new == Loaded(file')
       IN  /\ DOMAIN new \subseteq DOMAIN old
           /\ \A n \in DOMAIN new :
                /\ \E s \in Beginnings(old[n]) : new[n] = Back(s)
                /\ \A m \in DOMAIN old : Less(m, n) /\ Back(old[m]) # <<>> =>
                     m \in DOMAIN new /\ new[m] = Back(old[m])]_cfgVars
==============================================================================
