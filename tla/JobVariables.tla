----------------------------- MODULE JobVariables -----------------------------
(***************************************************************************)
(* The variables of a job: Init resolves the ${..} in their values, the    *)
(* script gets them as its environment, and exportEnv reads what the       *)
(* script has left in the file of its environment back into the result.    *)
(* The loops over a Go map take its keys in any order.                     *)
(*                                                                         *)
(* A text is a sequence of characters, since the indexes of the scanner    *)
(* are what goes wrong; the names of variables have one character.         *)
(***************************************************************************)
EXTENDS Integers, Sequences, SequencesExt, FiniteSets, FiniteSetsExt

CONSTANTS
    Names,      \* the names of the variables
    Givens,     \* what the server sends: functions from Names to texts
    Systems,    \* the environment of the agent: likewise, <<>> for unset
    Filters,    \* EnvFilters, as names
    MaxLen      \* bound: a text that has grown longer grows no more

NewLine == "\n"
Space == " "
TarHeader == "H"     \* what a docker daemon sends before the content of a file

ASSUME VariablesAssumption ==
    /\ Givens \union Systems \subseteq [Names -> Seq(STRING)]
    /\ Filters \subseteq Names /\ MaxLen \in Nat
    /\ Names \intersect {"$", "{", "}", "=", NewLine, Space, TarHeader} = {}

VARIABLES
    given, system,  \* what the job starts with
    docker,         \* it is a docker executor
    v,              \* the Variables
    pc,             \* "system" and "own", the loops of Resolve; "scan"; "write",
                    \* "read" and "done"; or "panic"
    pass,           \* the loop of Resolve that a scan is in
    todo,           \* the keys that are left of a loop
    scan,           \* parseVariablesFrom: [key, src, i]
    file,           \* the file of the environment
    order,          \* the order in which it was written
    output          \* result.Output

vars == <<given, system, docker, v, pc, pass, todo, scan, file, order, output>>

IndexesOf(text, c) == {i \in DOMAIN text : text[i] = c}
Placeholder(name) == <<"$", "{">> \o name \o <<"}">>
Occurs(text, part, at) ==
    at + Len(part) - 1 <= Len(text) /\ SubSeq(text, at, at + Len(part) - 1) = part

\* strings.Replace, for a part that does not overlap itself
Replace(text, part, by) ==
    LET starts == {i \in DOMAIN text : Occurs(text, part, i)}
    IN FlattenSeq([i \in DOMAIN text |->
           IF i \in starts THEN by
           ELSE IF \E s \in starts : s < i /\ i < s + Len(part) THEN <<>>
           ELSE <<text[i]>>])

-----------------------------------------------------------------------------
(***************************************************************************)
(* Resolve and parseVariablesFrom                                          *)
(***************************************************************************)
ResolveKey ==
    /\ pc \in {"system", "own"} /\ todo # {}
    /\ \E k \in todo : /\ scan' = [key |-> k, src |-> v[k], i |-> 1]
                       /\ todo' = todo \ {k}
    /\ pass' = pc /\ pc' = "scan"
    /\ UNCHANGED <<given, system, docker, v, file, order, output>>

ResolveEnds ==
    /\ pc \in {"system", "own"} /\ todo = {}
    /\ pc' = IF pc = "system" THEN "own" ELSE "write"
    /\ todo' = Names
    /\ UNCHANGED <<given, system, docker, v, pass, scan, file, order, output>>

\* os.Getenv, or the variables themselves as they are by now
GetVariable(name) ==
    IF Len(name) # 1 \/ name[1] \notin Names THEN <<>>
    ELSE IF pass = "system" THEN system[name[1]] ELSE v[name[1]]

Char(i) == scan.src[i]
RightBrackets == {r \in IndexesOf(scan.src, "}") : r > scan.i + 1}
RIndex == Min(RightBrackets)
Env == SubSeq(scan.src, scan.i + 2, RIndex - 1)
Val == IF RightBrackets = {} THEN <<>> ELSE GetVariable(Env)
Skips ==   \* the iteration changes nothing
    \/ Char(scan.i) # "$"
    \/ /\ scan.i < Len(scan.src)
       /\ Char(scan.i + 1) # "{" \/ Val = <<>>
Scanning == pc = "scan" /\ scan.i <= Len(scan.src)

\* .. nor do those up to the next $
ScanNext ==
    /\ Scanning /\ Skips
    /\ scan' = [scan EXCEPT !.i = Min({Len(scan.src) + 1}
                                  \union {j \in IndexesOf(scan.src, "$") : j > scan.i})]
    /\ UNCHANGED <<given, system, docker, v, pc, pass, todo, file, order, output>>

\* (mutant) a $ without a name in brackets is not expected
ScanPanicsUnclosed ==
    /\ Scanning /\ Char(scan.i) = "$"
    /\ scan.i = Len(scan.src) \/ RightBrackets = {}
    /\ pc' = "panic"
    /\ UNCHANGED <<given, system, docker, v, pass, todo, scan, file, order, output>>

\* src[lIndex] after a $ at the end
ScanPanics ==
    /\ Scanning /\ Char(scan.i) = "$" /\ scan.i = Len(scan.src)
    /\ pc' = "panic"
    /\ UNCHANGED <<given, system, docker, v, pass, todo, scan, file, order, output>>

\* (mutant) the first occurrence only is replaced
ScanReplacesFirst ==
    /\ Scanning /\ scan.i < Len(scan.src) /\ ~Skips
    /\ Len(scan.src) <= MaxLen
    /\ scan' = [scan EXCEPT !.src = SubSeq(@, 1, scan.i - 1) \o Val
                                    \o SubSeq(@, RIndex + 1, Len(@)),
                            !.i = RIndex + 1]
    /\ UNCHANGED <<given, system, docker, v, pc, pass, todo, file, order, output>>

\* (mutant) the scan starts again after a replacement, and never ends
ScanReplacesAgain ==
    /\ Scanning /\ scan.i < Len(scan.src) /\ ~Skips
    /\ scan' = [scan EXCEPT !.i = 1]
    /\ UNCHANGED <<given, system, docker, v, pc, pass, todo, file, order, output>>

\* the index of the text before the replacement is used in the text after it
ScanReplaces ==
    /\ Scanning /\ scan.i < Len(scan.src) /\ ~Skips
    /\ Len(scan.src) <= MaxLen
    /\ scan' = [scan EXCEPT !.src = Replace(@, Placeholder(Env), Val),
                            !.i = RIndex + 1]
    /\ UNCHANGED <<given, system, docker, v, pc, pass, todo, file, order, output>>

ScanEnds ==
    /\ pc = "scan" /\ scan.i > Len(scan.src)
    /\ v' = [v EXCEPT ![scan.key] = scan.src]
    /\ pc' = pass
    /\ UNCHANGED <<given, system, docker, pass, todo, scan, file, order, output>>

-----------------------------------------------------------------------------
(***************************************************************************)
(* The environment of the script, and what comes back of it                *)
(***************************************************************************)
\* ToStringArray, and env > file
WriteEnv ==
    /\ pc = "write" /\ todo # {}
    /\ \E k \in todo : /\ file' = file \o <<k, "=">> \o v[k] \o <<NewLine>>
                       /\ order' = Append(order, k)
                       /\ todo' = todo \ {k}
    /\ UNCHANGED <<given, system, docker, v, pc, pass, scan, output>>

\* exportEnv: os.Open, or CopyFromContainer, whose answer is an archive
OpenFile ==
    /\ pc = "write" /\ todo = {}
    /\ pc' = "read"
    /\ file' = IF docker THEN <<TarHeader>> \o file ELSE file
    /\ UNCHANGED <<given, system, docker, v, pass, todo, scan, order, output>>

TrimSpace(text) ==
    LET solid == {i \in DOMAIN text : text[i] # Space}
    IN IF solid = {} THEN <<>> ELSE SubSeq(text, Min(solid), Max(solid))
MatchEnvFilter(key) == \E f \in Filters : key # <<>> /\ key[1] = f
Line == SubSeq(file, 1, Min(IndexesOf(file, NewLine)) - 1)

\* (mutant) the key ends at the last = of the line
ReadEnvLastEqual ==
    /\ pc = "read" /\ IndexesOf(file, NewLine) # {}
    /\ LET line == TrimSpace(Line)
           equals == IndexesOf(line, "=")
           key == SubSeq(line, 1, Max(equals) - 1)
       IN output' = IF equals = {} \/ ~MatchEnvFilter(key) THEN output
                    ELSE [k \in DOMAIN output \union {key} |->
                            IF k = key THEN SubSeq(line, Max(equals) + 1, Len(line))
                            ELSE output[k]]
    /\ file' = SubSeq(file, Len(Line) + 2, Len(file))
    /\ UNCHANGED <<given, system, docker, v, pc, pass, todo, scan, order>>

\* readEnvFromReaderForUnix, getEnvKeyAndValForUnix
ReadEnv ==
    /\ pc = "read" /\ IndexesOf(file, NewLine) # {}
    /\ LET line == TrimSpace(Line)
           equals == IndexesOf(line, "=")
           key == SubSeq(line, 1, Min(equals) - 1)
       IN output' = IF equals = {} \/ ~MatchEnvFilter(key) THEN output
                    ELSE [k \in DOMAIN output \union {key} |->
                            IF k = key THEN SubSeq(line, Min(equals) + 1, Len(line))
                            ELSE output[k]]
    /\ file' = SubSeq(file, Len(Line) + 2, Len(file))
    /\ UNCHANGED <<given, system, docker, v, pc, pass, todo, scan, order>>

ReadEnds ==
    /\ pc = "read" /\ IndexesOf(file, NewLine) = {}
    /\ pc' = "done"
    /\ UNCHANGED <<given, system, docker, v, pass, todo, scan, file, order, output>>

-----------------------------------------------------------------------------
Init ==
    /\ given \in Givens /\ system \in Systems /\ docker \in BOOLEAN
    /\ v = given /\ pc = "system" /\ pass = "system" /\ todo = Names
    /\ scan = [key |-> CHOOSE k \in Names : TRUE, src |-> <<>>, i |-> 1]
    /\ file = <<>> /\ order = <<>> /\ output = <<>>

Resolve == ResolveKey \/ ResolveEnds \/ ScanNext \/ ScanPanics \/ ScanReplaces \/ ScanEnds
Next == Resolve \/ WriteEnv \/ OpenFile \/ ReadEnv \/ ReadEnds
Spec == Init /\ [][Next]_vars /\ WF_vars(Resolve)

-----------------------------------------------------------------------------
(***************************************************************************)
(* Properties                                                              *)
(***************************************************************************)
\* every ${name} of a text replaced at once by the value of source, if it has one
Expand(text, source) ==
    LET starts == [n \in Names |-> IF source[n] = <<>> THEN {}
                                   ELSE {i \in IndexesOf(text, "$") : Occurs(text, Placeholder(<<n>>), i)}]
        inside == UNION {(i + 1)..(i + 3) : i \in UNION {starts[n] : n \in Names}}
        At(i) == {n \in Names : i \in starts[n]}
    IN FlattenSeq([i \in DOMAIN text |->
           IF At(i) # {} THEN source[CHOOSE n \in At(i) : TRUE]
           ELSE IF i \in inside THEN <<>> ELSE <<text[i]>>])
Refers(text) == {n \in Names : \E i \in IndexesOf(text, "$") : Occurs(text, Placeholder(<<n>>), i)}
OnlyPlaceholders(text) ==
    \A i \in IndexesOf(text, "$") : \E n \in Names : Occurs(text, Placeholder(<<n>>), i)
\* the scanner expands the text exactly: no value that is used holds a part of a
\* placeholder, and none is shorter than one, unless it is the only one there
Exact(text, source) ==
    LET used == {n \in Refers(text) : source[n] # <<>>}
    IN /\ \A n \in used : \A c \in {"$", "{", "}"} : IndexesOf(source[n], c) = {}
       /\ \/ \A n \in used : Len(source[n]) >= 4
          \/ OnlyPlaceholders(text) /\ \E n \in used : used = {n}
Ends(text, c) == text # <<>> /\ Last(text) = c

\* Resolve replaces every ${name} by its value in the environment of the agent and
\* then in the variables, in whatever order it takes them, as long as no value
\* that is used refers to a third one and no short value comes before another
\* placeholder.
ResolveIsExact ==
    pc = "write" /\ todo = Names /\ (\A n \in Names : Exact(given[n], system)) =>
        LET first == [k \in Names |-> Expand(given[k], system)]
        IN \A k \in Names : Exact(first[k], first) => v[k] = Expand(first[k], first)

\* Resolve panics only if a value that it reads ends in a $: no other text takes
\* parseVariablesFrom beyond its end, although it goes on in a text that has
\* another length than the one it has searched.
PanicsAtEndOnly ==
    pc = "panic" => \E k \in Names : Ends(given[k], "$") \/ Ends(system[k], "$")

\* Resolve comes to an end, unless a variable refers to itself, directly or through
\* others, and its text grows without bound: the scan of such a value may find its
\* placeholder again for ever.
Acyclic ==
    \E rank \in [Names -> 1..Cardinality(Names)] :
        \A k \in Names : \A n \in Refers(given[k]) : rank[n] < rank[k]
ResolveReturns ==
    <>(pc \in {"write", "panic"} \/ (Len(scan.src) > MaxLen /\ ~Acyclic))

\* A variable that a filter names comes back in the result with the value the
\* script had, if no value has a line break and its own has no space at its end;
\* in a docker container all but the first variable of the file.
ExportIsFaithful ==
    pc = "done" /\ (\A k \in Names : IndexesOf(v[k], NewLine) = {}) =>
        \A k \in Filters :
            ~Ends(v[k], Space) /\ (docker => order[1] # k) =>
                <<k>> \in DOMAIN output /\ output[<<k>>] = v[k]
=============================================================================
