------------------------------ MODULE MCParts ------------------------------
(* Small inputs for the parts of the program that keep no state, and its     *)
(* small machines, one at a time: kind says which.                          *)
EXTENDS MultipartParser, Ranges, HttpText, Routes, SocketSetup, HttpClient,
        Dylib, FileMap, SyncQueue, Paths, TLC

VARIABLES kind, input

vars == <<kind, input, multipartVars, socketVars, dylibVars, fileVars, clientVars, queueVars>>

TheBytes == {"CR", "LF", "-", "b", "x"}
TheBoundary == <<"b">>
TheByte == <<"2", "6">> :> "&" @@ <<"3", "2">> :> "2" @@ <<"2", "5">> :> "%"
             @@ <<"2", "B">> :> "+" @@ <<"2", "0">> :> " " @@ <<"3", "D">> :> "="
TheSymbols == "engine" :> {"get_engine"} @@ "other" :> {}

Upto(n, S) == UNION {[1..m -> S] : m \in 0..n}

\* Contents that look like the beginning of a boundary; lines of each kind; and
\* more parts than the server takes.
Items == [head : {<<"n">>, <<"type", "n", "other">>, <<"n", "long">>, <<"nameless">>},
          content : {<< >>, <<"CR", "LF", "-", "-">>, <<"x", "CR">>}]
Plain == [head |-> <<"n">>, content |-> << >>]
Forms == {<<i>> : i \in Items} \cup (Items \X Items) \cup {<<Plain, Plain, Plain>>}

\* No part of these forms has the boundary in it.
ASSUME FormsAssumption == \A form \in Forms : Sendable(form)

\* All pairs of ranges of a short content, four of a longer one.
Ranging == [header : Upto(2, [first : {Absent} \cup 0..4, last : {Absent} \cup 0..4]),
            length : 0..4]
Heavy == [header : [1..4 -> [first : 0..3, last : {3, 6, Absent}]], length : {7}]

Characters == {"&", "%", "+", " ", "2", "="}

\* A query's values are bytes, and each byte that is not safe is written in hex.
ASSUME CharactersAssumption ==
  \A c \in Characters : c \in Safe \/ \E p \in DOMAIN Byte : Byte[p] = c

Keys == {<<"2">>, <<"6", "2">>}
Queries == Upto(1, [key : Keys, value : Upto(3, Characters)])
             \cup [1..2 -> [key : Keys, value : Upto(1, Characters)]]

Absolute(n, S) == {<<"/">> \o s : s \in Upto(n, S)}

Patterns == Absolute(4, {"/", ":", "a"})
Mounts == <<[point |-> <<"/", "a">>, dir |-> <<"d">>], [point |-> <<"/">>, dir |-> <<"d", "e">>]>>

Init ==
  /\ SocketInit /\ DylibInit /\ FileInit /\ ClientInit /\ QueueInit
  /\ \/ kind = "form" /\ input \in Forms /\ MultipartInit(Serialize(input))
     \/ /\ MultipartInit(<< >>)
        /\ \/ kind = "ranges" /\ input \in Ranging \cup Heavy
           \/ kind = "query" /\ input \in Queries
           \/ /\ kind = "route"
              /\ input \in [pattern : Patterns, path : Absolute(4, {"/", "a", "b"})]
           \/ kind = "file" /\ input \in Absolute(5, {"/", "a", "."})
           \/ kind = "program" /\ input \in Upto(5, {"/", "\\", "a"})
           \/ kind \in {"socket", "library", "map", "client", "queue"} /\ input = << >>
  /\ client => kind = "socket"
  /\ build = "windows" => kind = "map"
  /\ keepAlive => kind = "client"

\* A machine steps when it is the one that this behaviour is about.
Only(k) ==
  /\ kind = k /\ UNCHANGED <<kind, input>>
  /\ k # "form" => UNCHANGED multipartVars
  /\ k # "socket" => UNCHANGED socketVars
  /\ k # "library" => UNCHANGED dylibVars
  /\ k # "map" => UNCHANGED fileVars
  /\ k # "client" => UNCHANGED clientVars
  /\ k # "queue" => UNCHANGED queueVars

Next ==
  \/ Only("form") /\ MultipartNext
  \/ Only("socket") /\ SocketNext
  \/ Only("library") /\ DylibNext
  \/ Only("map") /\ FileNext
  \/ Only("client") /\ ClientNext
  \/ Only("queue") /\ QueueNext

Spec == Init /\ [][Next]_vars

(* Every form that is sent arrives (MultipartParser).                       *)
FormsArrive == kind = "form" => PartsArrive(input)

(* Every Range header is honoured or refused (Ranges).                      *)
RangesServed == kind = "ranges" => RangesAreHonoured(input.header, 200, input.length)

(* Parameters survive being written and read (HttpText).                    *)
QueriesSurvive == kind = "query" => ParametersSurvive(input)

(* Routes are matched component by component, with the first parameter of   *)
(* each name, and mounted files stay below the directory that is mounted    *)
(* (Routes); a program finds its own directory (Paths).                     *)
PathsAgree ==
  /\ kind = "route" => RoutesByComponent(input.pattern, input.path)
  /\ kind = "file" => FilesStayInside(Mounts, input)
  /\ kind = "program" => ProgramIsFound(input)

(* What is opened is closed: sockets, libraries and files (SocketSetup,    *)
(* Dylib, FileMap).                                                         *)
ResourcesBalanced == SocketsBalanced /\ HandlesBalanced /\ FilesBalanced

(* A client keeps one socket and closes it under nobody (HttpClient).       *)
ClientKeepsItsSocket == kind = "client" => ClientOwnsItsSocket

(* Results are handed over once, in order, and nobody sleeps through one    *)
(* (SyncQueue).                                                             *)
NoResultIsSleptThrough == kind = "queue" => ResultsAreHandedOver
=============================================================================
