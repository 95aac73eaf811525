--------------------------- MODULE McpClientProofs ---------------------------
(***************************************************************************)
(* Theorems about the MCP client, for any servers and tools, any number of *)
(* requests and any number of lines in the pipes and buffers.              *)
(***************************************************************************)
EXTENDS McpClient, SequenceTheorems, TLAPS

(* What goes through the pipes and the buffer of a server concerns the     *)
(* requests in R.                                                          *)
LinesOf(R) ==
    [kind: {"notice", "garbage"}] \cup
    [kind: {"reply"}, req: R, ok: BOOLEAN, tools: SUBSET Tools]

Channel(in, out, held, R) ==
    /\ in \in Seq(R)
    /\ out \in Seq(LinesOf(R))
    /\ held \in [lines: Seq(LinesOf(R)), half: Halves]

ChannelOf(s, R) == Channel(inbox[s], pipe[s], buffer[s], R)

ServersOK ==
    /\ lastId \in [Servers -> Nat]
    /\ handle \in [Servers -> Nat]
    /\ inbox = [s \in Servers |-> inbox[s]]
    /\ pipe = [s \in Servers |-> pipe[s]]
    /\ buffer = [s \in Servers |-> buffer[s]]
    /\ \A s \in Servers : handle[s] <= lastId[s] /\ ChannelOf(s, Requests(s))

Runs == [at: {"outside", "entering-by-hand", "entering", "gathering",
              "talking", "leaving"},
         servers: SUBSET Servers, mine: SUBSET Servers, left: SUBSET Servers,
         index: SUBSET [tool: Tools, server: Servers]]

AnswerOK ==
    answer # NoRequest =>
        \E s \in Servers : answer.asked \in Requests(s) /\ answer.for \in Requests(s)

WaitOK == wait # NoRequest => \E s \in Servers : wait \in Requests(s)

(* What is waited for is what the caller has asked at this point.          *)
WaitInv ==
    wait # NoRequest =>
        /\ wait.method = "initialize" => run.at \in {"entering-by-hand", "entering"}
        /\ wait.method = "tools/list" => run.at = "gathering" /\ wait.server \in run.left
        /\ wait.method = "tools/call" => run.at = "talking"

(* It is the latest request to its server, and nothing in the server's     *)
(* input, in its pipe or in the client's buffer takes its id in vain.      *)
Own(s) == {r \in Requests(s) : r.id = wait.id => r = wait}

OwnInv ==
    /\ \A s \in Servers : wait # NoRequest /\ wait.server = s =>
          wait.id = lastId[s] /\ ChannelOf(s, Own(s))
    /\ AnswersAreOwn

(* The processes are those of the handles; and what is started is what the *)
(* callers keep, and what the run has still to stop.                       *)
Up == {s \in Servers : Started(s)}

ProcessInv ==
    /\ running \subseteq {Process(s) : s \in Servers}
    /\ run.at \in {"outside", "entering-by-hand"} => Up = kept
    /\ run.at = "entering" => run.left \subseteq run.mine
    /\ run.at \in {"entering", "gathering", "talking"} =>
          kept \cap run.mine = {} /\ kept \subseteq Up /\ Up \subseteq kept \cup run.mine
    /\ run.at = "leaving" =>
          kept \cap run.left = {} /\ kept \subseteq Up /\ Up \subseteq kept \cup run.left

(* The index has the tools of the servers that are gathered, and no two    *)
(* servers for one tool.                                                   *)
IndexInv ==
    /\ run.at = "entering" => run.index = {}
    /\ run.at = "talking" => run.left = {}
    /\ run.at \in {"gathering", "talking"} =>
        /\ run.left \subseteq run.servers
        /\ \A b \in run.index : b.server \in run.servers \ run.left
                                /\ b.tool \in cache[b.server].tools
        /\ \A s \in run.servers \ run.left : \A t \in cache[s].tools :
              [tool |-> t, server |-> s] \in run.index
        /\ \A b, c \in run.index : b.tool = c.tool => b.server = c.server

TypeInv ==
    /\ ServersOK
    /\ running \subseteq Servers \X (Nat \ {0})
    /\ cache \in [Servers -> Caches]
    /\ run \in Runs
    /\ kept \subseteq Servers
    /\ WaitOK /\ AnswerOK /\ WaitInv

LEMMA TypeInvIsTypeOK == TypeInv => McpTypeOK
  BY DEF TypeInv, McpTypeOK, ServersOK, ChannelOf, Channel, Lines, LinesOf,
         Runs, WaitOK, AnswerOK

-----------------------------------------------------------------------------
(* Lines and requests.                                                     *)

LEMMA ChannelGrows ==
    ASSUME NEW R, NEW T, R \subseteq T, NEW in, NEW out, NEW held,
           Channel(in, out, held, R)
    PROVE  Channel(in, out, held, T)
  <1>1. LinesOf(R) \subseteq LinesOf(T)
    BY DEF LinesOf
  <1>2. /\ in \in Seq(T) /\ out \in Seq(LinesOf(T))
        /\ held.lines \in Seq(LinesOf(T))
    BY <1>1, SeqMonotonic DEF Channel
  <1>3. QED
    BY <1>2 DEF Channel

(* The requests to a server of which n have been made.                     *)
RequestsUpTo(s, n) ==
    [server: {s}, id: 1..n, tool: Tools \cup {NoTool},
     method: {"initialize", "tools/list", "tools/call"}, process: 1..n]

LEMMA RequestsGrow ==
    ASSUME NEW s, NEW n \in Nat, NEW m \in Nat, n <= m
    PROVE  RequestsUpTo(s, n) \subseteq RequestsUpTo(s, m)
  <1>1. 1..n \subseteq 1..m
    OBVIOUS
  <1>2. QED
    BY <1>1 DEF RequestsUpTo

LEMMA RequestIsNext ==
    ASSUME NEW s \in Servers, lastId[s] \in Nat,
           NEW method \in {"initialize", "tools/list", "tools/call"},
           NEW tool \in Tools \cup {NoTool}, NEW process \in 1..(lastId[s] + 1)
    PROVE  /\ Request(s, method, tool, process) \in RequestsUpTo(s, lastId[s] + 1)
           /\ Request(s, method, tool, process).id = lastId[s] + 1
           /\ Request(s, method, tool, process).server = s
           /\ Request(s, method, tool, process).method = method
  <1>1. lastId[s] + 1 \in 1..(lastId[s] + 1)
    OBVIOUS
  <1>2. QED
    BY <1>1 DEF Request, NextId, RequestsUpTo

-----------------------------------------------------------------------------
(* What a step does to the server it is about: whatever requests its       *)
(* channel is about, it is about the same ones after it.                   *)

Others(s) ==
    \A d \in Servers \ {s} :
        /\ handle'[d] = handle[d] /\ inbox'[d] = inbox[d]
        /\ pipe'[d] = pipe[d] /\ buffer'[d] = buffer[d]

StillFunctions ==
    /\ handle' \in [Servers -> Nat]
    /\ inbox' = [s \in Servers |-> inbox'[s]]
    /\ pipe' = [s \in Servers |-> pipe'[s]]
    /\ buffer' = [s \in Servers |-> buffer'[s]]

LEMMA TakesInput ==
    ASSUME ServersOK, NEW s \in Servers, inbox[s] # <<>>,
           inbox' = [inbox EXCEPT ![s] = Tail(@)],
           NEW R, inbox[s] \in Seq(R)
    PROVE  /\ inbox' = [d \in Servers |-> inbox'[d]]
           /\ \A d \in Servers \ {s} : inbox'[d] = inbox[d]
           /\ inbox'[s] \in Seq(R) /\ Head(inbox[s]) \in R
  <1>1. /\ inbox' = [d \in Servers |-> inbox'[d]]
        /\ \A d \in Servers \ {s} : inbox'[d] = inbox[d]
        /\ inbox'[s] = Tail(inbox[s])
    BY DEF ServersOK
  <1>2. QED
    BY <1>1, HeadTailProperties

LEMMA WritesLine ==
    ASSUME ServersOK, NEW s \in Servers, NEW line, Writes(s, line),
           NEW R, pipe[s] \in Seq(LinesOf(R)), line \in LinesOf(R)
    PROVE  /\ pipe' = [d \in Servers |-> pipe'[d]]
           /\ \A d \in Servers \ {s} : pipe'[d] = pipe[d]
           /\ pipe'[s] \in Seq(LinesOf(R))
  <1>1. /\ pipe' = [d \in Servers |-> pipe'[d]]
        /\ \A d \in Servers \ {s} : pipe'[d] = pipe[d]
        /\ pipe'[s] = Append(pipe[s], line)
    BY DEF ServersOK, Writes
  <1>2. Append(pipe[s], line) \in Seq(LinesOf(R))
    OBVIOUS
  <1>3. QED
    BY <1>1, <1>2

LEMMA ServeShape ==
    ASSUME ServersOK, NEW s \in Servers, Serve(s)
    PROVE  /\ Others(s) /\ StillFunctions /\ handle' = handle
           /\ \A R : ChannelOf(s, R) =>
                        Channel(inbox'[s], pipe'[s], buffer'[s], R)
           /\ UNCHANGED <<lastId, cache, run, wait, answer, kept>>
           /\ running' \subseteq running
  <1>1. ASSUME NEW ok \in BOOLEAN, NEW offered \in SUBSET Tools, Answer(s, ok, offered)
        PROVE  /\ Others(s) /\ StillFunctions
               /\ \A R : ChannelOf(s, R) =>
                            Channel(inbox'[s], pipe'[s], buffer'[s], R)
    <2> DEFINE line == [kind |-> "reply", req |-> Head(inbox[s]), ok |-> ok,
                        tools |-> offered]
    <2>1. /\ inbox[s] # <<>> /\ inbox' = [inbox EXCEPT ![s] = Tail(@)]
          /\ Writes(s, line) /\ UNCHANGED <<handle, buffer>>
      BY <1>1 DEF Answer
    <2>2. ASSUME NEW R, ChannelOf(s, R)
          PROVE  /\ inbox' = [d \in Servers |-> inbox'[d]]
                 /\ pipe' = [d \in Servers |-> pipe'[d]]
                 /\ \A d \in Servers \ {s} : inbox'[d] = inbox[d] /\ pipe'[d] = pipe[d]
                 /\ Channel(inbox'[s], pipe'[s], buffer'[s], R)
      <3>1. /\ inbox[s] \in Seq(R) /\ pipe[s] \in Seq(LinesOf(R))
            /\ buffer[s] \in [lines: Seq(LinesOf(R)), half: Halves]
        BY <2>2 DEF ChannelOf, Channel
      <3>2. /\ inbox' = [d \in Servers |-> inbox'[d]]
            /\ \A d \in Servers \ {s} : inbox'[d] = inbox[d]
            /\ inbox'[s] \in Seq(R) /\ Head(inbox[s]) \in R
        BY <2>1, <3>1, TakesInput
      <3>3. line \in LinesOf(R)
        BY <3>2 DEF LinesOf
      <3> HIDE DEF line
      <3>4. /\ pipe' = [d \in Servers |-> pipe'[d]]
            /\ \A d \in Servers \ {s} : pipe'[d] = pipe[d]
            /\ pipe'[s] \in Seq(LinesOf(R))
        BY <2>1, <3>1, <3>3, WritesLine
      <3>5. QED
        BY <2>1, <3>1, <3>2, <3>4 DEF Channel
    <2> HIDE DEF line
    <2>3. ChannelOf(s, Requests(s))
      BY DEF ServersOK
    <2>4. Others(s) /\ StillFunctions
      BY <2>1, <2>2, <2>3 DEF Others, StillFunctions, ServersOK
    <2>5. QED
      BY <2>2, <2>4
  <1>2. ASSUME Ignore(s)
        PROVE  /\ Others(s) /\ StillFunctions
               /\ \A R : ChannelOf(s, R) =>
                            Channel(inbox'[s], pipe'[s], buffer'[s], R)
    <2>1. /\ inbox[s] # <<>> /\ inbox' = [inbox EXCEPT ![s] = Tail(@)]
          /\ UNCHANGED <<handle, pipe, buffer>>
      BY <1>2 DEF Ignore
    <2>2. ASSUME NEW R, ChannelOf(s, R)
          PROVE  /\ inbox' = [d \in Servers |-> inbox'[d]]
                 /\ \A d \in Servers \ {s} : inbox'[d] = inbox[d]
                 /\ Channel(inbox'[s], pipe'[s], buffer'[s], R)
      BY <2>1, <2>2, TakesInput DEF ChannelOf, Channel
    <2>3. ChannelOf(s, Requests(s))
      BY DEF ServersOK
    <2>4. Others(s) /\ StillFunctions
      BY <2>1, <2>2, <2>3 DEF Others, StillFunctions, ServersOK
    <2>5. QED
      BY <2>2, <2>4
  <1>3. ASSUME Chatter(s)
        PROVE  /\ Others(s) /\ StillFunctions
               /\ \A R : ChannelOf(s, R) =>
                            Channel(inbox'[s], pipe'[s], buffer'[s], R)
    <2>1. PICK kind \in {"notice", "garbage"} : Writes(s, [kind |-> kind])
      BY <1>3 DEF Chatter
    <2>2. UNCHANGED <<handle, inbox, buffer>>
      BY <1>3 DEF Chatter
    <2>3. ASSUME NEW R, ChannelOf(s, R)
          PROVE  /\ pipe' = [d \in Servers |-> pipe'[d]]
                 /\ \A d \in Servers \ {s} : pipe'[d] = pipe[d]
                 /\ Channel(inbox'[s], pipe'[s], buffer'[s], R)
      <3>1. [kind |-> kind] \in LinesOf(R)
        BY DEF LinesOf
      <3>2. QED
        BY <2>1, <2>2, <2>3, <3>1, WritesLine DEF ChannelOf, Channel
    <2>4. ChannelOf(s, Requests(s))
      BY DEF ServersOK
    <2>5. Others(s) /\ StillFunctions
      BY <2>2, <2>3, <2>4 DEF Others, StillFunctions, ServersOK
    <2>6. QED
      BY <2>3, <2>5
  <1>4. ASSUME Die(s)
        PROVE  /\ Others(s) /\ StillFunctions
               /\ \A R : ChannelOf(s, R) =>
                            Channel(inbox'[s], pipe'[s], buffer'[s], R)
    <2>1. /\ inbox' = [inbox EXCEPT ![s] = <<>>]
          /\ UNCHANGED <<handle, pipe, buffer>>
      BY <1>4 DEF Die
    <2>2. /\ inbox' = [d \in Servers |-> inbox'[d]]
          /\ \A d \in Servers \ {s} : inbox'[d] = inbox[d]
          /\ inbox'[s] = <<>>
      BY <2>1 DEF ServersOK
    <2>3. QED
      BY <2>1, <2>2 DEF Others, StillFunctions, ServersOK, ChannelOf, Channel
  <1>5. /\ handle' = handle /\ UNCHANGED <<lastId, cache, run, wait, answer, kept>>
        /\ running' \subseteq running
    BY DEF Serve, Answer, Ignore, Chatter, Die
  <1>6. QED
    BY <1>1, <1>2, <1>3, <1>4, <1>5 DEF Serve
LEMMA ReadShape ==
    ASSUME ServersOK, NEW s \in Servers, ReadChunk(s)
    PROVE  /\ Others(s) /\ StillFunctions /\ handle' = handle
           /\ \A R : ChannelOf(s, R) =>
                        Channel(inbox'[s], pipe'[s], buffer'[s], R)
           /\ UNCHANGED <<running, lastId, cache, run, wait, answer, kept>>
  <1>1. PICK cut \in BOOLEAN :
          LET n == IF cut THEN Len(pipe[s]) - 1 ELSE Len(pipe[s])
              whole == SubSeq(pipe[s], 1, n)
          IN  /\ n > 0 \/ buffer[s].half = "none"
              /\ buffer' = [buffer EXCEPT ![s] =
                    [lines |-> IF n > 0 /\ buffer[s].half = "orphan"
                               THEN <<[kind |-> "garbage"]>> \o Tail(whole) ELSE whole,
                     half  |-> IF cut THEN "begun" ELSE "none"]]
              /\ pipe' = [pipe EXCEPT ![s] = SubSeq(@, n + 1, Len(@))]
    BY DEF ReadChunk
  <1> DEFINE n == IF cut THEN Len(pipe[s]) - 1 ELSE Len(pipe[s])
             whole == SubSeq(pipe[s], 1, n)
             lines == IF n > 0 /\ buffer[s].half = "orphan"
                      THEN <<[kind |-> "garbage"]>> \o Tail(whole) ELSE whole
             half == IF cut THEN "begun" ELSE "none"
             rest == SubSeq(pipe[s], n + 1, Len(pipe[s]))
  <1>2. /\ buffer' = [buffer EXCEPT ![s] = [lines |-> lines, half |-> half]]
        /\ pipe' = [pipe EXCEPT ![s] = rest]
    BY <1>1
  <1>3. /\ pipe[s] # <<>>
        /\ UNCHANGED <<handle, running, inbox, lastId, cache, run, wait, answer, kept>>
    BY DEF ReadChunk
  <1>4. ASSUME NEW R, pipe[s] \in Seq(LinesOf(R))
        PROVE  lines \in Seq(LinesOf(R)) /\ rest \in Seq(LinesOf(R))
    <2> DEFINE L == LinesOf(R)
    <2>1. /\ Len(pipe[s]) \in Nat \ {0} /\ n \in Nat /\ n <= Len(pipe[s])
          /\ \A i \in 1..Len(pipe[s]) : pipe[s][i] \in L
      BY <1>3, <1>4, EmptySeq, ElementOfSeq
    <2>2. [kind |-> "garbage"] \in L
      BY DEF LinesOf
    <2> HIDE DEF n, L
    <2>3. whole \in Seq(L) /\ Len(whole) = n
      BY <2>1, SubSeqProperties
    <2>4. rest \in Seq(L)
      BY <2>1, SubSeqProperties
    <2> HIDE DEF whole, rest
    <2>5. CASE n > 0 /\ buffer[s].half = "orphan"
      <3>1. whole # <<>>
        BY <2>1, <2>3, <2>5, EmptySeq
      <3>2. Tail(whole) \in Seq(L) /\ <<[kind |-> "garbage"]>> \in Seq(L)
        BY <2>2, <2>3, <3>1, HeadTailProperties
      <3>3. QED
        BY <2>4, <2>5, <3>2, ConcatProperties DEF L
    <2>6. CASE ~ (n > 0 /\ buffer[s].half = "orphan")
      BY <2>3, <2>4, <2>6 DEF L
    <2>7. QED
      BY <2>5, <2>6
  <1>5. half \in Halves
    BY DEF Halves
  <1> HIDE DEF n, whole, lines, half, rest
  <1>6. /\ buffer' = [d \in Servers |-> buffer'[d]]
        /\ pipe' = [d \in Servers |-> pipe'[d]]
        /\ \A d \in Servers \ {s} : buffer'[d] = buffer[d] /\ pipe'[d] = pipe[d]
        /\ buffer'[s] = [lines |-> lines, half |-> half]
        /\ pipe'[s] = rest
    BY <1>2 DEF ServersOK
  <1>7. ASSUME NEW R, ChannelOf(s, R)
        PROVE  Channel(inbox'[s], pipe'[s], buffer'[s], R)
    <2>1. lines \in Seq(LinesOf(R)) /\ rest \in Seq(LinesOf(R)) /\ inbox[s] \in Seq(R)
      BY <1>4, <1>7 DEF ChannelOf, Channel
    <2>2. QED
      BY <1>3, <1>5, <1>6, <2>1 DEF Channel
  <1>8. Others(s) /\ StillFunctions
    BY <1>3, <1>6 DEF Others, StillFunctions, ServersOK
  <1>9. QED
    BY <1>3, <1>7, <1>8

LEMMA TakeShape ==
    ASSUME ServersOK, NEW s \in Servers, TakeLine(s)
    PROVE  /\ Others(s) /\ StillFunctions /\ handle' = handle
           /\ \A R : ChannelOf(s, R) =>
                        /\ Channel(inbox'[s], pipe'[s], buffer'[s], R)
                        /\ Head(buffer[s].lines) \in LinesOf(R)
           /\ UNCHANGED <<running, lastId, kept>>
  <1>1. /\ buffer[s].lines # <<>>
        /\ buffer' = [buffer EXCEPT ![s].lines = Tail(@)]
        /\ UNCHANGED <<handle, running, inbox, pipe, lastId, kept>>
    BY DEF TakeLine
  <1>2. ChannelOf(s, Requests(s))
    BY DEF ServersOK
  <1>3. /\ buffer' = [d \in Servers |-> buffer'[d]]
        /\ \A d \in Servers \ {s} : buffer'[d] = buffer[d]
        /\ buffer'[s] = [lines |-> Tail(buffer[s].lines), half |-> buffer[s].half]
    BY <1>1, <1>2 DEF ServersOK, ChannelOf, Channel
  <1>4. ASSUME NEW R, ChannelOf(s, R)
        PROVE  /\ Channel(inbox'[s], pipe'[s], buffer'[s], R)
               /\ Head(buffer[s].lines) \in LinesOf(R)
    <2>1. buffer[s].lines \in Seq(LinesOf(R)) /\ buffer[s].half \in Halves
      BY <1>4 DEF ChannelOf, Channel
    <2>2. /\ Tail(buffer[s].lines) \in Seq(LinesOf(R))
          /\ Head(buffer[s].lines) \in LinesOf(R)
      BY <1>1, <2>1, HeadTailProperties
    <2>3. QED
      BY <1>1, <1>3, <1>4, <2>1, <2>2 DEF ChannelOf, Channel
  <1>5. Others(s) /\ StillFunctions
    BY <1>1, <1>3 DEF Others, StillFunctions, ServersOK
  <1>6. QED
    BY <1>1, <1>4, <1>5

LEMMA ExitShape ==
    ASSUME ServersOK, NEW s \in Servers, Exit(s)
    PROVE  /\ Others(s) /\ StillFunctions /\ handle'[s] = 0
           /\ \A R : ChannelOf(s, R) =>
                        Channel(inbox'[s], pipe'[s], buffer'[s], R)
           /\ running' = running \ {Process(s)}
           /\ wait = NoRequest /\ UNCHANGED <<lastId, cache, wait, answer>>
  <1>1. ChannelOf(s, Requests(s))
    BY DEF ServersOK
  <1>2. /\ handle' \in [Servers -> Nat] /\ handle'[s] = 0
        /\ \A d \in Servers \ {s} : handle'[d] = handle[d]
    BY DEF Exit, ServersOK
  <1>3. /\ inbox' = [d \in Servers |-> inbox'[d]] /\ inbox'[s] = <<>>
        /\ pipe' = [d \in Servers |-> pipe'[d]] /\ pipe'[s] = <<>>
        /\ \A d \in Servers \ {s} : inbox'[d] = inbox[d] /\ pipe'[d] = pipe[d]
    BY DEF Exit, ServersOK
  <1>4. /\ buffer' = [d \in Servers |-> buffer'[d]]
        /\ \A d \in Servers \ {s} : buffer'[d] = buffer[d]
        /\ buffer'[s] = [lines |-> buffer[s].lines,
                         half |-> IF buffer[s].half = "begun" THEN "orphan"
                                  ELSE buffer[s].half]
    BY <1>1 DEF Exit, ServersOK, ChannelOf, Channel
  <1>5. ASSUME NEW R, ChannelOf(s, R)
        PROVE  Channel(inbox'[s], pipe'[s], buffer'[s], R)
    BY <1>3, <1>4, <1>5 DEF ChannelOf, Channel, Halves
  <1>6. Others(s) /\ StillFunctions
    BY <1>2, <1>3, <1>4 DEF Others, StillFunctions
  <1>7. QED
    BY <1>2, <1>5, <1>6 DEF Exit
-----------------------------------------------------------------------------
(* A request takes the next id, and is what its server is asked last.      *)

Counted(s) ==
    /\ lastId' \in [Servers -> Nat]
    /\ lastId'[s] = lastId[s] + 1
    /\ \A d \in Servers \ {s} : lastId'[d] = lastId[d]

Sent(s, method) ==
    /\ wait' \in RequestsUpTo(s, lastId'[s]) /\ wait'.id = lastId'[s]
    /\ wait'.server = s /\ wait'.method = method
    /\ Channel(inbox'[s], pipe'[s], buffer'[s], Requests(s) \cup {wait'})

LEMMA AskShape ==
    ASSUME ServersOK, running \subseteq Servers \X (Nat \ {0}),
           NEW s \in Servers, NEW method \in {"tools/list", "tools/call"},
           NEW tool \in Tools \cup {NoTool}, Ask(s, method, tool)
    PROVE  /\ Others(s) /\ StillFunctions /\ Counted(s)
           /\ wait = NoRequest /\ answer' = NoRequest
           /\ \/ Sent(s, method) /\ UNCHANGED run
              \/ Fail /\ Channel(inbox'[s], pipe'[s], buffer'[s], Requests(s))
           /\ UNCHANGED <<handle, running, cache, kept>>
  <1>1. /\ wait = NoRequest /\ answer' = NoRequest
        /\ UNCHANGED <<handle, running, pipe, buffer, cache, kept>>
    BY DEF Ask
  <1>2. ChannelOf(s, Requests(s)) /\ lastId[s] \in Nat /\ handle[s] \in 0..lastId[s]
    BY DEF ServersOK
  <1>3. CASE Process(s) \in running
    <2>1. /\ wait' = Request(s, method, tool, handle[s])
          /\ lastId' = [lastId EXCEPT ![s] = wait'.id]
          /\ inbox' = [inbox EXCEPT ![s] = Append(@, wait')]
          /\ UNCHANGED run
      BY <1>3 DEF Ask
    <2>2. handle[s] \in 1..(lastId[s] + 1)
      BY <1>2, <1>3 DEF Process
    <2>3. wait'.id = lastId[s] + 1
      BY <2>1 DEF Request, NextId
    <2>4. Counted(s)
      BY <1>2, <2>1, <2>3 DEF Counted, ServersOK
    <2>5. /\ wait' \in RequestsUpTo(s, lastId'[s]) /\ wait'.id = lastId'[s]
          /\ wait'.server = s /\ wait'.method = method
      BY <1>2, <2>1, <2>2, <2>4, RequestIsNext DEF Counted
    <2>6. /\ inbox' = [d \in Servers |-> inbox'[d]]
          /\ \A d \in Servers \ {s} : inbox'[d] = inbox[d]
          /\ inbox'[s] = Append(inbox[s], wait')
      BY <2>1 DEF ServersOK
    <2>7. Channel(inbox[s], pipe[s], buffer[s], Requests(s) \cup {wait'})
      BY <1>2, ChannelGrows DEF ChannelOf
    <2>8. Channel(inbox'[s], pipe'[s], buffer'[s], Requests(s) \cup {wait'})
      BY <1>1, <2>6, <2>7 DEF Channel
    <2>9. Others(s) /\ StillFunctions
      BY <1>1, <2>6 DEF Others, StillFunctions, ServersOK
    <2>10. QED
      BY <1>1, <2>1, <2>4, <2>5, <2>8, <2>9 DEF Sent
  <1>4. CASE Process(s) \notin running
    <2>1. /\ lastId' = [lastId EXCEPT ![s] = lastId[s] + 1]
          /\ Fail /\ UNCHANGED inbox
      BY <1>4 DEF Ask, NextId
    <2>2. Counted(s)
      BY <1>2, <2>1 DEF Counted, ServersOK
    <2>3. Others(s) /\ StillFunctions
      BY <1>1, <2>1 DEF Others, StillFunctions, ServersOK
    <2>4. QED
      BY <1>1, <1>2, <2>1, <2>2, <2>3 DEF ChannelOf
  <1>5. QED
    BY <1>3, <1>4

LEMMA EnterShape ==
    ASSUME ServersOK, NEW s \in Servers, Enter(s)
    PROVE  /\ Others(s) /\ StillFunctions /\ Counted(s)
           /\ handle[s] = 0 /\ handle'[s] = lastId'[s]
           /\ wait = NoRequest /\ answer' = NoRequest
           /\ Sent(s, "initialize")
           /\ running' = running \cup {<<s, lastId'[s]>>}
           /\ UNCHANGED cache
  <1>1. /\ wait = NoRequest /\ answer' = NoRequest
        /\ wait' = Request(s, "initialize", NoTool, lastId[s] + 1)
        /\ lastId' = [lastId EXCEPT ![s] = wait'.id]
        /\ handle' = [handle EXCEPT ![s] = wait'.id]
        /\ running' = running \cup {<<s, wait'.id>>}
        /\ inbox' = [inbox EXCEPT ![s] = <<wait'>>]
        /\ pipe' = [pipe EXCEPT ![s] = <<>>]
        /\ UNCHANGED <<buffer, cache>>
        /\ handle[s] = 0
    BY DEF Enter, Started, NextId
  <1>2. ChannelOf(s, Requests(s)) /\ lastId[s] \in Nat
    BY DEF ServersOK
  <1>3. wait'.id = lastId[s] + 1
    BY <1>1 DEF Request, NextId
  <1>4. Counted(s)
    BY <1>1, <1>2, <1>3 DEF Counted, ServersOK
  <1>5. /\ wait' \in RequestsUpTo(s, lastId'[s]) /\ wait'.id = lastId'[s]
        /\ wait'.server = s /\ wait'.method = "initialize"
    <2>1. lastId[s] + 1 \in 1..(lastId[s] + 1) /\ NoTool \in Tools \cup {NoTool}
      BY <1>2
    <2>2. lastId'[s] = lastId[s] + 1
      BY <1>4 DEF Counted
    <2>3. "initialize" \in {"initialize", "tools/list", "tools/call"}
      OBVIOUS
    <2> DEFINE r == Request(s, "initialize", NoTool, lastId[s] + 1)
    <2>4. /\ r \in RequestsUpTo(s, lastId[s] + 1) /\ r.id = lastId[s] + 1
          /\ r.server = s /\ r.method = "initialize"
      BY <1>2, <2>1, <2>3, RequestIsNext
    <2>5. wait' = r
      BY <1>1
    <2> HIDE DEF r
    <2>6. QED
      BY <2>2, <2>4, <2>5
  <1>6. /\ inbox' = [d \in Servers |-> inbox'[d]] /\ inbox'[s] = <<wait'>>
        /\ pipe' = [d \in Servers |-> pipe'[d]] /\ pipe'[s] = <<>>
        /\ \A d \in Servers \ {s} : inbox'[d] = inbox[d] /\ pipe'[d] = pipe[d]
    BY <1>1 DEF ServersOK
  <1>7. /\ handle' \in [Servers -> Nat] /\ handle'[s] = lastId'[s]
        /\ \A d \in Servers \ {s} : handle'[d] = handle[d]
    BY <1>1, <1>2, <1>3, <1>4 DEF ServersOK, Counted
  <1>8. Channel(inbox[s], pipe[s], buffer[s], Requests(s) \cup {wait'})
    BY <1>2, ChannelGrows DEF ChannelOf
  <1>9. Channel(inbox'[s], pipe'[s], buffer'[s], Requests(s) \cup {wait'})
    <2>1. ASSUME NEW w, NEW R, w \in R
          PROVE  <<w>> \in Seq(R)
      BY <2>1
    <2>2. <<wait'>> \in Seq(Requests(s) \cup {wait'})
      BY <2>1
    <2>3. inbox'[s] \in Seq(Requests(s) \cup {wait'})
      BY <1>6, <2>2
    <2>4. pipe'[s] \in Seq(LinesOf(Requests(s) \cup {wait'}))
      BY <1>6
    <2>5. buffer'[s] = buffer[s]
      BY <1>1
    <2>6. QED
      BY <1>8, <2>3, <2>4, <2>5 DEF Channel
  <1>10. Others(s) /\ StillFunctions
    BY <1>1, <1>6, <1>7 DEF Others, StillFunctions, ServersOK
  <1>11. QED
    BY <1>1, <1>3, <1>4, <1>5, <1>7, <1>9, <1>10 DEF Sent, Counted
-----------------------------------------------------------------------------
(* The run: how it goes on, and how it is unwound.                         *)

LEMMA UnwoundShape ==
    ASSUME run \in Runs
    PROVE  /\ Unwound \in Runs
           /\ run.at = "entering-by-hand" => Unwound = Outside
           /\ run.at # "entering-by-hand" =>
                 Unwound.at = "leaving" /\ Unwound.left = run.mine
  BY DEF Unwound, Runs, Outside

LEMMA BindShape ==
    ASSUME run \in Runs, NEW s \in Servers, NEW offered \in SUBSET Tools
    PROVE  \/ Bind(s, offered) = Unwound
           \/ /\ Clash(s, offered) = {}
              /\ Bind(s, offered) \in Runs
              /\ Bind(s, offered).at = run.at
              /\ Bind(s, offered).servers = run.servers
              /\ Bind(s, offered).mine = run.mine
              /\ Bind(s, offered).left = run.left \ {s}
              /\ Bind(s, offered).index = run.index \cup [tool: offered, server: {s}]
  <1> DEFINE new == run.index \cup [tool: offered, server: {s}]
             rec == [run EXCEPT !.left = run.left \ {s}, !.index = new]
  <1>1. CASE Clash(s, offered) # {}
    BY <1>1 DEF Bind
  <1>2. CASE Clash(s, offered) = {}
    <2>1. Bind(s, offered) = rec
      BY <1>2 DEF Bind
    <2>2. new \subseteq [tool: Tools, server: Servers]
      BY DEF Runs
    <2> HIDE DEF new
    <2>3. /\ rec \in Runs /\ rec.at = run.at /\ rec.servers = run.servers
          /\ rec.mine = run.mine /\ rec.left = run.left \ {s} /\ rec.index = new
      BY <2>2 DEF Runs
    <2> HIDE DEF rec
    <2>4. QED
      BY <1>2, <2>1, <2>3 DEF new
  <1>3. QED
    BY <1>1, <1>2

(* An answer to what was asked: the handshake is over, or has failed; the  *)
(* tools of one server more are in the index, or clash; or a tool has run. *)
Entered ==
    /\ wait.method = "initialize" /\ run.at \in {"entering-by-hand", "entering"}
    /\ cache' = cache
    /\ \/ run' = Unwound
       \/ run.at = "entering-by-hand" /\ run' = Outside
       \/ /\ run.at = "entering"
          /\ run' = [run EXCEPT !.left = run.left \ {wait.server}]

GatheredBy(s, tools) ==
    /\ run.at = "gathering" /\ s \in run.left
    /\ run' = Bind(s, tools)
    /\ cache' = [cache EXCEPT ![s] = Listed(tools)]

LEMMA ContinueShape ==
    ASSUME TypeInv, wait # NoRequest, NEW reply, Continue(reply)
    PROVE  \/ Entered
           \/ GatheredBy(wait.server, reply.tools)
           \/ UNCHANGED <<run, cache>>
  <1>1. wait.method \in {"initialize", "tools/list", "tools/call"}
    BY DEF TypeInv, WaitOK, Requests
  <1>2. CASE wait.method = "initialize"
    <2>1. run.at \in {"entering-by-hand", "entering"}
      BY <1>2 DEF TypeInv, WaitInv
    <2>2. QED
      BY <1>2, <2>1 DEF Continue, Entered
  <1>3. CASE wait.method = "tools/list"
    <2>1. run.at = "gathering" /\ wait.server \in run.left
      BY <1>3 DEF TypeInv, WaitInv
    <2>2. QED
      BY <1>3, <2>1 DEF Continue, GatheredBy
  <1>4. CASE wait.method = "tools/call"
    BY <1>4 DEF Continue
  <1>5. QED
    BY <1>1, <1>2, <1>3, <1>4
LEMMA TakeLineShape ==
    ASSUME TypeInv, NEW s \in Servers, TakeLine(s)
    PROVE  /\ wait # NoRequest /\ wait.server = s /\ wait \in Requests(s)
           /\ \/ UNCHANGED <<cache, run, wait, answer>>
              \/ Fail /\ UNCHANGED <<cache, answer>>
              \/ \E req \in Requests(s), tools \in SUBSET Tools :
                    /\ req.id = wait.id
                    /\ \A R : ChannelOf(s, R) => req \in R
                    /\ answer' = [asked |-> wait, for |-> req]
                    /\ wait' = NoRequest
                    /\ \/ Entered
                       \/ GatheredBy(s, tools)
                       \/ UNCHANGED <<run, cache>>
  <1> DEFINE line == Head(buffer[s].lines)
  <1>1. wait # NoRequest /\ wait.server = s
    BY DEF TakeLine, Waiting
  <1>2. wait \in Requests(s)
    BY <1>1 DEF TypeInv, WaitOK, Requests
  <1>3. \A R : ChannelOf(s, R) => line \in LinesOf(R)
    BY TakeShape DEF TypeInv
  <1>4. ChannelOf(s, Requests(s))
    BY DEF TypeInv, ServersOK
  <1>5. \/ UNCHANGED <<cache, run, wait, answer>>
        \/ Fail /\ UNCHANGED <<cache, answer>>
        \/ /\ line.kind = "reply" /\ line.req.id = wait.id
           /\ answer' = [asked |-> wait, for |-> line.req]
           /\ Continue(line) /\ wait' = NoRequest
    BY DEF TakeLine, IsReply
  <1> HIDE DEF line
  <1>6. CASE /\ line.kind = "reply" /\ line.req.id = wait.id
             /\ answer' = [asked |-> wait, for |-> line.req]
             /\ Continue(line) /\ wait' = NoRequest
    <2>1. \A R : ChannelOf(s, R) => line.req \in R /\ line.tools \in SUBSET Tools
      BY <1>3, <1>6 DEF LinesOf
    <2>2. line.req \in Requests(s) /\ line.tools \in SUBSET Tools
      BY <1>4, <2>1
    <2>3. Entered \/ GatheredBy(s, line.tools) \/ UNCHANGED <<run, cache>>
      BY <1>1, <1>6, ContinueShape
    <2>4. QED
      BY <1>1, <1>2, <1>6, <2>1, <2>2, <2>3
  <1>7. QED
    BY <1>1, <1>2, <1>5, <1>6

-----------------------------------------------------------------------------
(* The types hold from step to step.                                       *)

LEMMA RequestsAre ==
    ASSUME NEW s
    PROVE  /\ Requests(s) = RequestsUpTo(s, lastId[s])
           /\ Requests(s)' = RequestsUpTo(s, lastId'[s])
  BY DEF Requests, RequestsUpTo

LEMMA ServersStay ==
    ASSUME ServersOK, UNCHANGED lastId,
           \/ UNCHANGED <<handle, inbox, pipe, buffer>>
           \/ \E s \in Servers :
                 /\ Others(s) /\ StillFunctions
                 /\ handle'[s] \in {0, handle[s]}
                 /\ Channel(inbox'[s], pipe'[s], buffer'[s], Requests(s))
    PROVE  ServersOK'
  <1>1. CASE UNCHANGED <<handle, inbox, pipe, buffer>>
    BY <1>1 DEF ServersOK, ChannelOf, Requests
  <1>2. ASSUME NEW s \in Servers, Others(s), StillFunctions,
               handle'[s] \in {0, handle[s]},
               Channel(inbox'[s], pipe'[s], buffer'[s], Requests(s))
        PROVE  ServersOK'
    <2>1. ASSUME NEW d \in Servers
          PROVE  /\ handle'[d] <= lastId'[d]
                 /\ Channel(inbox'[d], pipe'[d], buffer'[d], RequestsUpTo(d, lastId'[d]))
      <3>1. Channel(inbox[d], pipe[d], buffer[d], RequestsUpTo(d, lastId[d]))
        BY RequestsAre DEF ServersOK, ChannelOf
      <3>2. /\ handle[d] <= lastId[d] /\ handle[d] \in Nat /\ lastId[d] \in Nat
            /\ lastId' = lastId
        BY DEF ServersOK
      <3>3. CASE d = s
        BY <1>2, <3>2, <3>3, RequestsAre
      <3>4. CASE d # s
        BY <1>2, <3>1, <3>2, <3>4 DEF Others
      <3>5. QED
        BY <3>3, <3>4
    <2>2. \A d \in Servers : handle'[d] <= lastId'[d] /\ ChannelOf(d, Requests(d))'
      BY <2>1 DEF ChannelOf, Requests, RequestsUpTo
    <2>3. QED
      BY <1>2, <2>2 DEF StillFunctions, ServersOK
  <1>3. QED
    BY <1>1, <1>2

LEMMA ServersAsk ==
    ASSUME ServersOK, NEW s \in Servers, Others(s), StillFunctions, Counted(s),
           handle'[s] \in {handle[s], lastId'[s]},
           \/ Channel(inbox'[s], pipe'[s], buffer'[s], Requests(s))
           \/ \E method : Sent(s, method)
    PROVE  ServersOK'
  <1>1. /\ lastId'[s] \in Nat /\ lastId[s] \in Nat /\ lastId[s] <= lastId'[s]
        /\ handle[s] \in Nat /\ handle[s] <= lastId[s]
    BY DEF ServersOK, Counted
  <1>2. Requests(s) \subseteq RequestsUpTo(s, lastId'[s])
    BY <1>1, RequestsAre, RequestsGrow
  <1>3. Channel(inbox'[s], pipe'[s], buffer'[s], RequestsUpTo(s, lastId'[s]))
    <2>1. CASE Channel(inbox'[s], pipe'[s], buffer'[s], Requests(s))
      BY <1>2, <2>1, ChannelGrows
    <2>2. CASE \E method : Sent(s, method)
      <3>1. /\ Requests(s) \cup {wait'} \subseteq RequestsUpTo(s, lastId'[s])
            /\ Channel(inbox'[s], pipe'[s], buffer'[s], Requests(s) \cup {wait'})
        BY <1>2, <2>2 DEF Sent
      <3>2. QED
        BY <3>1, ChannelGrows
    <2>3. QED
      BY <2>1, <2>2
  <1>4. ASSUME NEW d \in Servers
        PROVE  /\ handle'[d] <= lastId'[d]
               /\ Channel(inbox'[d], pipe'[d], buffer'[d], RequestsUpTo(d, lastId'[d]))
    <2>1. CASE d = s
      BY <1>1, <1>3, <2>1
    <2>2. CASE d # s
      <3>1. Channel(inbox[d], pipe[d], buffer[d], RequestsUpTo(d, lastId[d]))
        BY RequestsAre DEF ServersOK, ChannelOf
      <3>2. handle[d] <= lastId[d] /\ lastId'[d] = lastId[d]
        BY <2>2 DEF ServersOK, Counted
      <3>3. QED
        BY <2>2, <3>1, <3>2 DEF Others
    <2>3. QED
      BY <2>1, <2>2
  <1>5. \A d \in Servers : handle'[d] <= lastId'[d] /\ ChannelOf(d, Requests(d))'
    BY <1>4 DEF ChannelOf, Requests, RequestsUpTo
  <1>6. QED
    BY <1>5 DEF StillFunctions, ServersOK, Counted
LEMMA WaitStays ==
    ASSUME TypeInv, UNCHANGED lastId, wait' \in {wait, NoRequest},
           answer' \in {answer, NoRequest}
    PROVE  WaitOK' /\ AnswerOK'
  <1>1. \A s \in Servers : Requests(s)' = Requests(s)
    BY DEF Requests
  <1>2. QED
    BY <1>1 DEF TypeInv, WaitOK, AnswerOK

LEMMA WaitIsSent ==
    ASSUME NEW s \in Servers, NEW method, Sent(s, method), answer' = NoRequest
    PROVE  WaitOK' /\ AnswerOK'
  BY DEF Sent, WaitOK, AnswerOK, Requests, RequestsUpTo

(* A step of nobody's channel, by which no request is made.                *)
LEMMA RunStepTypes ==
    ASSUME TypeInv, run' \in Runs,
           UNCHANGED <<handle, running, inbox, pipe, buffer, lastId, cache, kept>>,
           answer' = answer,
           wait' = NoRequest \/ UNCHANGED <<wait, run>>
    PROVE  TypeInv'
  <1>1. ServersOK'
    BY ServersStay DEF TypeInv
  <1>2. WaitOK' /\ AnswerOK'
    BY WaitStays DEF TypeInv
  <1>3. WaitInv'
    BY DEF TypeInv, WaitInv
  <1>4. QED
    BY <1>1, <1>2, <1>3 DEF TypeInv, Runs

LEMMA FailTypes ==
    ASSUME TypeInv, Fail,
           UNCHANGED <<handle, running, inbox, pipe, buffer, lastId, cache, answer, kept>>
    PROVE  TypeInv'
  <1>1. run' \in Runs /\ wait' = NoRequest
    BY UnwoundShape DEF TypeInv, Fail
  <1>2. QED
    BY <1>1, RunStepTypes

LEMMA ServeTypes ==
    ASSUME TypeInv, NEW s \in Servers, Serve(s) \/ ReadChunk(s)
    PROVE  TypeInv'
  <1>1. /\ Others(s) /\ StillFunctions /\ handle' = handle
        /\ Channel(inbox'[s], pipe'[s], buffer'[s], Requests(s))
        /\ UNCHANGED <<lastId, cache, run, wait, answer, kept>>
        /\ running' \subseteq running
    BY ServeShape, ReadShape DEF TypeInv, ServersOK
  <1>2. ServersOK'
    BY <1>1, ServersStay DEF TypeInv
  <1>3. WaitOK' /\ AnswerOK'
    BY <1>1, WaitStays
  <1>4. QED
    BY <1>1, <1>2, <1>3 DEF TypeInv, WaitInv, Runs

LEMMA TakeLineTypes ==
    ASSUME TypeInv, NEW s \in Servers, TakeLine(s)
    PROVE  TypeInv'
  <1>1. /\ Others(s) /\ StillFunctions /\ handle' = handle
        /\ Channel(inbox'[s], pipe'[s], buffer'[s], Requests(s))
        /\ UNCHANGED <<running, lastId, kept>>
    BY TakeShape DEF TypeInv, ServersOK
  <1>2. ServersOK'
    BY <1>1, ServersStay DEF TypeInv
  <1>3. CASE UNCHANGED <<cache, run, wait, answer>>
    BY <1>1, <1>2, <1>3, WaitStays DEF TypeInv, WaitInv, Runs
  <1>4. CASE Fail /\ UNCHANGED <<cache, answer>>
    <2>1. run' \in Runs /\ wait' = NoRequest
      BY <1>4, UnwoundShape DEF TypeInv, Fail
    <2>2. QED
      BY <1>1, <1>2, <1>4, <2>1, WaitStays DEF TypeInv, WaitInv, Runs
  <1>5. ASSUME NEW req \in Requests(s), NEW tools \in SUBSET Tools,
               answer' = [asked |-> wait, for |-> req], wait' = NoRequest,
               wait \in Requests(s),
               Entered \/ GatheredBy(s, tools) \/ UNCHANGED <<run, cache>>
        PROVE  TypeInv'
    <2>1. WaitOK' /\ WaitInv'
      BY <1>5 DEF WaitOK, WaitInv
    <2>2. AnswerOK'
      BY <1>1, <1>5 DEF AnswerOK, Requests
    <2>3. run' \in Runs /\ cache' \in [Servers -> Caches]
      <3>1. CASE Entered
        <4>1. [run EXCEPT !.left = run.left \ {wait.server}] \in Runs /\ Outside \in Runs
          BY DEF TypeInv, Runs, Outside
        <4>2. QED
          BY <3>1, <4>1, UnwoundShape DEF Entered, TypeInv
      <3>2. CASE GatheredBy(s, tools)
        <4>1. run' \in Runs
          BY <3>2, UnwoundShape, BindShape DEF GatheredBy, TypeInv
        <4>2. Listed(tools) \in Caches
          BY DEF Caches
        <4>3. QED
          BY <3>2, <4>1, <4>2 DEF GatheredBy, TypeInv
      <3>3. CASE UNCHANGED <<run, cache>>
        BY <3>3 DEF TypeInv, Runs
      <3>4. QED
        BY <1>5, <3>1, <3>2, <3>3
    <2>4. QED
      BY <1>1, <1>2, <2>1, <2>2, <2>3 DEF TypeInv, Runs
  <1>6. QED
    BY <1>3, <1>4, <1>5, TakeLineShape

LEMMA EnterTypes ==
    ASSUME TypeInv, NEW s \in Servers, Enter(s),
           \/ run.at = "entering" /\ UNCHANGED <<run, kept>>
           \/ /\ run' = [Outside EXCEPT !.at = "entering-by-hand"]
              /\ kept' = kept \cup {s}
    PROVE  TypeInv'
  <1>1. /\ Others(s) /\ StillFunctions /\ Counted(s) /\ handle'[s] = lastId'[s]
        /\ answer' = NoRequest /\ Sent(s, "initialize") /\ UNCHANGED cache
        /\ running' = running \cup {<<s, lastId'[s]>>}
    BY EnterShape DEF TypeInv
  <1>2. ServersOK'
    BY <1>1, ServersAsk DEF TypeInv
  <1>3. WaitOK' /\ AnswerOK'
    BY <1>1, WaitIsSent
  <1>4. run' \in Runs /\ run'.at \in {"entering", "entering-by-hand"}
    BY DEF TypeInv, Runs, Outside
  <1>5. WaitInv'
    BY <1>1, <1>4 DEF WaitInv, Sent
  <1>6. lastId'[s] \in Nat \ {0}
    BY <1>1 DEF Counted, TypeInv, ServersOK
  <1>7. QED
    BY <1>1, <1>2, <1>3, <1>4, <1>5, <1>6 DEF TypeInv, Runs

LEMMA ExitTypes ==
    ASSUME TypeInv, NEW s \in Servers, Exit(s), run' \in Runs, kept' \subseteq Servers
    PROVE  TypeInv'
  <1>1. /\ Others(s) /\ StillFunctions /\ handle'[s] = 0
        /\ Channel(inbox'[s], pipe'[s], buffer'[s], Requests(s))
        /\ running' \subseteq running
        /\ wait = NoRequest /\ UNCHANGED <<lastId, cache, wait, answer>>
    BY ExitShape DEF TypeInv, ServersOK
  <1>2. ServersOK'
    BY <1>1, ServersStay DEF TypeInv
  <1>3. WaitOK' /\ AnswerOK'
    BY <1>1, WaitStays
  <1>4. QED
    BY <1>1, <1>2, <1>3 DEF TypeInv, WaitInv, Runs

LEMMA AskTypes ==
    ASSUME TypeInv, NEW s \in Servers, NEW method \in {"tools/list", "tools/call"},
           NEW tool \in Tools \cup {NoTool}, Ask(s, method, tool),
           method = "tools/list" => run.at = "gathering" /\ s \in run.left,
           method = "tools/call" => run.at = "talking"
    PROVE  TypeInv'
  <1>1. /\ Others(s) /\ StillFunctions /\ Counted(s) /\ answer' = NoRequest
        /\ \/ Sent(s, method) /\ UNCHANGED run
           \/ Fail /\ Channel(inbox'[s], pipe'[s], buffer'[s], Requests(s))
        /\ UNCHANGED <<handle, running, cache, kept>>
    BY AskShape DEF TypeInv
  <1>2. ServersOK'
    BY <1>1, ServersAsk DEF TypeInv
  <1>3. CASE Sent(s, method) /\ UNCHANGED run
    <2>1. WaitOK' /\ AnswerOK'
      BY <1>1, <1>3, WaitIsSent
    <2>2. WaitInv'
      BY <1>3 DEF WaitInv, Sent
    <2>3. QED
      BY <1>1, <1>2, <1>3, <2>1, <2>2 DEF TypeInv, Runs
  <1>4. CASE Fail
    <2>1. run' \in Runs /\ wait' = NoRequest
      BY <1>4, UnwoundShape DEF TypeInv, Fail
    <2>2. WaitOK' /\ AnswerOK' /\ WaitInv'
      BY <1>1, <2>1 DEF WaitOK, AnswerOK, WaitInv
    <2>3. QED
      BY <1>1, <1>2, <2>1, <2>2 DEF TypeInv, Runs
  <1>5. QED
    BY <1>1, <1>3, <1>4
LEMMA GatherTypes ==
    ASSUME TypeInv, NEW s \in Servers, Gather(s)
    PROVE  TypeInv'
  <1>1. run.at = "gathering" /\ s \in run.left
    BY DEF Gather
  <1>2. CASE Ask(s, "tools/list", NoTool)
    BY <1>1, <1>2, AskTypes
  <1>3. CASE /\ run' = Bind(s, cache[s].tools)
             /\ wait = NoRequest
             /\ UNCHANGED <<handle, running, inbox, pipe, buffer, lastId, cache,
                            wait, answer, kept>>
    <2>1. cache[s].tools \in SUBSET Tools
      BY DEF TypeInv, Caches, Listed, NotListed
    <2>2. run' \in Runs
      BY <1>3, <2>1, BindShape, UnwoundShape DEF TypeInv
    <2>3. QED
      BY <1>3, <2>2, RunStepTypes
  <1>4. QED
    BY <1>2, <1>3 DEF Gather

LEMMA TypeInvInit == Init => TypeInv
  <1> SUFFICES ASSUME Init PROVE TypeInv
    OBVIOUS
  <1>1. ServersOK
    BY DEF Init, ServersOK, ChannelOf, Channel, Halves
  <1>2. run \in Runs /\ cache \in [Servers -> Caches]
    BY DEF Init, Runs, Outside, Caches
  <1>3. QED
    BY <1>1, <1>2 DEF Init, TypeInv, WaitOK, AnswerOK, WaitInv

LEMMA TypeInvStep == TypeInv /\ [Next]_vars => TypeInv'
  <1> SUFFICES ASSUME TypeInv, [Next]_vars PROVE TypeInv'
    OBVIOUS
  <1>0. run \in Runs /\ kept \subseteq Servers
    BY DEF TypeInv
  <1>1. ASSUME NEW s \in Servers, Serve(s) \/ Receive(s)
        PROVE  TypeInv'
    BY <1>1, ServeTypes, TakeLineTypes, FailTypes DEF Receive, TimeOut
  <1>2. CASE Interrupt
    BY <1>2, FailTypes DEF Interrupt
  <1>3. ASSUME NEW s \in Servers, EnterByHand(s)
        PROVE  TypeInv'
    BY <1>3, EnterTypes DEF EnterByHand
  <1>4. ASSUME NEW s \in Servers, ExitByHand(s)
        PROVE  TypeInv'
    BY <1>0, <1>4, ExitTypes DEF ExitByHand
  <1>5. ASSUME NEW servers \in SUBSET Servers, Begin(servers)
        PROVE  TypeInv'
    <2>1. run' \in Runs
      BY <1>5 DEF Begin, Runs
    <2>2. QED
      BY <1>5, <2>1, RunStepTypes DEF Begin
  <1>6. ASSUME NEW s \in Servers, EnterNext(s)
        PROVE  TypeInv'
    BY <1>6, EnterTypes DEF EnterNext
  <1>7. ASSUME NEW s \in Servers, Gather(s)
        PROVE  TypeInv'
    BY <1>7, GatherTypes
  <1>8. ASSUME NEW s \in Servers, Leave(s)
        PROVE  TypeInv'
    <2>1. run' \in Runs
      BY <1>0, <1>8 DEF Leave, Runs
    <2>2. QED
      BY <1>0, <1>8, <2>1, ExitTypes DEF Leave
  <1>9. CASE EnterFails
    BY <1>9, FailTypes DEF EnterFails
  <1>10. ASSUME NEW from, NEW to \in {"gathering", "talking"},
                NEW left \in SUBSET Servers, Advance(from, to, left)
         PROVE  TypeInv'
    <2>1. run' \in Runs
      BY <1>0, <1>10 DEF Advance, Runs
    <2>2. QED
      BY <1>10, <2>1, RunStepTypes DEF Advance
  <1>11. ASSUME NEW b \in [tool: Tools, server: Servers], CallTool(b)
         PROVE  TypeInv'
    BY <1>11, AskTypes DEF CallTool
  <1>12. CASE EndRun
    BY <1>0, <1>12, UnwoundShape, RunStepTypes DEF EndRun
  <1>13. CASE Return
    <2>1. run' \in Runs
      BY <1>13 DEF Return, Outside, Runs
    <2>2. wait = NoRequest
      BY <1>0, <1>13 DEF Return, TypeInv, WaitInv, WaitOK, Requests
    <2>3. QED
      BY <1>13, <2>1, <2>2, RunStepTypes DEF Return
  <1>14. CASE UNCHANGED vars
    BY <1>14, RunStepTypes, <1>0 DEF vars
  <1>15. run.servers \in SUBSET Servers /\ {} \in SUBSET Servers
    BY <1>0 DEF Runs
  <1>16. QED
    BY <1>1, <1>2, <1>3, <1>4, <1>5, <1>6, <1>7, <1>8, <1>9, <1>10, <1>11,
       <1>12, <1>13, <1>14, <1>15 DEF Next

(* What is in the pipes and buffers of a server was asked, or answers what *)
(* was asked, of that server, whatever the caller, the operator and the    *)
(* servers do: the ids, the handles and the channels agree.                *)
THEOREM McpTypeCorrect == Spec => []McpTypeOK
  <1>1. TypeInv => McpTypeOK
    BY TypeInvIsTypeOK
  <1>2. QED
    BY <1>1, TypeInvInit, TypeInvStep, PTL DEF Spec
-----------------------------------------------------------------------------
(* Answers are to what was asked.                                          *)

LEMMA OwnInvInit == Init => OwnInv
  BY DEF Init, OwnInv, AnswersAreOwn

(* Whoever's channel moves, it moves what is in it; and the request that   *)
(* is waited for stays the same, or is waited for no more.                 *)
LEMMA OwnStays ==
    ASSUME TypeInv, OwnInv, UNCHANGED lastId, wait' \in {wait, NoRequest},
           answer' = answer,
           \/ UNCHANGED <<inbox, pipe, buffer>>
           \/ \E s \in Servers :
                 /\ Others(s)
                 /\ \A R : ChannelOf(s, R) =>
                              Channel(inbox'[s], pipe'[s], buffer'[s], R)
    PROVE  OwnInv'
  <1>1. ASSUME NEW d \in Servers, wait' # NoRequest, wait'.server = d
        PROVE  wait'.id = lastId'[d] /\ ChannelOf(d, Own(d))'
    <2>1. wait' = wait /\ wait.server = d /\ wait.id = lastId[d]
      BY <1>1 DEF OwnInv
    <2>2. ChannelOf(d, Own(d))
      BY <1>1, <2>1 DEF OwnInv
    <2> DEFINE own == Own(d)
    <2>3. Own(d)' = own
      BY <2>1 DEF Own, Requests
    <2>4. Channel(inbox'[d], pipe'[d], buffer'[d], own)
      <3>1. CASE UNCHANGED <<inbox, pipe, buffer>>
        BY <2>2, <3>1 DEF ChannelOf
      <3>2. ASSUME NEW s \in Servers, Others(s),
                   \A R : ChannelOf(s, R) =>
                             Channel(inbox'[s], pipe'[s], buffer'[s], R)
            PROVE  Channel(inbox'[d], pipe'[d], buffer'[d], own)
        <4>1. CASE d = s
          BY <2>2, <3>2, <4>1
        <4>2. CASE d # s
          BY <2>2, <3>2, <4>2 DEF Others, ChannelOf
        <4>3. QED
          BY <4>1, <4>2
      <3>3. QED
        BY <3>1, <3>2
    <2> HIDE DEF own
    <2>5. QED
      BY <2>1, <2>3, <2>4 DEF ChannelOf
  <1>2. AnswersAreOwn'
    BY DEF OwnInv, AnswersAreOwn
  <1>3. QED
    BY <1>1, <1>2 DEF OwnInv

LEMMA OwnIsSent ==
    ASSUME TypeInv, NEW s \in Servers, NEW method, Sent(s, method), Counted(s),
           answer' = NoRequest
    PROVE  OwnInv'
  <1>1. Requests(s) \cup {wait'} \subseteq Own(s)'
    <2>1. /\ lastId[s] \in Nat /\ lastId'[s] = lastId[s] + 1
          /\ wait'.id = lastId'[s] /\ wait' \in Requests(s)'
      BY RequestsAre DEF Sent, Counted, TypeInv, ServersOK
    <2>2. Requests(s) \subseteq Requests(s)'
      BY <2>1, RequestsAre, RequestsGrow
    <2>3. \A r \in Requests(s) : r.id # wait'.id
      BY <2>1 DEF Requests
    <2>4. QED
      BY <2>1, <2>2, <2>3 DEF Own
  <1>2. ChannelOf(s, Own(s))'
    BY <1>1, ChannelGrows DEF Sent, ChannelOf
  <1>3. QED
    BY <1>2 DEF OwnInv, AnswersAreOwn, Sent

LEMMA OwnInvStep == TypeInv /\ OwnInv /\ [Next]_vars => OwnInv'
  <1> SUFFICES ASSUME TypeInv, OwnInv, [Next]_vars PROVE OwnInv'
    OBVIOUS
  <1>0. ServersOK /\ running \subseteq Servers \X (Nat \ {0})
    BY DEF TypeInv
  <1>1. ASSUME NEW s \in Servers, Serve(s) \/ ReadChunk(s)
        PROVE  OwnInv'
    BY <1>0, <1>1, ServeShape, ReadShape, OwnStays
  <1>2. ASSUME NEW s \in Servers, TakeLine(s)
        PROVE  OwnInv'
    <2>1. /\ Others(s) /\ UNCHANGED lastId
          /\ \A R : ChannelOf(s, R) =>
                       Channel(inbox'[s], pipe'[s], buffer'[s], R)
      BY <1>0, <1>2, TakeShape
    <2>2. wait # NoRequest /\ wait.server = s
      BY <1>2, TakeLineShape
    <2>3. CASE UNCHANGED <<cache, run, wait, answer>>
      BY <2>1, <2>3, OwnStays
    <2>4. CASE Fail /\ UNCHANGED <<cache, answer>>
      BY <2>1, <2>4, OwnStays DEF Fail
    <2>5. ASSUME NEW req, req.id = wait.id, \A R : ChannelOf(s, R) => req \in R,
                 answer' = [asked |-> wait, for |-> req], wait' = NoRequest
          PROVE  OwnInv'
      <3>1. req \in Own(s)
        BY <2>2, <2>5 DEF OwnInv
      <3>2. req = wait
        BY <2>5, <3>1 DEF Own
      <3>3. QED
        BY <2>5, <3>2 DEF OwnInv, AnswersAreOwn
    <2>6. QED
      BY <1>2, <2>3, <2>4, <2>5, TakeLineShape
  <1>3. ASSUME NEW s \in Servers, NEW method \in {"tools/list", "tools/call"},
               NEW tool \in Tools \cup {NoTool}, Ask(s, method, tool)
        PROVE  OwnInv'
    <2>1. Counted(s) /\ answer' = NoRequest /\ (Sent(s, method) \/ Fail)
      BY <1>0, <1>3, AskShape
    <2>2. CASE Sent(s, method)
      BY <2>1, <2>2, OwnIsSent
    <2>3. CASE Fail
      BY <2>1, <2>3 DEF Fail, OwnInv, AnswersAreOwn
    <2>4. QED
      BY <2>1, <2>2, <2>3
  <1>4. ASSUME NEW s \in Servers, Enter(s)
        PROVE  OwnInv'
    BY <1>0, <1>4, EnterShape, OwnIsSent
  <1>5. ASSUME NEW s \in Servers, Exit(s)
        PROVE  OwnInv'
    BY <1>0, <1>5, ExitShape, OwnStays
  <1>6. CASE /\ UNCHANGED <<inbox, pipe, buffer, lastId, answer>>
             /\ wait' \in {wait, NoRequest}
    BY <1>6, OwnStays
  <1>7. QED
    BY <1>1, <1>2, <1>3, <1>4, <1>5, <1>6
    DEF Next, vars, Receive, TimeOut, Interrupt, Fail, EnterByHand, ExitByHand,
        Begin, EnterNext, EnterFails, Advance, Gather, CallTool, EndRun, Leave, Return

(* What the client returns is the answer to what it asked last, however    *)
(* many requests were given up on and whatever processes came before.      *)
THEOREM EveryAnswerIsOwn == Spec => []AnswersAreOwn
  <1>1. OwnInv => AnswersAreOwn
    BY DEF OwnInv
  <1>2. QED
    BY <1>1, TypeInvInit, TypeInvStep, OwnInvInit, OwnInvStep, PTL DEF Spec
-----------------------------------------------------------------------------
(* Nothing is left behind.                                                 *)

LEMMA ProcessInvInit == Init => ProcessInv
  BY DEF Init, ProcessInv, Up, Started, Outside

LEMMA ProcessStays ==
    ASSUME ProcessInv, running' \subseteq running, handle' = handle
    PROVE  (running \subseteq {Process(s) : s \in Servers})' /\ Up' = Up
  BY DEF ProcessInv, Process, Up, Started

LEMMA ProcessBegins ==
    ASSUME TypeInv, ProcessInv, NEW s \in Servers, Enter(s)
    PROVE  /\ (running \subseteq {Process(d) : d \in Servers})'
           /\ Up' = Up \cup {s} /\ s \notin Up
  <1>1. /\ Others(s) /\ handle[s] = 0 /\ handle'[s] = lastId'[s]
        /\ lastId'[s] = lastId[s] + 1 /\ lastId[s] \in Nat
        /\ running' = running \cup {<<s, lastId'[s]>>}
    BY EnterShape DEF TypeInv, Counted, ServersOK
  <1>2. ASSUME NEW p \in running
        PROVE  \E d \in Servers : p = <<d, handle'[d]>>
    <2>1. PICK d \in Servers : p = <<d, handle[d]>>
      BY DEF ProcessInv, Process
    <2>2. d # s
      BY <1>1, <2>1 DEF TypeInv
    <2>3. QED
      BY <1>1, <2>1, <2>2 DEF Others
  <1>3. (running \subseteq {Process(d) : d \in Servers})'
    BY <1>1, <1>2 DEF Process
  <1>4. QED
    BY <1>1, <1>3 DEF Up, Started, Others

LEMMA ProcessEnds ==
    ASSUME TypeInv, ProcessInv, NEW s \in Servers, Exit(s)
    PROVE  /\ (running \subseteq {Process(d) : d \in Servers})'
           /\ Up' = Up \ {s}
  <1>1. /\ Others(s) /\ handle'[s] = 0 /\ running' = running \ {Process(s)}
    BY ExitShape DEF TypeInv
  <1>2. ASSUME NEW p \in running'
        PROVE  \E d \in Servers : p = <<d, handle'[d]>>
    <2>1. PICK d \in Servers : p = <<d, handle[d]>>
      BY <1>1 DEF ProcessInv, Process
    <2>2. d # s
      BY <1>1, <2>1 DEF Process
    <2>3. QED
      BY <1>1, <2>1, <2>2 DEF Others
  <1>3. (running \subseteq {Process(d) : d \in Servers})'
    BY <1>2 DEF Process
  <1>4. QED
    BY <1>1, <1>3 DEF Up, Started, Others

(* A call of run() that is unwound has left what it started to stop.       *)
LEMMA UnwoundLeaves ==
    ASSUME run \in Runs, ProcessInv,
           run.at \in {"entering-by-hand", "entering", "gathering", "talking"},
           run' = Unwound, kept' = kept, handle' = handle, running' \subseteq running
    PROVE  ProcessInv'
  <1>1. (running \subseteq {Process(s) : s \in Servers})' /\ Up' = Up
    BY ProcessStays
  <1>2. CASE run.at = "entering-by-hand"
    <2>1. run'.at = "outside"
      BY <1>2, UnwoundShape DEF Outside
    <2>2. QED
      BY <1>1, <1>2, <2>1 DEF ProcessInv
  <1>3. CASE run.at # "entering-by-hand"
    <2>1. run'.at = "leaving" /\ run'.left = run.mine
      BY <1>3, UnwoundShape
    <2>2. QED
      BY <1>1, <1>3, <2>1 DEF ProcessInv
  <1>4. QED
    BY <1>2, <1>3

(* What a call goes through while nobody else enters or exits a server.    *)
LEMMA RunGoesOn ==
    ASSUME run \in Runs, ProcessInv, handle' = handle, running' \subseteq running,
           kept' = kept,
           \/ run' = run
           \/ /\ run.at \in {"entering", "gathering", "talking"}
              /\ run'.at \in {"entering", "gathering", "talking"}
              /\ run'.mine = run.mine
              /\ run'.at = "entering" => run.at = "entering" /\ run'.left \subseteq run.left
           \/ run.at = "entering-by-hand" /\ run' = Outside
    PROVE  ProcessInv'
  <1>1. (running \subseteq {Process(s) : s \in Servers})' /\ Up' = Up
    BY ProcessStays
  <1>2. CASE run' = run
    BY <1>1, <1>2 DEF ProcessInv
  <1>3. CASE /\ run.at \in {"entering", "gathering", "talking"}
             /\ run'.at \in {"entering", "gathering", "talking"}
             /\ run'.mine = run.mine
             /\ run'.at = "entering" => run.at = "entering" /\ run'.left \subseteq run.left
    BY <1>1, <1>3 DEF ProcessInv
  <1>4. CASE run.at = "entering-by-hand" /\ run' = Outside
    BY <1>1, <1>4 DEF ProcessInv, Outside
  <1>5. QED
    BY <1>2, <1>3, <1>4
LEMMA WaitsInside ==
    ASSUME TypeInv, wait # NoRequest
    PROVE  run.at \in {"entering-by-hand", "entering", "gathering", "talking"}
  <1>1. wait.method \in {"initialize", "tools/list", "tools/call"}
    BY DEF TypeInv, WaitOK, Requests
  <1>2. QED
    BY <1>1 DEF TypeInv, WaitInv

LEMMA FailLeaves ==
    ASSUME TypeInv, ProcessInv, Fail, UNCHANGED <<kept, handle, running>>,
           run.at \in {"entering-by-hand", "entering", "gathering", "talking"}
    PROVE  ProcessInv'
  BY UnwoundLeaves DEF TypeInv, Fail

LEMMA BindGoesOn ==
    ASSUME TypeInv, ProcessInv, run.at = "gathering", NEW s \in Servers,
           NEW offered \in SUBSET Tools, run' = Bind(s, offered),
           UNCHANGED <<kept, handle, running>>
    PROVE  ProcessInv'
  <1>1. run \in Runs
    BY DEF TypeInv
  <1>2. \/ run' = Unwound
        \/ run'.at = "gathering" /\ run'.mine = run.mine
    BY <1>1, BindShape
  <1>3. QED
    BY <1>1, <1>2, UnwoundLeaves, RunGoesOn

LEMMA ProcessInvStep == TypeInv /\ ProcessInv /\ [Next]_vars => ProcessInv'
  <1> SUFFICES ASSUME TypeInv, ProcessInv, [Next]_vars PROVE ProcessInv'
    OBVIOUS
  <1>0. run \in Runs /\ ServersOK /\ kept \subseteq Servers
        /\ running \subseteq Servers \X (Nat \ {0})
    BY DEF TypeInv
  <1>1. ASSUME NEW s \in Servers, Serve(s) \/ ReadChunk(s)
        PROVE  ProcessInv'
    BY <1>0, <1>1, ServeShape, ReadShape, RunGoesOn
  <1>2. ASSUME NEW s \in Servers, TakeLine(s)
        PROVE  ProcessInv'
    <2>1. UNCHANGED <<handle, running, kept>>
      BY <1>2 DEF TakeLine
    <2>2. run.at \in {"entering-by-hand", "entering", "gathering", "talking"}
      BY <1>2, TakeLineShape, WaitsInside
    <2>3. CASE UNCHANGED run
      BY <1>0, <2>1, <2>3, RunGoesOn
    <2>4. CASE Fail
      BY <2>1, <2>2, <2>4, FailLeaves
    <2>5. CASE Entered
      <3>1. CASE run' = Unwound
        BY <1>0, <2>1, <2>2, <3>1, UnwoundLeaves
      <3>2. CASE run.at = "entering-by-hand" /\ run' = Outside
        BY <1>0, <2>1, <3>2, RunGoesOn
      <3>3. CASE /\ run.at = "entering"
                 /\ run' = [run EXCEPT !.left = run.left \ {wait.server}]
        <4>1. /\ run'.at = "entering" /\ run'.mine = run.mine
              /\ run'.left \subseteq run.left
          BY <1>0, <3>3 DEF Runs
        <4>2. QED
          BY <1>0, <2>1, <3>3, <4>1, RunGoesOn
      <3>4. QED
        BY <2>5, <3>1, <3>2, <3>3 DEF Entered
    <2>6. ASSUME NEW tools \in SUBSET Tools, GatheredBy(s, tools)
          PROVE  ProcessInv'
      BY <2>1, <2>6, BindGoesOn DEF GatheredBy
    <2>7. QED
      BY <1>2, <2>3, <2>4, <2>5, <2>6, TakeLineShape
  <1>3. CASE (\E s \in Servers : TimeOut(s)) \/ Interrupt
    BY <1>3, WaitsInside, FailLeaves DEF TimeOut, Waiting, Interrupt
  <1>4. CASE EnterFails
    BY <1>4, FailLeaves DEF EnterFails
  <1>5. ASSUME NEW s \in Servers, EnterByHand(s)
        PROVE  ProcessInv'
    <2>1. run = Outside /\ run'.at = "entering-by-hand" /\ kept' = kept \cup {s}
      BY <1>5 DEF EnterByHand, Outside
    <2>2. /\ (running \subseteq {Process(d) : d \in Servers})'
          /\ Up' = Up \cup {s}
      BY <1>5, ProcessBegins DEF EnterByHand
    <2>3. QED
      BY <2>1, <2>2 DEF ProcessInv, Outside
  <1>6. ASSUME NEW s \in Servers, ExitByHand(s)
        PROVE  ProcessInv'
    <2>1. run = Outside /\ run' = Outside /\ kept' = kept \ {s}
      BY <1>6 DEF ExitByHand
    <2>2. /\ (running \subseteq {Process(d) : d \in Servers})'
          /\ Up' = Up \ {s}
      BY <1>6, ProcessEnds DEF ExitByHand
    <2>3. QED
      BY <2>1, <2>2 DEF ProcessInv, Outside
  <1>7. ASSUME NEW servers \in SUBSET Servers, Begin(servers)
        PROVE  ProcessInv'
    <2>1. /\ run = Outside /\ run'.at = "entering"
          /\ run'.mine = servers \ Up /\ run'.left = run'.mine
          /\ UNCHANGED <<handle, running, kept>>
      BY <1>7 DEF Begin, Up
    <2>2. (running \subseteq {Process(d) : d \in Servers})' /\ Up' = Up
      BY <2>1, ProcessStays
    <2>3. Up = kept
      BY <2>1 DEF ProcessInv, Outside
    <2>4. QED
      BY <2>1, <2>2, <2>3 DEF ProcessInv
  <1>8. ASSUME NEW s \in Servers, EnterNext(s)
        PROVE  ProcessInv'
    <2>1. /\ run.at = "entering" /\ s \in run.mine /\ run' = run /\ kept' = kept
      BY <1>8 DEF EnterNext, ProcessInv
    <2>2. /\ (running \subseteq {Process(d) : d \in Servers})'
          /\ Up' = Up \cup {s} /\ s \notin Up
      BY <1>8, ProcessBegins DEF EnterNext
    <2>3. QED
      BY <2>1, <2>2 DEF ProcessInv
  <1>9. ASSUME NEW s \in Servers, NEW method \in {"tools/list", "tools/call"},
               NEW tool \in Tools \cup {NoTool}, Ask(s, method, tool),
               run.at \in {"gathering", "talking"}
        PROVE  ProcessInv'
    <2>1. UNCHANGED <<handle, running, kept>> /\ (UNCHANGED run \/ Fail)
      BY <1>9 DEF Ask
    <2>2. QED
      BY <1>0, <1>9, <2>1, RunGoesOn, FailLeaves
  <1>10. ASSUME NEW s \in Servers, Gather(s)
         PROVE  ProcessInv'
    <2>1. cache[s].tools \in SUBSET Tools
      BY DEF TypeInv, Caches, Listed, NotListed
    <2>2. QED
      BY <1>9, <1>10, <2>1, BindGoesOn DEF Gather
  <1>11. ASSUME NEW b \in [tool: Tools, server: Servers], CallTool(b)
         PROVE  ProcessInv'
    BY <1>9, <1>11 DEF CallTool
  <1>12. ASSUME NEW left, \/ Advance("entering", "gathering", left)
                          \/ Advance("gathering", "talking", left)
         PROVE  ProcessInv'
    <2>1. /\ run.at \in {"entering", "gathering"}
          /\ run'.at \in {"gathering", "talking"} /\ run'.mine = run.mine
          /\ UNCHANGED <<handle, running, kept>>
      BY <1>0, <1>12 DEF Advance, Runs
    <2>2. QED
      BY <1>0, <2>1, RunGoesOn
  <1>13. CASE EndRun
    BY <1>0, <1>13, UnwoundLeaves DEF EndRun
  <1>14. ASSUME NEW s \in Servers, Leave(s)
         PROVE  ProcessInv'
    <2>1. /\ run.at = "leaving" /\ s \in run.left /\ kept' = kept
          /\ run'.at = "leaving" /\ run'.left = run.left \ {s}
      BY <1>0, <1>14 DEF Leave, Runs
    <2>2. /\ (running \subseteq {Process(d) : d \in Servers})'
          /\ Up' = Up \ {s}
      BY <1>14, ProcessEnds DEF Leave
    <2>3. QED
      BY <2>1, <2>2 DEF ProcessInv
  <1>15. CASE Return
    <2>1. /\ run.at = "leaving" /\ run.left = {} /\ run'.at = "outside"
          /\ UNCHANGED <<handle, running, kept>>
      BY <1>15 DEF Return, Outside
    <2>2. (running \subseteq {Process(d) : d \in Servers})' /\ Up' = Up
      BY <2>1, ProcessStays
    <2>3. QED
      BY <2>1, <2>2 DEF ProcessInv
  <1>16. CASE UNCHANGED vars
    BY <1>0, <1>16, RunGoesOn DEF vars
  <1>17. QED
    BY <1>1, <1>2, <1>3, <1>4, <1>5, <1>6, <1>7, <1>8, <1>10, <1>11, <1>12,
       <1>13, <1>14, <1>15, <1>16 DEF Next, Receive

(* Whatever ends a call of run(), and whenever a server dies: no process   *)
(* is running that nobody could stop, and when the call is over, what it   *)
(* started is stopped and what it did not start is not.                    *)
THEOREM NothingIsLeftBehind == Spec => []NothingLeftBehind
  <1>1. ProcessInv => NothingLeftBehind
    BY DEF ProcessInv, NothingLeftBehind, Up, Outside
  <1>2. QED
    BY <1>1, TypeInvInit, TypeInvStep, ProcessInvInit, ProcessInvStep, PTL DEF Spec
-----------------------------------------------------------------------------
(* A tool has one owner.                                                   *)

LEMMA IndexInvInit == Init => IndexInv
  BY DEF Init, IndexInv, Outside

LEMMA IndexStays ==
    ASSUME IndexInv, UNCHANGED <<run, cache>>
    PROVE  IndexInv'
  BY DEF IndexInv

LEMMA UnwoundIndex ==
    ASSUME run \in Runs, run' = Unwound
    PROVE  IndexInv'
  <1>1. run'.at \in {"outside", "leaving"}
    BY UnwoundShape DEF Outside
  <1>2. QED
    BY <1>1 DEF IndexInv

(* The tools of one server more: none of them is another's, or else they   *)
(* clash.                                                                  *)
LEMMA BindIndex ==
    ASSUME TypeInv, IndexInv, NEW s \in Servers, NEW offered \in SUBSET Tools,
           run.at = "gathering", s \in run.left, run' = Bind(s, offered),
           cache'[s].tools = offered,
           \A d \in Servers \ {s} : cache'[d] = cache[d]
    PROVE  IndexInv'
  <1>1. run \in Runs
    BY DEF TypeInv
  <1>2. CASE run' = Unwound
    BY <1>1, <1>2, UnwoundIndex
  <1>3. CASE /\ Clash(s, offered) = {} /\ run'.at = run.at
             /\ run'.servers = run.servers /\ run'.left = run.left \ {s}
             /\ run'.index = run.index \cup [tool: offered, server: {s}]
    <2>1. /\ run.left \subseteq run.servers /\ run.servers \subseteq Servers
          /\ \A b \in run.index : b.server \in run.servers \ run.left
                                  /\ b.tool \in cache[b.server].tools
          /\ \A d \in run.servers \ run.left : \A t \in cache[d].tools :
                [tool |-> t, server |-> d] \in run.index
          /\ \A b, c \in run.index : b.tool = c.tool => b.server = c.server
      BY <1>1 DEF IndexInv, Runs
    <2>2. run'.servers \ run'.left = (run.servers \ run.left) \cup {s}
      BY <1>3, <2>1
    <2>3. \A b \in run.index : b.server # s /\ b.tool \notin offered
      BY <1>3, <2>1 DEF Clash
    <2>4. \A b \in [tool: offered, server: {s}] : b.server = s /\ b.tool \in offered
      OBVIOUS
    <2>5. \A b \in run'.index : b.server \in run'.servers \ run'.left
                                /\ b.tool \in cache'[b.server].tools
      <3>1. ASSUME NEW b \in run.index
            PROVE  b.server \in run'.servers \ run'.left
                   /\ b.tool \in cache'[b.server].tools
        BY <2>1, <2>2, <2>3
      <3>2. ASSUME NEW b \in [tool: offered, server: {s}]
            PROVE  b.server \in run'.servers \ run'.left
                   /\ b.tool \in cache'[b.server].tools
        BY <2>2, <2>4
      <3>3. QED
        BY <1>3, <3>1, <3>2
    <2>6. \A d \in run'.servers \ run'.left : \A t \in cache'[d].tools :
             [tool |-> t, server |-> d] \in run'.index
      <3>1. ASSUME NEW d \in run.servers \ run.left, NEW t \in cache'[d].tools
            PROVE  [tool |-> t, server |-> d] \in run'.index
        BY <1>3, <2>1
      <3>2. ASSUME NEW t \in offered
            PROVE  [tool |-> t, server |-> s] \in run'.index
        BY <1>3
      <3>3. QED
        BY <2>2, <3>1, <3>2
    <2>7. \A b, c \in run'.index : b.tool = c.tool => b.server = c.server
      BY <1>3, <2>1, <2>3, <2>4
    <2>8. run'.left \subseteq run'.servers
      BY <1>3, <2>1
    <2>9. QED
      BY <1>3, <2>5, <2>6, <2>7, <2>8 DEF IndexInv
  <1>4. QED
    BY <1>1, <1>2, <1>3, BindShape

LEMMA IndexInvStep == TypeInv /\ IndexInv /\ [Next]_vars => IndexInv'
  <1> SUFFICES ASSUME TypeInv, IndexInv, [Next]_vars PROVE IndexInv'
    OBVIOUS
  <1>0. run \in Runs /\ cache \in [Servers -> Caches]
    BY DEF TypeInv
  <1>1. CASE UNCHANGED <<run, cache>>
    BY <1>1, IndexStays
  <1>2. CASE run' = Unwound
    BY <1>0, <1>2, UnwoundIndex
  <1>3. ASSUME NEW s \in Servers, TakeLine(s)
        PROVE  IndexInv'
    <2>1. CASE Entered
      <3>1. CASE run.at = "entering-by-hand" /\ run' = Outside
        BY <3>1 DEF IndexInv, Outside
      <3>2. CASE /\ run.at = "entering"
                 /\ run' = [run EXCEPT !.left = run.left \ {wait.server}]
        <4>1. run'.at = "entering" /\ run'.index = run.index
          BY <1>0, <3>2 DEF Runs
        <4>2. QED
          BY <3>2, <4>1 DEF IndexInv
      <3>3. QED
        BY <1>2, <2>1, <3>1, <3>2 DEF Entered
    <2>2. ASSUME NEW tools \in SUBSET Tools, GatheredBy(s, tools)
          PROVE  IndexInv'
      <3>1. /\ cache'[s].tools = tools
            /\ \A d \in Servers \ {s} : cache'[d] = cache[d]
        BY <1>0, <2>2 DEF GatheredBy, Listed
      <3>2. QED
        BY <2>2, <3>1, BindIndex DEF GatheredBy
    <2>3. QED
      BY <1>1, <1>2, <1>3, <2>1, <2>2, TakeLineShape DEF Fail
  <1>4. ASSUME NEW s \in Servers, EnterByHand(s)
        PROVE  IndexInv'
    BY <1>4 DEF EnterByHand, IndexInv, Outside
  <1>5. ASSUME NEW servers, Begin(servers)
        PROVE  IndexInv'
    BY <1>5 DEF Begin, IndexInv
  <1>6. ASSUME NEW s \in Servers, Gather(s)
        PROVE  IndexInv'
    <2>1. CASE Ask(s, "tools/list", NoTool)
      BY <1>1, <1>2, <2>1 DEF Ask, Fail
    <2>2. CASE run' = Bind(s, cache[s].tools) /\ cache' = cache
      <3>1. cache[s].tools \in SUBSET Tools
        BY <1>0 DEF Caches, Listed, NotListed
      <3>2. QED
        BY <1>6, <2>2, <3>1, BindIndex DEF Gather
    <2>3. QED
      BY <1>6, <2>1, <2>2 DEF Gather
  <1>7. CASE Advance("entering", "gathering", run.servers)
    <2>1. /\ run.at = "entering" /\ run'.at = "gathering"
          /\ run'.left = run.servers /\ run'.servers = run.servers
          /\ run'.index = run.index /\ cache' = cache
      BY <1>0, <1>7 DEF Advance, Runs
    <2>2. QED
      BY <2>1 DEF IndexInv
  <1>8. CASE Advance("gathering", "talking", {})
    <2>1. /\ run.at = "gathering" /\ run'.at = "talking"
          /\ run.left = {} /\ run'.left = {} /\ run'.servers = run.servers
          /\ run'.index = run.index /\ cache' = cache
      BY <1>0, <1>8 DEF Advance, Runs
    <2>2. QED
      BY <2>1 DEF IndexInv
  <1>9. ASSUME NEW s \in Servers, Leave(s)
        PROVE  IndexInv'
    <2>1. run'.at = "leaving"
      BY <1>0, <1>9 DEF Leave, Runs
    <2>2. QED
      BY <2>1 DEF IndexInv
  <1>10. CASE Return
    BY <1>10 DEF Return, IndexInv, Outside
  <1>11. ASSUME NEW s \in Servers,
                \/ Serve(s) \/ ReadChunk(s) \/ TimeOut(s)
                \/ ExitByHand(s) \/ EnterNext(s)
         PROVE  IndexInv'
    BY <1>1, <1>2, <1>11
    DEF Serve, Answer, Ignore, Chatter, Die, ReadChunk, TimeOut, Fail,
        ExitByHand, Exit, EnterNext, Enter
  <1>12. CASE Interrupt \/ EnterFails \/ EndRun \/ UNCHANGED vars
    BY <1>1, <1>2, <1>12 DEF Interrupt, EnterFails, Fail, EndRun, vars
  <1>13. ASSUME NEW b \in [tool: Tools, server: Servers], CallTool(b)
         PROVE  IndexInv'
    BY <1>1, <1>2, <1>13 DEF CallTool, Ask, Fail
  <1>14. QED
    BY <1>3, <1>4, <1>5, <1>6, <1>7, <1>8, <1>9, <1>10, <1>11, <1>12, <1>13
    DEF Next, Receive

(* While a conversation may call tools, a tool belongs to one of its       *)
(* servers, the one that will be asked to run it, and no tool that a       *)
(* server lists is missing.                                                *)
THEOREM EveryToolHasOneOwner == Spec => []OneOwner
  <1>1. TypeInv /\ IndexInv => OneOwner
    <2> SUFFICES ASSUME TypeInv, IndexInv, run.at = "talking"
                 PROVE  /\ \A b \in run.index :
                              {s \in run.servers : b.tool \in cache[s].tools} = {b.server}
                        /\ \A s \in run.servers :
                              cache[s].tools \subseteq {b.tool : b \in run.index}
      BY DEF OneOwner
    <2>1. /\ \A b \in run.index : b.server \in run.servers
                                  /\ b.tool \in cache[b.server].tools
          /\ \A s \in run.servers : \A t \in cache[s].tools :
                [tool |-> t, server |-> s] \in run.index
          /\ \A b, c \in run.index : b.tool = c.tool => b.server = c.server
      BY DEF IndexInv
    <2>2. ASSUME NEW b \in run.index, NEW s \in run.servers,
                 b.tool \in cache[s].tools
          PROVE  s = b.server
      <3>1. [tool |-> b.tool, server |-> s] \in run.index
        BY <2>1, <2>2
      <3>2. QED
        BY <2>1, <3>1
    <2>3. ASSUME NEW b \in run.index
          PROVE  {s \in run.servers : b.tool \in cache[s].tools} = {b.server}
      BY <2>1, <2>2
    <2>4. ASSUME NEW s \in run.servers, NEW t \in cache[s].tools
          PROVE  \E b \in run.index : b.tool = t
      <3>1. [tool |-> t, server |-> s] \in run.index
        BY <2>1
      <3>2. QED
        BY <3>1
    <2>5. QED
      BY <2>3, <2>4
  <1>2. QED
    BY <1>1, TypeInvInit, TypeInvStep, IndexInvInit, IndexInvStep, PTL DEF Spec
=============================================================================
