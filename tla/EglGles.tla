------------------------------- MODULE EglGles -------------------------------
(***************************************************************************)
(* One application thread that calls the functions of client_egl_gles.c,   *)
(* and the thread of the server that dispatches its commands to the        *)
(* handlers of server_egl_gles.c, over the thread's own transport.         *)
(*                                                                         *)
(* The two channels are bounded FIFOs of words (ShmStream), named for what *)
(* the sender sends; the receiver only sees the values.  Functions without *)
(* a result do not wait: their commands queue in the call channel.  No     *)
(* lock is passed to the serializers, so gvStopSending and gvStopReceiving *)
(* have nothing to do.  The process is initialised and the thread stays    *)
(* with one context; Contexts models the rest.                             *)
(***************************************************************************)
EXTENDS EglGlesWire, FiniteSets

CONSTANTS
    Capacity,       \* words a channel holds
    AppCalls,       \* the calls of the application: records with a field cmd
                    \* and one for every argument the protocol looks at
    NumAttribs,     \* MAX_NUM_VERTEX_ATTRIBS
    NumConfigs,     \* the EGL configurations the server has
    EglVersion,     \* its EGL version, <<major, minor>>
    LogLengths,     \* the lengths of its shader and program logs
    Liberties       \* what the application does that the code does not expect:
                    \* "rebinds" (changes its buffer binding after it has specified
                    \* vertex arrays), "gaps" (enables them in any order)

GL_UNSIGNED_BYTE  == 1
GL_UNSIGNED_SHORT == 2
GL_UNSIGNED_INT   == 3

\* A call as the types of its function's parameters have it: what is passed is
\* an int or an array of them, and arrays are as long as the call says.
WellFormed(c) ==
    LET has(args, S) == args \subseteq DOMAIN c /\ \A x \in args : c[x] \in S
    IN  /\ has(DOMAIN c \cap (VarSize \cup {"data"}), Seq(Int))
        /\ has(DOMAIN c \ (VarSize \cup {"cmd", "configs", "data", "lengths", "strings"}), Int)
        /\ c.cmd \in {"eglGetConfigs", "eglChooseConfig"} =>
               has({"configs"}, BOOLEAN) /\ has({"configSize"}, Nat)
        /\ c.cmd \in {"glGetShaderInfoLog", "glGetProgramInfoLog"} => has({"bufsize"}, Nat)
        /\ c.cmd \in {"glGenTextures", "glGenBuffers"} => has({"n"}, Nat)
        /\ c.cmd \in {"glVertexAttribPointer", "glEnableVertexAttribArray"} =>
               has({"index"}, 0..(NumAttribs - 1))
        /\ c.cmd = "glBindBuffer" => has({"buffer"}, Nat)
        /\ c.cmd = "glBufferData" =>
               has({"data"}, Seq(Int)) /\ has({"dataSize"}, {Len(c.data)})
        /\ c.cmd = "glShaderSource" =>
               /\ has({"strings"}, Seq(Seq(Int))) /\ has({"count"}, {Len(c.strings)})
               /\ has({"lengths"}, {<<>>} \cup [1..c.count -> Int])
        /\ c.cmd = "glDrawArrays" => has({"first", "count"}, Nat)
        /\ c.cmd = "glDrawElements" =>
               has({"indices"}, Seq(Nat)) /\ has({"count"}, {Len(c.indices)})
               /\ has({"type"}, Int)

ASSUME EglGlesAssumption ==
    /\ Capacity \in Nat \ {0} /\ NumAttribs \in Nat \ {0}
    /\ NumConfigs \in Nat /\ LogLengths \subseteq Nat
    /\ EglVersion \in Nat \X Nat /\ Liberties \subseteq {"rebinds", "gaps"}
    /\ \A c \in AppCalls : WellFormed(c)

VARIABLES
    callChanel, returnChanel,
    cpc, call, out, wants, got,     \* the function the application is in
    attribs, buffers,               \* client_state_tracker: of the thread
    bound,                          \* history: GL_ARRAY_BUFFER, as the thread has it
    scmd, todo, args, replies,      \* the handler the server is in
    arrays,                         \* the pointers it keeps of vertex arrays
    allocated, lost, misfreed,      \* history: its blocks, and its faults with them
    glBound,                        \* GL_ARRAY_BUFFER of its context
    pending, made, answer           \* history: CommandStream

clientVars == <<cpc, call, out, wants, got, attribs, buffers, bound>>
memory     == <<arrays, allocated, lost, misfreed>>
serverVars == <<scmd, todo, args, replies, memory, glBound>>
history    == <<pending, made, answer>>
vars       == <<callChanel, returnChanel, clientVars, serverVars, history>>

CallId == 1        \* one thread, one id; every other value here is 0 or a size
NoCall == [cmd |-> "none"]

W(item, val) == [item |-> item, val |-> val]

\* Where the datum called item is in a, and its value.
Place(a, item) ==
    CHOOSE p \in DOMAIN a : /\ a[p].item = item
                            /\ \A q \in DOMAIN a : a[q].item = item => p <= q
Val(a, item) ==
    IF \E p \in DOMAIN a : a[p].item = item THEN a[Place(a, item)].val ELSE 0

\* The first data of variable size in a.
Elements(a) ==
    [k \in 1..Val(a, "varSize") |-> a[Place(a, "varSize") + k].val]

-----------------------------------------------------------------------------
(* Sending: what arguments or results make of a list of data.              *)

Arrays == {"data", "infoLog", "configs", "genNames"}

\* gvSendVarSizeData, gvSendData of an array, gvSendData of one datum.  (A
\* write of no bytes waits for room and moves nothing: it is left out.)
Encode(c, item) ==
    LET v == IF item \in DOMAIN c THEN c[item] ELSE
             IF item \in VarSize THEN <<>> ELSE 0
    IN  IF item \in VarSize
        THEN <<W("varSize", Len(v))>> \o [k \in DOMAIN v |-> W("element", v[k])]
        ELSE IF item \in Arrays THEN [k \in DOMAIN v |-> W(item, v[k])]
        ELSE <<W(item, v)>>

Message(c, items) == FlattenSeq([k \in DOMAIN items |-> Encode(c, items[k])])

-----------------------------------------------------------------------------
(* The client's view of vertex arrays (client_state_tracker.c).            *)

Enabled == {i \in 0..(NumAttribs - 1) : attribs[i].enabled}
numEnabled == Cardinality(Enabled)
gvIsAnyBufferBound == IF buffers # {} THEN 1 ELSE 0

\* sendVertexAttribArrays: the first numEnabled attributes, each followed by
\* its elements unless a buffer holds them.
VertexAttribWords(first, count) ==
    <<W("numAttribs", numEnabled), W("numVertices", count),
      W("anyBufferBound", gvIsAnyBufferBound)>>
    \o FlattenSeq([i \in 1..numEnabled |->
          <<W("index", attribs[i - 1].index), W("size", 0), W("type", 0),
            W("normalized", 0), W("stride", 0), W("ptr", attribs[i - 1].ptr)>>
          \o IF buffers # {} THEN <<>>
             ELSE [k \in 1..count |-> W("vertex", first + k - 1)]])

\* Mutant: one vertex short.
MaxIndexItself(indices) ==
    IF indices = <<>> THEN 0
    ELSE CHOOSE m \in ToSet(indices) : \A i \in ToSet(indices) : i <= m

\* getMaxIndexub(...) + 1, getMaxIndexus(...) + 1
NumVertices(indices) ==
    IF indices = <<>> THEN 1
    ELSE 1 + CHOOSE m \in ToSet(indices) : \A i \in ToSet(indices) : i <= m

\* The characters that glShaderSource takes from source[i]: a negative or
\* missing length is that of the application's i-th string.
ShaderSourceWords(c, source) ==
    LET n(i) == IF c.lengths = <<>> \/ c.lengths[i] < 0
                THEN Len(c.strings[i]) + 1 ELSE c.lengths[i] + 1
        chars(i) == [k \in 1..n(i) |->
                       IF k <= Len(source[i]) THEN source[i][k] ELSE 0]
    IN  <<W("passingType", IF c.lengths = <<>> THEN 0 ELSE 1)>>
        \o (IF c.lengths = <<>> THEN <<>> ELSE Encode([length |-> c.lengths], "length"))
        \o FlattenSeq([i \in DOMAIN c.strings |->
              Encode([string |-> chars(i)], "string")])

\* "A - Optional OUT pointer": without an array for them the client asks for no
\* configurations, only for their number.
Passed(c) ==
    IF c.cmd \in {"eglGetConfigs", "eglChooseConfig"} /\ ~c.configs
    THEN [c EXCEPT !.configSize = 0] ELSE c

\* The words of a command after command and call id.  Of the strings it is
\* *string, the first, that glShaderSource sends each time.
Arguments(c) ==
    Message(Passed(c), Calls[c.cmd].send)
    \o CASE c.cmd = "glShaderSource" ->
              ShaderSourceWords(c, [i \in DOMAIN c.strings |-> c.strings[1]])
         [] c.cmd = "glDrawArrays" -> VertexAttribWords(c.first, c.count)
         [] c.cmd = "glDrawElements"
              /\ c.type \in {GL_UNSIGNED_BYTE, GL_UNSIGNED_SHORT} ->
              VertexAttribWords(0, NumVertices(c.indices))
         [] OTHER -> <<>>

-----------------------------------------------------------------------------
(* Receiving: a list of what is still to be read.  Some data announce more *)
(* of them.                                                                *)

\* Mutant: reads no configurations.
ConfigsLeft(c, item, v) ==
    CASE item = "callId" /\ c.cmd \in {"glGenTextures", "glGenBuffers"} ->
           Block(c.n, "genNames")
      [] item = "logLength" -> Block(v, "infoLog")
      [] OTHER -> <<>>

\* What the client reads after it has read the value v of item.
ClientReadsMore(c, item, v) ==
    CASE item = "callId" /\ c.cmd \in {"glGenTextures", "glGenBuffers"} ->
           Block(c.n, "genNames")
      [] item = "numConfig" /\ c.configs /\ v > 0 -> Copies(v, "configs")
      [] item = "logLength" -> Block(v, "infoLog")
      [] OTHER -> <<>>

\* Mutant: reads the vertices although a buffer holds them.
AlwaysVertices(item, v, a) ==
    CASE item = "passingType" ->
           (IF v = 1 THEN <<"length">> ELSE <<>>) \o Copies(Val(a, "count"), "string")
      [] item = "dataSize" -> Block(v, "data")
      [] item = "anyBufferBound" ->
           Repeat(Val(a, "numAttribs"),
                  VertexAttrib \o Block(Val(a, "numVertices"), "vertex"))
      [] OTHER -> <<>>

\* What a handler reads after it has read a and then the value v of item.
ServerReadsMore(item, v, a) ==
    CASE item = "passingType" ->
           (IF v = 1 THEN <<"length">> ELSE <<>>) \o Copies(Val(a, "count"), "string")
      [] item = "dataSize" -> Block(v, "data")
      [] item = "anyBufferBound" ->
           Repeat(Val(a, "numAttribs"),
                  VertexAttrib \o (IF v = 1 THEN <<>>
                                   ELSE Block(Val(a, "numVertices"), "vertex")))
      [] OTHER -> <<>>

\* What a reader of the item h takes the next word for.
Expected(h) == IF h \in VarSize THEN "varSize" ELSE h

-----------------------------------------------------------------------------
(* What a call means to GL.                                                *)

\* The vertices that a draw fetches for each enabled attribute from its
\* buffer, or from its array if that is 0.
Draw(cmd, vertices) ==
    [cmd |-> cmd,
     fetched |-> [i \in Enabled |-> [from |-> attribs[i].buffer, what |-> vertices]]]

\* ... as the application made it
Meant(c) ==
    CASE c.cmd = "glDrawArrays" ->
           Draw(c.cmd, [k \in 1..c.count |-> c.first + k - 1])
      [] c.cmd = "glDrawElements" -> Draw(c.cmd, c.indices)
      [] c.cmd = "glShaderSource" ->
           [cmd |-> c.cmd, args |-> Message(c, Calls[c.cmd].send)
                                    \o ShaderSourceWords(c, c.strings)]
      [] OTHER -> [cmd |-> c.cmd, args |-> Arguments(c)]

\* The element v of the array of attribute i: one the client sent, or the
\* buffer's.  Beyond the end of an array, and at the client's own address, it
\* is anything.
Fetch(a, i, v, buffer) ==
    LET p == CHOOSE q \in DOMAIN a : a[q].item = "index" /\ a[q].val = i
    IN  IF Val(a, "anyBufferBound") = 1 THEN IF buffer # 0 THEN v ELSE -1
        ELSE IF v < Val(a, "numVertices") THEN a[p + 6 + v].val ELSE -1

\* Mutant: draws from where the client's array starts.
KeepFirst(cmd, a, buffer) ==
    LET indexes == {a[q].val : q \in {p \in DOMAIN a : a[p].item = "index"}}
    IN  [cmd |-> cmd,
         fetched |-> [i \in indexes |-> [from |-> buffer, what |->
            [k \in 1..Val(a, "count") |->
               Fetch(a, i, IF cmd = "glDrawElements" THEN Elements(a)[k]
                           ELSE Val(a, "first") + k - 1, buffer)]]]]

\* _glDrawArrays draws from 0 when it has the vertices, else from first.
DrawnByServer(cmd, a, buffer) ==
    LET indexes == {a[q].val : q \in {p \in DOMAIN a : a[p].item = "index"}}
        first   == IF Val(a, "anyBufferBound") = 1 THEN Val(a, "first") ELSE 0
    IN  [cmd |-> cmd,
         fetched |-> [i \in indexes |-> [from |-> buffer, what |->
            [k \in 1..Val(a, "count") |->
               Fetch(a, i, IF cmd = "glDrawElements" THEN Elements(a)[k]
                           ELSE first + k - 1, buffer)]]]]

\* ... as the handler made it.  _glGetProgramInfoLog asks for a shader's log.
MadeByServer(cmd, a, buffer) ==
    CASE cmd \in {"glDrawArrays", "glDrawElements"} -> DrawnByServer(cmd, a, buffer)
      [] cmd = "glGetProgramInfoLog" -> [cmd |-> "glGetShaderInfoLog", args |-> a]
      [] OTHER -> [cmd |-> cmd, args |-> a]

\* Blocks of memory, by the handler that allocates them: the table of arrays and
\* the arrays themselves; and pointers that are none of the server's.
Table(cmd) == [by |-> cmd, place |-> 0]
Array(cmd, i) == [by |-> cmd, place |-> i]
Foreign(i) == [by |-> "client", place |-> i]

\* receiveVertexAttribArrays: the i-th entry of the table, when a is read.
ArrayKept(cmd, i, a) == IF Val(a, "anyBufferBound") # 1 THEN Array(cmd, i) ELSE Foreign(i)

\* Mutant: the condition of the other handler.
FreesLikeElements(cmd, a) ==
    cmd \in {"glDrawArrays", "glDrawElements"} /\ Val(a, "anyBufferBound") = 1

\* _glDrawArrays frees the entries of its table unless a buffer is bound,
\* _glDrawElements if one is.
FreesArrays(cmd, a) ==
    \/ cmd = "glDrawArrays" /\ Val(a, "anyBufferBound") # 1
    \/ cmd = "glDrawElements" /\ Val(a, "anyBufferBound") = 1

\* Both free the table itself.
Freed(cmd, a) ==
    IF cmd \in {"glDrawArrays", "glDrawElements"}
    THEN {Table(cmd)} \cup (IF FreesArrays(cmd, a) THEN ToSet(arrays) ELSE {}) ELSE {}

\* What EGL and GLES answer.
AtMost(n, m) == IF n <= m THEN n ELSE m
GlResults(cmd, a) ==
    LET size == Val(a, "configSize")
        found(m) == IF size = 0 THEN m ELSE AtMost(m, size)
        configs(m) == [numConfig |-> found(m), configs |-> Copies(found(m), 0)]
    IN  CASE cmd = "eglGetConfigs" -> {configs(NumConfigs)}
          [] cmd = "eglChooseConfig" -> {configs(m) : m \in 0..NumConfigs}
          [] cmd \in {"glGetShaderInfoLog", "glGetProgramInfoLog"} ->
               {[logLength |-> AtMost(n, Val(a, "bufsize")),
                 infoLog |-> Copies(AtMost(n, Val(a, "bufsize")), 0)] : n \in LogLengths}
          [] cmd \in {"glGenTextures", "glGenBuffers"} ->
               {[genNames |-> Copies(Val(a, "n"), 0)]}
          [] cmd = "eglQueryString" -> {[queryString |-> <<0, 0>>]}
          [] cmd = "eglInitialize" ->
               {[major |-> EglVersion[1], minor |-> EglVersion[2]]}
          [] OTHER -> {[cmd |-> cmd]}

\* The handler's variables after its call.  _eglInitialize passes &minor where
\* eglInitialize stores the major version, and &major for the minor.
Locals(cmd, r) ==
    IF cmd = "eglInitialize" THEN [major |-> r.minor, minor |-> r.major] ELSE r

\* Mutant: keeps the configurations it was asked for.
ConfigsKept(cmd, a, r) == eglGlesJumpTable[cmd].send

\* "B - optional OUT pointer" of _eglGetConfigs and _eglChooseConfig
AnswerItems(cmd, a, r) ==
    eglGlesJumpTable[cmd].send
    \o IF cmd \in {"eglGetConfigs", "eglChooseConfig"} /\ Val(a, "configSize") > 0
       THEN <<"configs">> ELSE <<>>

-----------------------------------------------------------------------------
Init ==
    /\ callChanel = <<>> /\ returnChanel = <<>>
    /\ cpc = "idle" /\ call = NoCall /\ out = <<>> /\ wants = <<>> /\ got = <<>>
    /\ attribs = [i \in 0..(NumAttribs - 1) |->
                    [enabled |-> FALSE, index |-> 0, ptr |-> 0, buffer |-> 0]]
    /\ buffers = {} /\ bound = 0 /\ glBound = 0
    /\ scmd = "none" /\ todo = <<>> /\ args = <<>> /\ replies = <<>>
    /\ arrays = <<>> /\ allocated = {} /\ lost = {} /\ misfreed = {}
    /\ pending = <<>> /\ made = <<>> /\ answer = <<>>

(* The application thread.                                                 *)

\* An application draws with arrays it has specified: else it would have sent
\* its NULL pointers.
MayCall(c) ==
    /\ c.cmd \in {"glDrawArrays", "glDrawElements"} =>
           \A i \in Enabled : attribs[i].ptr # 0
    /\ c.cmd = "glBindBuffer" /\ "rebinds" \notin Liberties =>
           c.buffer # 0 /\ \A i \in DOMAIN attribs : attribs[i].ptr = 0

\* gvStartSending, then the arguments.
Issue(c) ==
    /\ cpc = "idle" /\ c.cmd \in DOMAIN Calls /\ MayCall(c)
    /\ cpc' = "sending"
    /\ call' = c
    /\ out' = <<W("cmd", c.cmd), W("callId", CallId)>> \o Arguments(c)
    /\ wants' = Calls[c.cmd].receive
    /\ got' = <<>>
    /\ pending' = Append(pending, Meant(c))
    /\ answer' = <<>>
    /\ UNCHANGED <<callChanel, returnChanel, attribs, buffers, bound, serverVars, made>>

\* Mutant: does not wait for room.
SendAlways ==
    /\ cpc = "sending"
    /\ callChanel' = Append(callChanel, Head(out))
    /\ out' = Tail(out)
    /\ LET finished == Len(out) = 1
       IN  /\ cpc' = IF ~finished THEN "sending"
                     ELSE IF wants = <<>> THEN "idle" ELSE "receiving"
           /\ call' = IF finished /\ wants = <<>> THEN NoCall ELSE call
           /\ buffers' = IF finished /\ call.cmd = "glBindBuffer"
                         THEN buffers \cup {call.buffer} ELSE buffers
           /\ bound' = IF finished /\ call.cmd = "glBindBuffer"
                       THEN call.buffer ELSE bound
    /\ UNCHANGED <<returnChanel, wants, got, attribs, serverVars, history>>

\* gvSendData.  At its end glBindBuffer notes the buffer (gvSetBufferBound),
\* 0 too; nothing takes one out again.
SendWord ==
    /\ cpc = "sending" /\ Len(callChanel) < Capacity
    /\ callChanel' = Append(callChanel, Head(out))
    /\ out' = Tail(out)
    /\ LET finished == Len(out) = 1
       IN  /\ cpc' = IF ~finished THEN "sending"
                     ELSE IF wants = <<>> THEN "idle" ELSE "receiving"
           /\ call' = IF finished /\ wants = <<>> THEN NoCall ELSE call
           /\ buffers' = IF finished /\ call.cmd = "glBindBuffer"
                         THEN buffers \cup {call.buffer} ELSE buffers
           /\ bound' = IF finished /\ call.cmd = "glBindBuffer"
                       THEN call.buffer ELSE bound
    /\ UNCHANGED <<returnChanel, wants, got, attribs, serverVars, history>>

\* gvStartReceiving, which takes the call id if it is this call's and looks
\* again and again if it is not, then gvReceiveData and gvReceiveVarSizeData.
ReceiveWord ==
    /\ cpc = "receiving" /\ returnChanel # <<>>
    /\ LET h == Head(wants)
           w == Head(returnChanel)
           more == IF h \in VarSize THEN Copies(w.val, "element")
                   ELSE ClientReadsMore(call, h, w.val)
       IN  /\ h = "callId" => w.val = CallId
           /\ IF h = "nothing"
              THEN /\ wants' = Tail(wants)
                   /\ UNCHANGED <<returnChanel, got>>
              ELSE /\ returnChanel' = Tail(returnChanel)
                   /\ wants' = more \o Tail(wants)
                   /\ got' = Append(got, W(Expected(h), w.val))
    /\ cpc' = IF wants' = <<>> THEN "idle" ELSE "receiving"
    /\ call' = IF wants' = <<>> THEN NoCall ELSE call
    /\ UNCHANGED <<callChanel, out, attribs, buffers, bound, serverVars, history>>

\* glVertexAttribPointer and glEnableVertexAttribArray send nothing.
VertexAttribPointer(c) ==
    /\ cpc = "idle" /\ c.cmd = "glVertexAttribPointer"
    /\ attribs' = [attribs EXCEPT ![c.index].index = c.index, ![c.index].ptr = 1,
                                 ![c.index].buffer = bound]
    /\ UNCHANGED <<callChanel, returnChanel, cpc, call, out, wants, got, buffers,
                   bound, serverVars, history>>

\* An application without gaps enables its attributes from 0 upwards: the code
\* sends the first ones, however many are enabled.
EnableVertexAttribArray(c) ==
    /\ cpc = "idle" /\ c.cmd = "glEnableVertexAttribArray"
    /\ "gaps" \in Liberties \/ \A i \in 0..(c.index - 1) : attribs[i].enabled
    /\ attribs' = [attribs EXCEPT ![c.index].enabled = TRUE]
    /\ UNCHANGED <<callChanel, returnChanel, cpc, call, out, wants, got, buffers,
                   bound, serverVars, history>>

-----------------------------------------------------------------------------
(* The dispatch thread.                                                    *)

Dispatch ==
    /\ scmd = "none" /\ callChanel # <<>>
    /\ scmd' = Head(callChanel).val
    /\ todo' = IF scmd' \in DOMAIN eglGlesJumpTable
               THEN eglGlesJumpTable[scmd'].receive ELSE <<>>
    /\ callChanel' = Tail(callChanel)
    /\ UNCHANGED <<returnChanel, clientVars, args, replies, memory, glBound, history>>

\* What it does to its memory after it has read item.
Remember(item) ==
    LET kept == ArrayKept(scmd, Len(arrays) + 1, args)
    IN  /\ arrays' = IF item = "ptr" THEN Append(arrays, kept) ELSE arrays
        /\ allocated' = allocated \cup
               (CASE item = "anyBufferBound" -> {Table(scmd)}
                  [] item = "ptr" -> {kept} \ {Foreign(Len(arrays) + 1)}
                  [] OTHER -> {})

\* A handler reads the next of its arguments; with those of vertex arrays it
\* allocates the table of arrays, and an array unless a buffer is bound.
Receive ==
    /\ todo # <<>> /\ callChanel # <<>>
    /\ LET h == Head(todo)
           w == Head(callChanel)
           more == IF h \in VarSize THEN Copies(w.val, "element")
                   ELSE ServerReadsMore(h, w.val, args)
       IN  IF h = "nothing"
           THEN /\ todo' = Tail(todo)
                /\ UNCHANGED <<callChanel, args>>
           ELSE /\ callChanel' = Tail(callChanel)
                /\ todo' = more \o Tail(todo)
                /\ args' = IF h = "callId" THEN args
                           ELSE Append(args, W(Expected(h), w.val))
    /\ Remember(Head(todo))
    /\ UNCHANGED <<returnChanel, clientVars, scmd, replies, lost, misfreed, glBound,
                   history>>

\* The handler calls EGL or GLES, and starts to answer if it is one that does.
\* It frees what it frees, and its variables are gone: a block it still has is
\* lost.
Execute ==
    /\ scmd # "none" /\ todo = <<>> /\ replies = <<>>
    /\ \E r \in GlResults(scmd, args) :
         LET says(v) == Message([callId |-> CallId] ++ v, AnswerItems(scmd, args, r))
             words   == says(Locals(scmd, r))
         IN  /\ replies' = words
             /\ answer' = IF words = <<>> THEN answer ELSE says(r)
             /\ scmd' = IF words = <<>> THEN "none" ELSE "answering"
    /\ made' = <<MadeByServer(scmd, args, glBound)>>
    /\ pending' = Tail(pending)
    /\ arrays' = <<>> /\ allocated' = {}
    /\ lost' = lost \cup (allocated \ Freed(scmd, args))
    /\ misfreed' = misfreed \cup {[by |-> scmd, place |-> b.place] :
                                   b \in Freed(scmd, args) \ allocated}
    /\ glBound' = IF scmd = "glBindBuffer" THEN Val(args, "buffer") ELSE glBound
    /\ args' = <<>>
    /\ UNCHANGED <<callChanel, returnChanel, clientVars, todo>>

ReplyWord ==
    /\ replies # <<>> /\ Len(returnChanel) < Capacity
    /\ returnChanel' = Append(returnChanel, Head(replies))
    /\ replies' = Tail(replies)
    /\ scmd' = IF Len(replies) = 1 THEN "none" ELSE scmd
    /\ UNCHANGED <<callChanel, clientVars, todo, args, memory, glBound, history>>

-----------------------------------------------------------------------------
ClientStep == SendWord \/ ReceiveWord
ServerStep == Dispatch \/ Receive \/ Execute \/ ReplyWord
Next ==
    \/ \E c \in AppCalls :
          Issue(c) \/ VertexAttribPointer(c) \/ EnableVertexAttribArray(c)
    \/ ClientStep \/ ServerStep
Spec == Init /\ [][Next]_vars

\* A thread that can run does in the end.
FairSpec == Spec /\ WF_vars(ClientStep) /\ WF_vars(ServerStep)
-----------------------------------------------------------------------------
(* Properties.                                                             *)

\* The calls on whose messages the two sides agree.  glDrawElements sends no
\* vertex arrays with other types of indices; eglGetConfigs reads configurations
\* if it has an array for them, its handler sends them if configSize is not 0.
Agreed(c) ==
    /\ c.cmd = "glDrawElements" => c.type \in {GL_UNSIGNED_BYTE, GL_UNSIGNED_SHORT}
    /\ c.cmd \in {"eglGetConfigs", "eglChooseConfig"} /\ c.configs => c.configSize > 0

\* The calls that the server makes as they were meant.
Meaningful(c) ==
    /\ c.cmd # "glGetProgramInfoLog"
    /\ c.cmd = "glShaderSource" =>
           \A i \in DOMAIN c.strings : c.strings[i] = c.strings[1]

\* The channels stay within capacity, the program counters in their ranges.
TypeOK ==
    /\ Len(callChanel) <= Capacity /\ Len(returnChanel) <= Capacity
    /\ cpc \in {"idle", "sending", "receiving"}
    /\ (cpc = "sending") = (out # <<>>)
    /\ cpc = "receiving" => wants # <<>>
    /\ buffers \subseteq Nat /\ {bound, glBound} \subseteq buffers \cup {0}
    /\ Enabled \subseteq 0..(NumAttribs - 1)
    /\ scmd \in DOMAIN Calls \cup {"none", "answering"}
    /\ replies # <<>> <=> scmd = "answering"

\* Both sides take every word for what the other sent it as: however many
\* commands are queued, a handler neither stops short of the next command nor
\* reads into it, and a function reads exactly the answer of its call.
Framed ==
    /\ callChanel # <<>> => \/ todo = <<>> /\ (scmd = "none" =>
                                  Head(callChanel).item = "cmd")
                            \/ todo # <<>> /\ Head(todo) = "nothing"
                            \/ todo # <<>> /\ Head(callChanel).item = Expected(Head(todo))
    /\ returnChanel # <<>> => \/ cpc = "receiving" /\ Head(wants) = "nothing"
                              \/ cpc = "receiving"
                                   /\ Head(returnChanel).item = Expected(Head(wants))
                              \/ cpc = "sending" /\ wants # <<>>

\* The results a function returns are those that EGL or GLES returned to the
\* handler of its call.
ResultIsGls == cpc = "idle" => got = answer

\* _glDrawArrays frees the table of arrays and the arrays that it allocates, all
\* of them, and nothing else: not the client's pointers, that stand in the table
\* when a buffer is bound.
DrawArraysFreed == \A b \in lost \cup misfreed : b.by # "glDrawArrays"

\* The same of every handler.
ArraysFreed == lost \cup misfreed = {}

\* A function that waits for an answer returns.
CallReturns == cpc # "idle" ~> cpc = "idle"

\* The server makes the application's calls, in order and with its arguments,
\* and a function with a result returns after its call was made.
Abstract == INSTANCE CommandStream WITH
    phase <- IF cpc = "idle" \/ wants = <<>> THEN "free"
               ELSE IF pending = <<>> THEN "answered" ELSE "waiting"
ImplementsCommandStream == Abstract!Spec
=============================================================================
