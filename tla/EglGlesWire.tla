----------------------------- MODULE EglGlesWire -----------------------------
(***************************************************************************)
(* What EGL and GLES calls look like on the wire: which data the functions *)
(* of client_egl_gles.c send and receive, and which data the handlers of   *)
(* server_egl_gles.c receive and send, written down from each side's own   *)
(* source.  The client and the server share no description of a message:   *)
(* that the two agree is what EglGles checks.                              *)
(*                                                                         *)
(* A datum is named for the variable that is sent; one gvSendData or       *)
(* gvReceiveData of one variable is one word.  An array is as many words   *)
(* as it has elements.                                                     *)
(***************************************************************************)
EXTENDS Integers, SequencesExt

\* One table made of two.
f ++ g == [x \in DOMAIN f \cup DOMAIN g |-> IF x \in DOMAIN f THEN f[x] ELSE g[x]]

\* Word w is written n times.
Copies(n, w) == [k \in 1..n |-> w]

\* The sequence s, n times over.
Repeat(n, s) == FlattenSeq([k \in 1..n |-> s])

\* Data sent with gvSendVarSizeData, a length before the elements.
VarSize == {"attribList", "queryString", "name", "length", "string", "texels",
            "indices", "names"}

\* gvReceiveData of n elements.  Of none it waits for a byte it does not take:
\* readFunc looks at the length of the data before the length asked for.
Block(n, item) == IF n > 0 THEN Copies(n, item) ELSE <<"nothing">>

VertexAttrib == <<"index", "size", "type", "normalized", "stride", "ptr">>

-----------------------------------------------------------------------------
(* The client: functions that wait for an answer, and functions that do    *)
(* not.                                                                    *)

Call(sent, received) == [send |-> sent, receive |-> <<"callId">> \o received]
Post(sent)           == [send |-> sent, receive |-> <<>>]

DisplayCalls ==
    [eglGetError    |-> Call(<<>>, <<"error">>),
     eglGetDisplay  |-> Call(<<"displayId">>, <<"display">>),
     eglInitialize  |-> Call(<<"display">>, <<"status", "major", "minor">>),
     eglTerminate   |-> Call(<<"display">>, <<"status">>),
     eglQueryString |-> Call(<<"display", "stringName">>, <<"queryString">>)]

ConfigCalls ==
    [eglGetConfigs |->
        Call(<<"display", "configSize">>, <<"status", "numConfig">>),
     eglChooseConfig |->
        Call(<<"display", "attribList", "configSize">>,
             <<"status", "numConfig">>),
     eglGetConfigAttrib |->
        Call(<<"display", "config", "attribute">>, <<"status", "value">>)]

SurfaceCalls ==
    [eglCreateWindowSurface |->
        Call(<<"display", "config", "window", "attribList">>, <<"surface">>),
     eglBindAPI |-> Call(<<"api">>, <<"status">>)]

ContextCalls ==
    [eglCreateContext |->
        Call(<<"display", "config", "shareContext", "attribList">>,
             <<"context">>),
     eglMakeCurrent |->
        Call(<<"display", "drawSurface", "readSurface", "context">>,
             <<"status">>),
     eglSwapBuffers |-> Call(<<"display", "surface">>, <<"status">>)]

\* glShaderSource sends more than this: ShaderSourceWords.
ShaderCalls ==
    [glCreateShader     |-> Call(<<"type">>, <<"shader">>),
     glShaderSource     |-> Post(<<"shader", "count">>),
     glCompileShader    |-> Post(<<"shader">>),
     glGetShaderiv      |-> Call(<<"shader", "pname">>, <<"params">>),
     glGetShaderInfoLog |-> Call(<<"shader", "bufsize">>, <<"logLength">>),
     glDeleteShader     |-> Post(<<"shader">>)]

ProgramCalls ==
    [glCreateProgram      |-> Call(<<>>, <<"program">>),
     glAttachShader       |-> Post(<<"program", "shader">>),
     glBindAttribLocation |-> Post(<<"program", "attribIndex", "name">>),
     glLinkProgram        |-> Post(<<"program">>),
     glGetProgramiv       |-> Call(<<"program", "pname">>, <<"params">>),
     glGetProgramInfoLog  |-> Call(<<"program", "bufsize">>, <<"logLength">>),
     glDeleteProgram      |-> Post(<<"program">>)]

StateCalls ==
    [glClearColor  |-> Post(<<"red", "green", "blue", "alpha">>),
     glViewport    |-> Post(<<"x", "y", "width", "height">>),
     glClear       |-> Post(<<"mask">>),
     glUseProgram  |-> Post(<<"program">>)]

\* Mutant: glFinish does not wait.
FinishAtOnce ==
    [glDrawArrays  |-> Post(<<"mode", "first", "count">>),
     glGetError    |-> Call(<<>>, <<"error">>),
     glFinish      |-> Post(<<>>),
     glPixelStorei |-> Post(<<"pname", "param">>)]

\* glDrawArrays sends more than this: VertexAttribWords.
DrawCalls ==
    [glDrawArrays  |-> Post(<<"mode", "first", "count">>),
     glGetError    |-> Call(<<>>, <<"error">>),
     glFinish      |-> Call(<<>>, <<>>),
     glPixelStorei |-> Post(<<"pname", "param">>)]

TextureCalls ==
    [glGenTextures   |-> Call(<<"n">>, <<>>),
     glBindTexture   |-> Post(<<"target", "texture">>),
     glTexImage2D    |-> Post(<<"target", "level", "internalFormat", "width",
                                "height", "border", "format", "type",
                                "texels">>),
     glTexParameteri |-> Post(<<"target", "pname", "param">>),
     glActiveTexture |-> Post(<<"texture">>)]

\* glDrawElements too: VertexAttribWords.
UniformCalls ==
    [glUniform1i          |-> Post(<<"location", "v0">>),
     glDrawElements       |-> Post(<<"mode", "count", "type", "indices">>),
     glGetAttribLocation  |-> Call(<<"program", "name">>, <<"location">>),
     glGetUniformLocation |-> Call(<<"program", "name">>, <<"location">>)]

BufferCalls ==
    [glDeleteTextures |-> Post(<<"n", "names">>),
     glGenBuffers     |-> Call(<<"n">>, <<>>),
     glBindBuffer     |-> Post(<<"target", "buffer">>),
     glBufferData     |-> Post(<<"target", "dataSize", "data", "usage">>),
     glDeleteBuffers  |-> Post(<<"n", "names">>)]

Calls == DisplayCalls ++ ConfigCalls ++ SurfaceCalls ++ ContextCalls
         ++ ShaderCalls ++ ProgramCalls ++ StateCalls ++ DrawCalls
         ++ TextureCalls ++ UniformCalls ++ BufferCalls

-----------------------------------------------------------------------------
(* The server: handlers that answer, and handlers that do not.  Each of    *)
(* them reads the call id first.                                           *)

Answer(received, sent) ==
    [receive |-> <<"callId">> \o received, send |-> <<"callId">> \o sent]
Silent(received) == [receive |-> <<"callId">> \o received, send |-> <<>>]

\* Mutant: the handler of eglQueryString reads the display only.
ShortQueryString ==
    [eglGetError    |-> Answer(<<>>, <<"error">>),
     eglGetDisplay  |-> Answer(<<"displayId">>, <<"display">>),
     eglInitialize  |-> Answer(<<"display">>, <<"status", "major", "minor">>),
     eglTerminate   |-> Answer(<<"display">>, <<"status">>),
     eglQueryString |-> Answer(<<"display">>, <<"queryString">>)]

DisplayHandlers ==
    [eglGetError    |-> Answer(<<>>, <<"error">>),
     eglGetDisplay  |-> Answer(<<"displayId">>, <<"display">>),
     eglInitialize  |-> Answer(<<"display">>, <<"status", "major", "minor">>),
     eglTerminate   |-> Answer(<<"display">>, <<"status">>),
     eglQueryString |-> Answer(<<"display", "stringName">>, <<"queryString">>)]

ConfigHandlers ==
    [eglGetConfigs |->
        Answer(<<"display", "configSize">>, <<"status", "numConfig">>),
     eglChooseConfig |->
        Answer(<<"display", "attribList", "configSize">>,
               <<"status", "numConfig">>),
     eglGetConfigAttrib |->
        Answer(<<"display", "config", "attribute">>, <<"status", "value">>)]

SurfaceHandlers ==
    [eglCreateWindowSurface |->
        Answer(<<"display", "config", "window", "attribList">>, <<"surface">>),
     eglBindAPI |-> Answer(<<"api">>, <<"status">>)]

ContextHandlers ==
    [eglCreateContext |->
        Answer(<<"display", "config", "shareContext", "attribList">>,
               <<"context">>),
     eglMakeCurrent |->
        Answer(<<"display", "drawSurface", "readSurface", "context">>,
               <<"status">>),
     eglSwapBuffers |-> Answer(<<"display", "surface">>, <<"status">>)]

ShaderHandlers ==
    [glCreateShader     |-> Answer(<<"type">>, <<"shader">>),
     glShaderSource     |-> Silent(<<"shader", "count", "passingType">>),
     glCompileShader    |-> Silent(<<"shader">>),
     glGetShaderiv      |-> Answer(<<"shader", "pname">>, <<"params">>),
     glGetShaderInfoLog |->
        Answer(<<"shader", "bufsize">>, <<"logLength", "infoLog">>),
     glDeleteShader     |-> Silent(<<"shader">>)]

ProgramHandlers ==
    [glCreateProgram      |-> Answer(<<>>, <<"program">>),
     glAttachShader       |-> Silent(<<"program", "shader">>),
     glBindAttribLocation |-> Silent(<<"program", "attribIndex", "name">>),
     glLinkProgram        |-> Silent(<<"program">>),
     glGetProgramiv       |-> Answer(<<"program", "pname">>, <<"params">>),
     glGetProgramInfoLog  |->
        Answer(<<"program", "bufsize">>, <<"logLength", "infoLog">>),
     glDeleteProgram      |-> Silent(<<"program">>)]

StateHandlers ==
    [glClearColor |-> Silent(<<"red", "green", "blue", "alpha">>),
     glViewport   |-> Silent(<<"x", "y", "width", "height">>),
     glClear      |-> Silent(<<"mask">>),
     glUseProgram |-> Silent(<<"program">>)]

VertexAttribHeader == <<"numAttribs", "numVertices", "anyBufferBound">>

DrawHandlers ==
    [glDrawArrays  |->
        Silent(<<"mode", "first", "count">> \o VertexAttribHeader),
     glGetError    |-> Answer(<<>>, <<"error">>),
     glFinish      |-> Answer(<<>>, <<>>),
     glPixelStorei |-> Silent(<<"pname", "param">>)]

TextureHandlers ==
    [glGenTextures   |-> Answer(<<"n">>, <<"genNames">>),
     glBindTexture   |-> Silent(<<"target", "texture">>),
     glTexImage2D    |-> Silent(<<"target", "level", "internalFormat", "width",
                                  "height", "border", "format", "type",
                                  "texels">>),
     glTexParameteri |-> Silent(<<"target", "pname", "param">>),
     glActiveTexture |-> Silent(<<"texture">>)]

UniformHandlers ==
    [glUniform1i          |-> Silent(<<"location", "v0">>),
     glDrawElements       |->
        Silent(<<"mode", "count", "type", "indices">> \o VertexAttribHeader),
     glGetAttribLocation  |-> Answer(<<"program", "name">>, <<"location">>),
     glGetUniformLocation |-> Answer(<<"program", "name">>, <<"location">>)]

BufferHandlers ==
    [glDeleteTextures |-> Silent(<<"n", "names">>),
     glGenBuffers     |-> Answer(<<"n">>, <<"genNames">>),
     glBindBuffer     |-> Silent(<<"target", "buffer">>),
     glBufferData     |-> Silent(<<"target", "dataSize", "usage">>),
     glDeleteBuffers  |-> Silent(<<"n", "names">>)]

\* Every other entry of the jump table reads nothing, not even the call id.
eglGlesJumpTable ==
    DisplayHandlers ++ ConfigHandlers ++ SurfaceHandlers ++ ContextHandlers
    ++ ShaderHandlers ++ ProgramHandlers ++ StateHandlers ++ DrawHandlers
    ++ TextureHandlers ++ UniformHandlers ++ BufferHandlers
=============================================================================
