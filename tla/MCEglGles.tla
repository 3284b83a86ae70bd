------------------------------ MODULE MCEglGles ------------------------------
(* Instances of EglGles for TLC.                                            *)
EXTENDS EglGles

Names(cmds) == {[cmd |-> c] : c \in cmds}

\* Every command of the table; those whose messages depend on arguments with
\* the arguments that matter.  Left out are the calls the README lists: they
\* hang, or ask GL for something else.
MCVariable ==
    {[cmd |-> "eglGetConfigs", configs |-> FALSE, configSize |-> 2],
     [cmd |-> "eglGetConfigs", configs |-> TRUE, configSize |-> 2],
     [cmd |-> "eglChooseConfig", attribList |-> <<0>>, configs |-> FALSE,
        configSize |-> 1],
     [cmd |-> "eglChooseConfig", configs |-> TRUE, configSize |-> 1],
     [cmd |-> "eglCreateWindowSurface", attribList |-> <<0>>],
     [cmd |-> "eglCreateContext"],
     [cmd |-> "glShaderSource", count |-> 2, strings |-> <<<<5>>, <<5>>>>,
        lengths |-> <<>>],
     [cmd |-> "glShaderSource", count |-> 2, strings |-> <<<<5>>, <<5>>>>,
        lengths |-> <<1, -1>>],
     [cmd |-> "glGetShaderInfoLog", bufsize |-> 2],
     [cmd |-> "glBindAttribLocation", name |-> <<5, 0>>],
     [cmd |-> "glGetAttribLocation", name |-> <<5, 0>>],
     [cmd |-> "glGetUniformLocation", name |-> <<5, 0>>],
     [cmd |-> "glGenTextures", n |-> 2], [cmd |-> "glGenBuffers", n |-> 1],
     [cmd |-> "glDeleteTextures", n |-> 0, names |-> <<>>],
     [cmd |-> "glDeleteBuffers", n |-> 1, names |-> <<3>>],
     [cmd |-> "glTexImage2D", texels |-> <<0, 0>>],
     [cmd |-> "glBindBuffer", buffer |-> 1],
     [cmd |-> "glBufferData", dataSize |-> 0, data |-> <<>>],
     [cmd |-> "glBufferData", dataSize |-> 2, data |-> <<1, 2>>]}

MCAll == MCVariable \cup
    Names(DOMAIN Calls \ ({c.cmd : c \in MCVariable} \cup
          {"glDrawArrays", "glDrawElements", "glGetProgramInfoLog"}))

\* Drawing with client arrays and with buffers.
MCArrays ==
    [cmd : {"glVertexAttribPointer", "glEnableVertexAttribArray"}, index : {0, 1}]
    \cup {[cmd |-> "glBindBuffer", buffer |-> 1]}

MCDrawArrays == [cmd : {"glDrawArrays"}, first : {0, 2}, count : {0, 2}]

MCDrawElements ==
    {[cmd |-> "glDrawElements", type |-> GL_UNSIGNED_BYTE, count |-> 2,
        indices |-> <<1, 0>>],
     [cmd |-> "glDrawElements", type |-> GL_UNSIGNED_SHORT, count |-> 0,
        indices |-> <<>>]}

\* Calls that wait: for one word, for an array, for data of a size, for names.
MCWaits ==
    Names({"glFinish"})
    \cup {[cmd |-> "eglGetConfigs", configs |-> TRUE, configSize |-> 2],
          [cmd |-> "glGetShaderInfoLog", bufsize |-> 2],
          [cmd |-> "glGenTextures", n |-> 2]}

MCDraws == MCArrays \cup MCDrawArrays \cup MCDrawElements \cup MCWaits

MCElements == MCArrays \cup MCDrawElements

\* The runs that pass keep to the calls that the theorems are about.
ASSUME CallsAgreed == \A c \in MCAll \cup MCDraws : Agreed(c) /\ Meaningful(c)

\* An EGL version whose halves cannot be told apart, and EGL 1.4.
MCVersion11 == <<1, 1>>
MCVersion14 == <<1, 4>>

\* The calls the README lists, each with one that works.
MCInitialize == Names({"eglGetDisplay", "eglInitialize"})

MCShaderSource ==
    Names({"glCreateShader"})
    \cup {[cmd |-> "glShaderSource", count |-> 2, strings |-> <<<<5>>, <<6>>>>,
             lengths |-> <<>>]}

MCGetConfigs ==
    Names({"eglGetDisplay"})
    \cup {[cmd |-> "eglGetConfigs", configs |-> TRUE, configSize |-> 0]}

MCShaderInfoLog ==
    Names({"glCreateShader", "glCompileShader"})
    \cup {[cmd |-> "glGetShaderInfoLog", bufsize |-> 2]}

\* Buffers first, then none, and client arrays.
MCRebind ==
    {[cmd |-> "glBindBuffer", buffer |-> b] : b \in {0, 1}}
    \cup [cmd : {"glVertexAttribPointer", "glEnableVertexAttribArray"}, index : {0}]
    \cup {[cmd |-> "glDrawArrays", first |-> 0, count |-> 1]}

\* Attribute 1 without attribute 0, and indices that take four bytes.
MCGaps ==
    [cmd : {"glVertexAttribPointer", "glEnableVertexAttribArray"}, index : {0, 1}]
    \cup {[cmd |-> "glDrawArrays", first |-> 0, count |-> 1]}

MCUintIndices ==
    Names({"glFinish"})
    \cup {[cmd |-> "glDrawElements", type |-> GL_UNSIGNED_INT, count |-> 1,
             indices |-> <<0>>]}

MCProgramInfoLog ==
    Names({"glCreateProgram", "glLinkProgram"})
    \cup {[cmd |-> "glGetProgramInfoLog", bufsize |-> 2]}
=============================================================================
