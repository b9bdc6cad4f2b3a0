---------------------------- MODULE MCLogConfig ----------------------------
(***************************************************************************)
(* Instance of LogConfig for TLC: what a logger's node may be.             *)
(***************************************************************************)
EXTENDS LogConfig

\* Two kinds of nodes: without a level, with a formatter, an appender that is wrong
\* and one without a formatter; and at WARN, with a formatter that does not parse, an
\* appender with its own formatter and one with a bad one.
Nodes ==
    {Define(UNKNOWN, <<"%", "d">>, <<Wrong, AppenderNode(Empty)>>),
     Define(WARN, <<"%", "x">>, <<AppenderNode(<<"%", "m">>), AppenderNode(<<"%", "x">>)>>)}
=============================================================================
