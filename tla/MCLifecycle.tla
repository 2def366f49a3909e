---------------------------- MODULE MCLifecycle ----------------------------
EXTENDS Lifecycle

CONSTANTS c1, c2

Two(a, b) == (c1 :> a) @@ (c2 :> b)
Work(background, a, b) == [background |-> background, calls |-> Two(a, b)]

\* Every lock order meets every other one: the optimizer consolidates, which
\* takes each lock in both ways, while two callers run.
MCWorkloads ==
    {Work(TRUE, <<"insert">>, <<"beliefs">>),
     Work(TRUE, <<"insert">>, <<"search">>),
     Work(TRUE, <<"flush">>, <<"count">>),
     Work(TRUE, <<"delete">>, <<"exact", "shutdown">>),
     Work(TRUE, <<"session">>, <<"session", "shutdown">>),
     Work(FALSE, <<"consolidate">>, <<"insert", "flush">>),
     Work(FALSE, <<"search", "session">>, <<"update", "find", "session">>)}

=============================================================================
