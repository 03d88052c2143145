--------------------------- MODULE MCNodeExecution ---------------------------
(* Every block of up to three of these instructions, pairs of short
   blocks with loops, and short blocks that are joined. *)
EXTENDS NodeExecution

Name(n) == [kind |-> "name", name |-> n, memory |-> FALSE]
MemoryOf(n) == [Name(n) EXCEPT !.memory = TRUE]
Literal == [kind |-> "literal", name |-> None, memory |-> FALSE]

Instr(op, dst, target, operands) == [op |-> op, dst |-> dst, target |-> target, operands |-> operands]
Do(f, a, e) == Instr("agent.do", f, None, [agent |-> Name(a), input |-> e])
Put(m, e) == Instr("memory.append", None, None, [memory |-> m, frag |-> e])
Copy(m, e) == Instr("memory.copy", m, None, [memory |-> e])
Sync1(f, j) == Instr("sync", f, None, [group |-> Name(j)])
Oper(c, e) == Instr("oper", c, None, [arg |-> e])
With(b, a, m) == Instr("agent.with_memory", b, None, [agent |-> Name(a), memory |-> m])
Dispatch(j, flow, e) == Instr("dispatch", j, flow, [arg |-> e])

Text == {Do("f", "a", Literal), Do("f", "b", Literal), Do("g", "a", Name("f")), Do("f", "b", Name("g")),
         Put(MemoryOf("a"), Name("f")), Put(Name("m"), Name("g")), Copy("n", MemoryOf("a")), Copy("n", Name("m")),
         With("b", "a", Name("m")), Instr("agent", "b", "@agent", [memory |-> Name("m")]),
         Instr("agent.system_prompt", None, None, [agent |-> Name("a"), prompt |-> Name("f")]),
         Instr("fork", "b", None, [agent |-> Name("a"), input |-> Literal]),
         Oper("c", Name("c")), Oper("g", Name("f")),
         Instr("call", "f", "flow", [arg |-> Name("j")]), Instr("call", "g", "flow", [arg |-> Name("a")]),
         Dispatch("j", "flow", Name("f")), Dispatch("j", "other", Literal),
         Instr("agent.route", "j", "flow", [agent |-> Name("a"), prompt |-> Literal]),
         Sync1("f", "j"), Sync1("g", "j")}
Short == {Do("f", "a", Literal), Dispatch("j", "flow", Literal), Sync1("f", "j"), Oper("c", Name("f")),
          With("b", "a", Name("m")), Copy("m", MemoryOf("a"))}
SeqsOf(S, n) == UNION {[1..k -> S] : k \in 0..n}

Terminator(op, operands, targets) == [op |-> op, operands |-> operands, targets |-> targets]
Ret(e) == Terminator("ret", [value |-> e], {})
Stop(e) == Terminator("fail", [value |-> e], {})
Jump(t) == Terminator("jump", <<>>, {t})
Branch(e, t) == Terminator("branch", [condition |-> e], t)
Match(e, t) == Terminator("match", [selector |-> e], t)
OneBlock(b) == [parameters |-> {"a", "b", "m"}, blocks |-> [n \in {"entry"} |-> [instructions |-> b, terminator |-> Ret(Literal)]]]
TwoBlocks(b, s, c, t) == [parameters |-> {"a", "b", "m"}, blocks |-> [n \in {"entry", "loop"} |->
   IF n = "entry" THEN [instructions |-> b, terminator |-> s] ELSE [instructions |-> c, terminator |-> t]]]
\* The way to "next" leads through "side", or does not.
Diamond(b, c, d) == [parameters |-> {"a", "b", "m"}, blocks |-> [n \in {"entry", "side", "next"} |->
   CASE n = "entry" -> [instructions |-> b, terminator |-> Branch(Literal, {"side", "next"})]
     [] n = "side" -> [instructions |-> c, terminator |-> Jump("next")]
     [] n = "next" -> [instructions |-> d, terminator |-> Ret(Name("f"))]]]

SomeNodes == {OneBlock(b) : b \in SeqsOf(Text, 3)}
   \cup {TwoBlocks(b, s, c, t) : b \in SeqsOf(Short, 1),
            s \in {Jump("loop"), Match(Name("c"), {"entry", "loop"}), Branch(Literal, {"loop", "exit"})},
            c \in SeqsOf(Short, 2), t \in {Ret(Name("f")), Stop(Name("c")), Branch(Literal, {"entry", "loop"})}}
   \cup {Diamond(b, c, d) : b \in SeqsOf(Short, 1), c \in SeqsOf(Short, 1), d \in SeqsOf(Short, 1)}
SomeAllowed == {"flow", "@agent"}
A1 == AgentHandle(<<"A1">>, <<"M1">>)
A2 == AgentHandle(<<"A2">>, <<"M2">>)
M3 == MemoryHandle(<<"M3">>)
Frame(x, y, z) == [n \in {"a", "b", "m"} |-> CASE n = "a" -> x [] n = "b" -> y [] n = "m" -> z]
SomeArguments == {Frame(A1, A1, M3), Frame(A1, Data("frag"), M3), Frame(A1, A2, MemoryHandle(A1.mem))}
TwoFlows == [n \in {"flow", "other"} |-> 1]
=============================================================================
