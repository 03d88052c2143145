--------------------------- MODULE MCResourceLocks ---------------------------
EXTENDS ResourceLocks

Write(k) == [key |-> k, mode |-> "write"]
Read(k) == [key |-> k, mode |-> "read"]

\* The shapes the VM uses (src/src/vm.ts): agent.do and system_prompt write an
\* Agent and its Memory, fork reads both, with_memory mixes, memory.append writes
\* one key; a list may name a key twice.
MCRequestLists == { {Write(1), Write(2)}, {Read(1), Write(2)}, {Read(1), Read(2)},
                    {Read(2), Write(2)} }
=============================================================================
