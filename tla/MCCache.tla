------------------------------ MODULE MCCache ------------------------------
EXTENDS Cache, TLC

CONSTANTS c1, c2, s1, l1   \* clients, a string and a list

Symmetry == Permutations(Clients)

Cmd(op, key, val, arg) == [op |-> op, key |-> key, val |-> val, arg |-> arg, exec |-> FALSE]
InExec(cmd) == [cmd EXCEPT !.exec = TRUE]

Flush == Cmd("flushdb", AllKeys, 1, 1)

StringCommands ==
  {Cmd("get", s1, 1, 1), Cmd("set", s1, 1, 1), Cmd("set", s1, 2, 1), Cmd("setvx", s1, 2, 1),
   Cmd("del", s1, 1, 1), Cmd("unlink", s1, 1, 1), Flush, InExec(Flush),
   InExec(Cmd("set", s1, 2, 1)), Cmd("clear", AllKeys, 1, 1)}

ListCommands ==
  {Cmd("lrange", l1, 1, 1), Cmd("lpush", l1, 1, 1), Cmd("lpop", l1, 1, 1), Cmd("lpop", l1, 1, 2),
   Cmd("del", l1, 1, 1), Flush}

AllCommands == StringCommands \cup ListCommands

=============================================================================
