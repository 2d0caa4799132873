----------------------------- MODULE ProcTree ------------------------------
(***************************************************************************)
(* What process control promises, without the task queue, the paging     *)
(* slots or the kernel stacks (spec 4.2, "execute" and "halt"): a tree of *)
(* live tasks, each with a parent (none for the shell of a terminal) and  *)
(* the terminal it is bound to, and the task whose context the CPU is in, *)
(* in user mode or in the kernel.  The tree changes only when                 *)
(*  - a terminal without a task gets its shell,                           *)
(*  - the running task, a leaf, spawns a child on its own terminal and    *)
(*    the child runs at once, or                                          *)
(*  - the running task, a leaf that is not a shell, exits and its parent  *)
(*    runs on;                                                            *)
(* otherwise a task traps into the kernel, returns to its program, or the *)
(* CPU passes to another leaf.  Only leaves ever run in user mode.        *)
(***************************************************************************)
CONSTANTS
    Slots,    \* the task identifiers
    Terms,    \* the terminals
    NoProc    \* no task: the parent of a shell, the CPU before the first

VARIABLES
    tree,     \* function from the live tasks to [parent, con]
    run,      \* the task whose context the CPU is in, or NoProc
    user      \* the CPU executes that task's program (not the kernel)

vars == <<tree, run, user>>

Live   == DOMAIN tree
Leaves == {p \in Live : \A q \in Live : tree[q].parent # p}
Node(par, t) == [parent |-> par, con |-> t]
Add(c, nd)   == [s \in Live \cup {c} |-> IF s = c THEN nd ELSE tree[s]]
Remove(c)    == [s \in Live \ {c} |-> tree[s]]

Init ==
    /\ tree = [s \in {} |-> Node(NoProc, NoProc)]
    /\ run = NoProc
    /\ user = FALSE

\* The shell of terminal t, a terminal no live task is bound to.
Boot(c, t) ==
    /\ ~user
    /\ c \in Slots \ Live
    /\ \A p \in Live : tree[p].con # t
    /\ tree' = Add(c, Node(NoProc, t))
    /\ run' = c /\ user' = TRUE

\* A successful execute by the running leaf.
Spawn(c) ==
    /\ ~user /\ run \in Leaves
    /\ c \in Slots \ Live
    /\ tree' = Add(c, Node(run, tree[run].con))
    /\ run' = c /\ user' = TRUE

\* halt by a task that is not a shell: its parent runs on.
Exit ==
    /\ ~user /\ run \in Leaves
    /\ tree[run].parent # NoProc
    /\ tree' = Remove(run)
    /\ run' = tree[run].parent /\ user' = TRUE

\* A system call or an interrupt enters the kernel ...
Call ==
    /\ user /\ ~user'
    /\ UNCHANGED <<tree, run>>

\* ... and a call that changes no task returns to the caller's program.
Return ==
    /\ ~user /\ run \in Leaves
    /\ user'
    /\ UNCHANGED <<tree, run>>

\* The scheduler passes the CPU from one program to another leaf's.
Switch(p) ==
    /\ user /\ p \in Leaves
    /\ run' = p
    /\ UNCHANGED <<tree, user>>

Next ==
    \/ \E c \in Slots, t \in Terms : Boot(c, t)
    \/ \E c \in Slots : Spawn(c)
    \/ Exit \/ Call \/ Return
    \/ \E p \in Slots : Switch(p)

Spec == Init /\ [][Next]_vars
=============================================================================
