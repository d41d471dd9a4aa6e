---------------------------- MODULE SharedTracefs -----------------------------
(***************************************************************************)
(* Several hsa-snoop processes on one host, each with a kprobe of its own  *)
(* in the one tracefs they share (src/discovery.cpp, kprobe mode).  The    *)
(* master switch tracing_on and the global trace_pipe belong to nobody;    *)
(* every read and write of a tracefs file is a step of its own.            *)
(*                                                                         *)
(* Any write of InstallKprobe may fail; those of RemoveKprobe, which undo  *)
(* what the same process could do before, succeed.                         *)
(***************************************************************************)
EXTENDS Naturals

CONSTANTS
    Snoops,         \* the hsa-snoop processes
    Extends,        \* <<t, s>>: the pid of t begins with the digits of that of s,
                    \* and so does the name of its probe
    MaxQueues       \* bound: queues created on the host

ASSUME MaxQueuesAssumption == MaxQueues \in Nat

VARIABLES
    tracing_on,  \* the master switch
    defined,     \* the probes in kprobe_events, each named after its process
    enabled,     \* the probes whose event is enabled
    pipe,        \* the lines of trace_pipe nobody has read yet
    openers,     \* the processes that have trace_pipe open
    queues,      \* queues created so far
    exclusive    \* this kernel refuses a second open of trace_pipe

VARIABLES
    pc,          \* where each process is in Start, RunKprobe or Stop
    changed      \* Discovery::tracing_on_changed_

VARIABLES        \* history, read by the properties only
    initially,   \* the switch as it was before any of them started
    born,        \* the queues created while each process was running
    taken,       \* the lines each process handed on
    lost         \* the lines thrown away, each with the process that did

tracefs == <<tracing_on, defined, enabled, pipe, openers, queues>>
history == <<initially, born, taken, lost>>
vars == <<tracefs, exclusive, pc, changed, history>>

\* "define" to "open": InstallKprobe and Start; "run": RunKprobe; "disable" to
\* "restore": RemoveKprobe, after Stop or because Start failed; "close": the
\* end of Stop.
Pcs == {"define", "enable", "look", "switch", "open", "run", "disable",
        "undefine", "restore", "close", "done"}

Init ==
    /\ tracing_on \in BOOLEAN
    /\ initially = tracing_on
    /\ defined = {} /\ enabled = {} /\ pipe = {} /\ openers = {}
    /\ queues = 0 /\ exclusive \in BOOLEAN
    /\ pc = [s \in Snoops |-> "define"]
    /\ changed = [s \in Snoops |-> FALSE]
    /\ born = [s \in Snoops |-> {}] /\ taken = [s \in Snoops |-> {}] /\ lost = {}

\* Some process creates a queue: every enabled probe fires if the switch is on.
CreateQueue ==
    /\ queues < MaxQueues
    /\ queues' = queues + 1
    /\ pipe' = IF tracing_on
                 THEN pipe \cup {[probe |-> s, queue |-> queues] : s \in enabled}
                 ELSE pipe
    /\ born' = [s \in Snoops |-> IF pc[s] = "run" THEN born[s] \cup {queues}
                                                 ELSE born[s]]
    /\ UNCHANGED <<tracing_on, defined, enabled, openers, pc, changed,
                   initially, taken, lost>>

-----------------------------------------------------------------------------
(* InstallKprobe and the rest of Start.                                    *)

Define(s) ==
    /\ pc[s] = "define"
    /\ \/ /\ defined' = defined \cup {s}
          /\ pc' = [pc EXCEPT ![s] = "enable"]
       \/ /\ pc' = [pc EXCEPT ![s] = "done"]
          /\ UNCHANGED defined
    /\ UNCHANGED <<tracing_on, enabled, pipe, openers, queues, changed, history>>

Enable(s) ==
    /\ pc[s] = "enable"
    /\ \/ /\ enabled' = enabled \cup {s}
          /\ pc' = [pc EXCEPT ![s] = "look"]
       \/ /\ pc' = [pc EXCEPT ![s] = "disable"]
          /\ UNCHANGED enabled
    /\ UNCHANGED <<tracing_on, defined, pipe, openers, queues, changed,
                   history>>

\* The switch is read ...
Look(s) ==
    /\ pc[s] = "look"
    /\ pc' = [pc EXCEPT ![s] = IF tracing_on THEN "open" ELSE "switch"]
    /\ UNCHANGED <<tracefs, changed, history>>

\* Mutant: that the switch was changed is not remembered.
SwitchOnForgets(s) ==
    /\ pc[s] = "switch"
    /\ pc' = [pc EXCEPT ![s] = "open"]
    /\ tracing_on' = TRUE
    /\ UNCHANGED <<defined, enabled, pipe, openers, queues, changed, history>>

\* ... and, if it was off, turned on; that it cannot be is only a warning.
SwitchOn(s) ==
    /\ pc[s] = "switch"
    /\ pc' = [pc EXCEPT ![s] = "open"]
    /\ \/ /\ tracing_on' = TRUE
          /\ changed' = [changed EXCEPT ![s] = TRUE]
       \/ UNCHANGED <<tracing_on, changed>>
    /\ UNCHANGED <<defined, enabled, pipe, openers, queues, history>>

OpenPipe(s) ==
    /\ pc[s] = "open"
    /\ \/ /\ exclusive => openers = {}
          /\ openers' = openers \cup {s}
          /\ pc' = [pc EXCEPT ![s] = "run"]
       \/ /\ pc' = [pc EXCEPT ![s] = "disable"]
          /\ UNCHANGED openers
    /\ UNCHANGED <<tracing_on, defined, enabled, pipe, queues, changed,
                   history>>

-----------------------------------------------------------------------------
(* RunKprobe and Stop.                                                     *)

\* Mutant: the name of the probe is not looked for.
AnyLine(s, line) == TRUE

\* RunKprobe looks for the name of its own probe anywhere in the line.
Mine(s, line) == line.probe = s \/ <<line.probe, s>> \in Extends

\* A line is read once, by whichever process reads first, and is handed on or
\* passed over.
ReadLine(s) ==
    /\ pc[s] = "run"
    /\ \E line \in pipe :
          /\ pipe' = pipe \ {line}
          /\ IF Mine(s, line)
               THEN taken' = [taken EXCEPT ![s] = @ \cup {line}] /\ UNCHANGED lost
               ELSE lost' = lost \cup {<<s, line>>} /\ UNCHANGED taken
    /\ UNCHANGED <<tracing_on, defined, enabled, openers, queues, pc, changed,
                   initially, born>>

Stop(s) ==
    /\ pc[s] = "run"
    /\ pc' = [pc EXCEPT ![s] = "disable"]
    /\ UNCHANGED <<tracefs, changed, history>>

Disable(s) ==
    /\ pc[s] = "disable"
    /\ enabled' = enabled \ {s}
    /\ pc' = [pc EXCEPT ![s] = "undefine"]
    /\ UNCHANGED <<tracing_on, defined, pipe, openers, queues, changed,
                   history>>

Undefine(s) ==
    /\ pc[s] = "undefine"
    /\ defined' = defined \ {s}
    /\ pc' = [pc EXCEPT ![s] = "restore"]
    /\ UNCHANGED <<tracing_on, enabled, pipe, openers, queues, changed, history>>

\* Mutant: the switch is turned off by everybody.
RestoreAlways(s) ==
    /\ pc[s] = "restore"
    /\ tracing_on' = FALSE
    /\ changed' = [changed EXCEPT ![s] = FALSE]
    /\ pc' = [pc EXCEPT ![s] = "close"]
    /\ UNCHANGED <<defined, enabled, pipe, openers, queues, history>>

Restore(s) ==
    /\ pc[s] = "restore"
    /\ tracing_on' = (tracing_on /\ ~changed[s])
    /\ changed' = [changed EXCEPT ![s] = FALSE]
    /\ pc' = [pc EXCEPT ![s] = "close"]
    /\ UNCHANGED <<defined, enabled, pipe, openers, queues, history>>

Close(s) ==
    /\ pc[s] = "close"
    /\ openers' = openers \ {s}
    /\ pc' = [pc EXCEPT ![s] = "done"]
    /\ UNCHANGED <<tracing_on, defined, enabled, pipe, queues, changed,
                   history>>

Snoop(s) ==
    \/ Define(s) \/ Enable(s) \/ Look(s) \/ SwitchOn(s) \/ OpenPipe(s)
    \/ ReadLine(s) \/ Stop(s)
    \/ Disable(s) \/ Undefine(s) \/ Restore(s) \/ Close(s)

Next ==
    /\ CreateQueue \/ \E s \in Snoops : Snoop(s)
    /\ UNCHANGED exclusive

Spec == Init /\ [][Next]_vars

-----------------------------------------------------------------------------
(* Properties.                                                             *)

\* When every process has ended, tracefs is as the first one found it: the
\* master switch has its old value and no probe is left, however their starts,
\* stops and failures were interleaved ("so we leave the system as we found
\* it", discovery.h:79).
SystemRestored ==
    (\A s \in Snoops : pc[s] = "done") =>
        tracing_on = initially /\ defined = {} /\ enabled = {}

\* The switch is never turned off by anybody on a host that had it on.
NeverSwitchedOff == initially => tracing_on

\* Every probe writes a line for every queue, and trace_pipe hands each line to one
\* process.  A process nevertheless hands no queue on twice, unless the digits of
\* its pid begin another's; and on a host that had the switch on, a queue created
\* while it runs is handed on or still in trace_pipe, unless another process has
\* read the line.
QueuesSeenOnce ==
    \A s \in Snoops :
        /\ \/ \E t \in Snoops : <<t, s>> \in Extends
           \/ \A l, m \in taken[s] : l.queue = m.queue => l = m
        /\ initially => \A q \in born[s] :
              LET line == [probe |-> s, queue |-> q] IN
              \/ line \in taken[s] \cup pipe
              \/ \E t \in Snoops \ {s} : line \in taken[t] \/ <<t, line>> \in lost
=============================================================================
