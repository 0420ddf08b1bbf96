----------------------------- MODULE Interrupts -----------------------------
(***************************************************************************)
(* The processor's interrupt controller as the HAL drives it: the table of  *)
(* handlers, the software copy of IENABLE, and the dispatcher, while tasks   *)
(* register and remove handlers and devices raise their lines at any time.  *)
(***************************************************************************)
EXTENDS Integers, FiniteSets, SequencesExt

CONSTANTS Line,      (* the interrupt lines, numbered from the most urgent   *)
          Registrar, (* tasks that register handlers                         *)
          Handler    (* handlers; each belongs with the context of its name  *)

ASSUME InterruptsAssumption == Line \subseteq Nat /\ "null" \notin Handler

VARIABLES
    table,   (* alt_irq: handler and context of each line                    *)
    active,  (* alt_irq_active, the copy of IENABLE                          *)
    ienable, (* IENABLE                                                      *)
    raised,  (* the lines that devices hold up                               *)
    registering,     (* each task: where it is in alt_iic_isr_register, its locals   *)
    pie,     (* the interrupt enable bit of each task's status register      *)
    mask,    (* alt_priority_mask, as a set of lines                         *)
    service, (* the dispatchers under way, each on top of the one before     *)
    dispatched      (* history: what the dispatcher called last                     *)

interruptsVars == <<table, active, ienable, raised, registering, pie, mask, service, dispatched>>

AtRest == [pc |-> "idle", id |-> 0, handler |-> "null", outer |-> TRUE, inner |-> TRUE, copy |-> {}]
Pending == raised \cap ienable
Lowest(S) == CHOOSE i \in S : \A j \in S : i <= j

InterruptsInit ==
    /\ table = [i \in Line |-> [handler |-> "null", context |-> "null"]]
    /\ active = {} /\ ienable = {}
    /\ raised = {}
    /\ registering = [t \in Registrar |-> AtRest]
    /\ pie = [t \in Registrar |-> TRUE]
    /\ mask = Line
    /\ service = <<>>
    /\ dispatched = [handler |-> "null", context |-> "null"]

(* A task runs between two interrupts, and alone while it has them off. *)
MayRegister(t) == service = <<>> /\ \A u \in Registrar \ {t} : pie[u]
Advances(t, from, to) == MayRegister(t) /\ registering[t].pc = from /\ registering' = [registering EXCEPT ![t].pc = to]

alt_ic_isr_register(t, id, handler) ==
    /\ MayRegister(t) /\ registering[t].pc = "idle"
    /\ registering' = [registering EXCEPT ![t] = [AtRest EXCEPT !.pc = "disable", !.id = id, !.handler = handler]]
    /\ UNCHANGED <<table, active, ienable, raised, pie, mask, service, dispatched>>

(* Mutant: the bit is read and not cleared. *)
alt_irq_disable_all_Reads(t) ==
    /\ \/ /\ MayRegister(t) /\ registering[t].pc = "disable"
          /\ registering' = [registering EXCEPT ![t].pc = "off", ![t].outer = pie[t]]
          /\ UNCHANGED pie
       \/ Advances(t, "off", "handler") /\ UNCHANGED pie
    /\ UNCHANGED <<table, active, ienable, raised, mask, service, dispatched>>

(* The bit is read first, then cleared. *)
alt_irq_disable_all(t) ==
    /\ \/ /\ MayRegister(t) /\ registering[t].pc = "disable"
          /\ registering' = [registering EXCEPT ![t].pc = "off", ![t].outer = pie[t]]
          /\ UNCHANGED pie
       \/ Advances(t, "off", "handler") /\ pie' = [pie EXCEPT ![t] = FALSE]
    /\ UNCHANGED <<table, active, ienable, raised, mask, service, dispatched>>

alt_iic_isr_register(t) ==
    /\ \/ /\ Advances(t, "handler", "context")
          /\ table' = [table EXCEPT ![registering[t].id].handler = registering[t].handler]
       \/ /\ Advances(t, "context", "inner")
          /\ table' = [table EXCEPT ![registering[t].id].context = registering[t].handler]
    /\ UNCHANGED <<active, ienable, raised, pie, mask, service, dispatched>>

(* alt_irq_enable, or alt_irq_disable for no handler: a second critical     *)
(* section inside the first, around the copy and the register.              *)
alt_irq_enable(t) ==
    /\ \/ /\ MayRegister(t) /\ registering[t].pc = "inner"
          /\ registering' = [registering EXCEPT ![t].pc = "write", ![t].inner = pie[t], ![t].copy = active]
          /\ pie' = [pie EXCEPT ![t] = FALSE]
          /\ UNCHANGED <<active, ienable>>
       \/ /\ Advances(t, "write", "restore")
          /\ active' = IF registering[t].handler # "null" THEN registering[t].copy \cup {registering[t].id}
                       ELSE registering[t].copy \ {registering[t].id}
          /\ UNCHANGED <<ienable, pie>>
       \/ /\ Advances(t, "restore", "finish")
          /\ ienable' = active
          /\ pie' = [pie EXCEPT ![t] = registering[t].inner]
          /\ UNCHANGED active
    /\ UNCHANGED <<table, raised, mask, service, dispatched>>

alt_irq_enable_all(t) ==
    /\ MayRegister(t) /\ registering[t].pc = "finish"
    /\ registering' = [registering EXCEPT ![t] = AtRest]
    /\ pie' = [pie EXCEPT ![t] = registering[t].outer]
    /\ UNCHANGED <<table, active, ienable, raised, mask, service, dispatched>>

Raise(i) ==
    /\ i \notin raised /\ raised' = raised \cup {i}
    /\ UNCHANGED <<table, active, ienable, registering, pie, mask, service, dispatched>>

-----------------------------------------------------------------------------
(* The dispatcher *)

OnTop(at) == service # <<>> /\ Last(service).at = at
Becomes(frame) == service' = [service EXCEPT ![Len(service)] = frame]

(* alt_irq_entry: interrupts are on, in all tasks or in the handler on top,  *)
(* and one that is enabled is pending.                                       *)
alt_irq_entry ==
    /\ Pending # {}
    /\ IF service = <<>> THEN \A t \in Registrar : pie[t] ELSE OnTop("open")
    /\ service' = Append(service, [at |-> "first", line |-> 0, old |-> {}])
    /\ UNCHANGED <<table, active, ienable, raised, registering, pie, mask, dispatched>>

(* alt_irq_handler: the most urgent pending line, again and again, until    *)
(* none is left.  The first pass does not ask whether there is one.         *)
alt_irq_handler ==
    /\ \/ /\ OnTop("first") \/ OnTop("again")
          /\ Pending # {}
          /\ LET i == Lowest(Pending)
             IN  /\ dispatched' = table[i] /\ raised' = raised \ {i}
                 /\ Becomes([at |-> "inside", line |-> i, old |-> {}])
       \/ /\ OnTop("inside") \/ OnTop("closed")
          /\ Becomes([at |-> "again", line |-> 0, old |-> {}])
          /\ UNCHANGED <<dispatched, raised>>
       \/ /\ OnTop("again") /\ Pending = {}
          /\ service' = Front(service)
          /\ UNCHANGED <<dispatched, raised>>
    /\ UNCHANGED <<table, active, ienable, registering, pie, mask>>

(* A handler lets the lines more urgent than its own interrupt it ...        *)
alt_irq_interruptible ==
    /\ OnTop("inside")
    /\ LET i == Last(service).line
       IN  /\ mask' = {l \in Line : l < i}
           /\ ienable' = active \cap mask'
           /\ Becomes([at |-> "open", line |-> i, old |-> mask])
    /\ UNCHANGED <<table, active, raised, registering, pie, dispatched>>

(* ... and must end that before it returns. *)
alt_irq_non_interruptible ==
    /\ OnTop("open")
    /\ mask' = Last(service).old
    /\ ienable' = mask' \cap active
    /\ Becomes([at |-> "closed", line |-> Last(service).line, old |-> {}])
    /\ UNCHANGED <<table, active, raised, registering, pie, dispatched>>

InterruptsNext ==
    \/ \E t \in Registrar :
          \/ \E i \in Line, h \in Handler \cup {"null"} : alt_ic_isr_register(t, i, h)
          \/ alt_irq_disable_all(t)
          \/ alt_iic_isr_register(t)
          \/ alt_irq_enable(t)
          \/ alt_irq_enable_all(t)
    \/ \E i \in Line : Raise(i)
    \/ alt_irq_entry
    \/ alt_irq_handler
    \/ alt_irq_interruptible
    \/ alt_irq_non_interruptible

-----------------------------------------------------------------------------
alt_ic_irq_enabled(i) == i \in ienable

(* The dispatcher never calls a handler with another's context, nor a null   *)
(* one, and its first pass, which would search for ever, always finds a      *)
(* line; when no registration is under way the lines enabled are those with  *)
(* a handler (alt_iic_isr_register.c 75-100, alt_irq_handler.c 98-160).      *)
HandlersFound ==
    /\ dispatched.handler = dispatched.context
    /\ OnTop("inside") => dispatched.handler # "null"
    /\ OnTop("first") => Pending # {}
    /\ (\A t \in Registrar : registering[t].pc = "idle") /\ service = <<>> =>
          active = ienable /\ \A i \in Line : alt_ic_irq_enabled(i) <=> table[i].handler # "null"

(* A handler is interrupted only by lines more urgent than its own and all   *)
(* below it, and once none is under way every line may interrupt again       *)
(* (alt_legacy_irq.h 118-149).                                               *)
NestsByUrgency ==
    /\ \A j \in 2 .. Len(service) :
          /\ service[j - 1].at = "open"
          /\ service[j].at \in {"inside", "open", "closed"} => service[j].line < service[j - 1].line
    /\ service = <<>> => mask = Line

(* The two together (alt_irq_handler.c 80-167, alt_legacy_irq.h 68-149).     *)
HandlersFit == HandlersFound /\ NestsByUrgency
=============================================================================
