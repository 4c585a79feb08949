------------------------------ MODULE TunIface ------------------------------
(***************************************************************************)
(* The TUN interface of a node and the iptables rules around it: NewTUN,   *)
(* setupNAT and Close.                                                     *)
(*                                                                         *)
(* The interface lives as long as the process has the device open.  The    *)
(* rules are kernel state that survives the process.  Every system call is *)
(* a step that may fail, except closing the device.  Close may be called   *)
(* by Run, by the shutdown of the application and by NewTUN itself, at the *)
(* same time.  What Close returns is left out: nobody acts on it.  AppLife *)
(* composes these steps with the rest of the process.                      *)
(***************************************************************************)
EXTENDS Integers, Sequences, FiniteSets

\* What NewTUN does, in this order.  The last five are setupNAT.
TunSteps == <<"getDefaultGatewayInterface", "CreateTUN", "ParseCIDR", "LinkByName", "AddrAdd", "LinkSetMTU",
              "LinkSetUp", "iptables.New", "getDefaultInterface", "mangle", "nat", "forward in", "forward out">>

\* The rules that setupNAT appends, and those that close deletes.
Appended == {"mangle", "nat", "forward in", "forward out"}
Deleted == {"nat", "-i tun", "-o tun"}

\* The goroutines that call Close once NewTUN has returned.
Closers == {"Run", "stopRuntime"}

VARIABLES
    tunAt,     \* the next of TunSteps; 0 before NewTUN
    out,       \* eg.cfg.IfaceOutName is set
    link,      \* the device is open and the interface exists
    rules,     \* the rules of this process that are in their chains
    refused,   \* iptables has failed to delete the masquerading rule
    once,      \* closeOnce: "fresh", the next step of close, or "done"
    caller,    \* [Closers -> "none", "waiting" or "returned"]
    newTUN     \* "none", "running", "failing", "failed" or "ok"

tunVars == <<tunAt, out, link, rules, refused, once, caller, newTUN>>

TunInit ==
    /\ tunAt = 0 /\ out = FALSE /\ link = FALSE /\ rules = {} /\ refused = FALSE
    /\ once = "fresh"
    /\ caller = [c \in Closers |-> "none"]
    /\ newTUN = "none"

-----------------------------------------------------------------------------
(* NewTUN.                                                                 *)

\* The outgoing interface is named in the configuration, or both detections run; what the
\* first one finds stays in a copy of the configuration.
NewTUN(named) ==
    /\ newTUN = "none"
    /\ newTUN' = "running" /\ tunAt' = 1 /\ out' = named
    /\ UNCHANGED <<link, rules, refused, once, caller>>

Detections == {"getDefaultGatewayInterface", "getDefaultInterface"}

Succeed ==
    /\ newTUN = "running"
    /\ out' = (out \/ TunSteps[tunAt] = "getDefaultInterface")
    /\ link' = (link \/ TunSteps[tunAt] = "CreateTUN")
    /\ rules' = rules \cup ({TunSteps[tunAt]} \cap Appended)
    /\ tunAt' = tunAt + 1
    /\ newTUN' = IF tunAt = Len(TunSteps) THEN "ok" ELSE "running"
    /\ UNCHANGED <<refused, once, caller>>

\* The error path of the step: Close, once there is something to close.
Fail ==
    /\ newTUN = "running"
    /\ ~(out /\ TunSteps[tunAt] \in Detections)
    /\ newTUN' = IF tunAt <= 2 THEN "failed" ELSE "failing"
    /\ UNCHANGED <<tunAt, out, link, rules, refused, once, caller>>

NewTUNReturns ==
    /\ newTUN = "failing" /\ once = "done"
    /\ newTUN' = "failed"
    /\ UNCHANGED <<tunAt, out, link, rules, refused, once, caller>>

-----------------------------------------------------------------------------
(* Close.                                                                  *)

Close(c) ==
    /\ newTUN = "ok" /\ caller[c] # "waiting"
    /\ caller' = [caller EXCEPT ![c] = "waiting"]
    /\ UNCHANGED <<tunAt, out, link, rules, refused, once, newTUN>>

\* closeOnce lets one caller in.
BeginClose ==
    /\ once = "fresh"
    /\ newTUN = "failing" \/ \E c \in Closers : caller[c] = "waiting"
    /\ once' = "device"
    /\ UNCHANGED <<tunAt, out, link, rules, refused, caller, newTUN>>

\* Mutant: whoever comes second does not wait.
CloseReturnsAtOnce(c) ==
    /\ caller[c] = "waiting" /\ once # "fresh"
    /\ caller' = [caller EXCEPT ![c] = "returned"]
    /\ UNCHANGED <<tunAt, out, link, rules, refused, once, newTUN>>

CloseReturns(c) ==
    /\ caller[c] = "waiting" /\ once = "done"
    /\ caller' = [caller EXCEPT ![c] = "returned"]
    /\ UNCHANGED <<tunAt, out, link, rules, refused, once, newTUN>>

\* The device goes, and the interface with it; LinkDel only finds out.
closeDevice ==
    /\ once = "device"
    /\ link' = FALSE
    /\ once' = "rules"
    /\ UNCHANGED <<tunAt, out, rules, refused, caller, newTUN>>

\* iptables -D for each of the rules, if iptables.New has succeeded and the name of the
\* outgoing interface is known.  A rule that is not there, or that iptables fails to
\* delete, is an error that is collected while close goes on.
deleteRules ==
    /\ once = "rules"
    /\ \E fails \in SUBSET (IF tunAt > 8 /\ out THEN rules \cap Deleted ELSE {}) :
          /\ rules' = IF tunAt > 8 /\ out THEN rules \ (Deleted \ fails) ELSE rules
          /\ refused' = ("nat" \in fails)
    /\ once' = "done"
    /\ UNCHANGED <<tunAt, out, link, caller, newTUN>>

\* The context ends: Run closes the device, not the rest.
AfterFunc ==
    /\ newTUN = "ok" /\ link
    /\ link' = FALSE
    /\ UNCHANGED <<tunAt, out, rules, refused, once, caller, newTUN>>

TunStep == Succeed \/ Fail \/ NewTUNReturns \/ BeginClose \/ closeDevice \/ deleteRules

-----------------------------------------------------------------------------
(* Properties                                                              *)

TunTypeOK ==
    /\ tunAt \in 0 .. Len(TunSteps) + 1 /\ out \in BOOLEAN /\ link \in BOOLEAN
    /\ rules \subseteq Appended /\ refused \in BOOLEAN
    /\ once \in {"fresh", "device", "rules", "done"}
    /\ newTUN \in {"none", "running", "failing", "failed", "ok"}
    /\ caller \in [Closers -> {"none", "waiting", "returned"}]

closed == newTUN = "failed" \/ \E c \in Closers : caller[c] = "returned"

\* When NewTUN has failed, at whichever call, or anyone's Close has returned, the interface
\* is gone and masquerading is off, unless it was iptables that failed to turn it off: Close
\* waits for a Close that another goroutine has begun, and knows the rule whenever it was set.
ClosedMeansDown ==
    closed => ~link /\ ("nat" \in rules => refused)

\* "Close удаляет интерфейс и очищает правила iptables": none of the rules is left.
RulesCleaned ==
    closed => rules = {}
=============================================================================
