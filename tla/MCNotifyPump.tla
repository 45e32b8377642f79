----------------------------- MODULE MCNotifyPump ------------------------------
(***************************************************************************)
(* Command lines for NotifyPump: every caller, both bindings, documents    *)
(* with and without a queue, and caps of none, one and more events than    *)
(* the driver produces.                                                    *)
(***************************************************************************)
EXTENDS NotifyPump

Caps == {0, 1, MaxEvents + 1}

\* RunRefs always passes 1 to the callback pump.
AllCommands ==
  {c \in [caller : {"monitor", "rules", "refs"}, iocp : BOOLEAN,
          queue : BOOLEAN, hold : BOOLEAN, max : Caps] :
     c.caller = "refs" => c.max = 1}

\* monitor on a document whose rules need no queue.
QueuelessMonitor ==
  {[caller |-> "monitor", iocp |-> i, queue |-> FALSE, hold |-> FALSE, max |-> 1] :
     i \in BOOLEAN}

\* monitor in callback mode.
CallbackMonitor ==
  {[caller |-> "monitor", iocp |-> FALSE, queue |-> TRUE, hold |-> FALSE, max |-> 1]}
================================================================================
