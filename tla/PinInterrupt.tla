---------------------------- MODULE PinInterrupt -----------------------------
(***************************************************************************)
(* PinInterrupt of the ESP32-C6 adapters over the GPIO driver, from one    *)
(* owner of the pin to the next.  Each driver call of attach() and of      *)
(* detach() is a step, and the interrupt may come between any two of them. *)
(* The driver is external: gpio_isr_handler_add() unmasks the pin, which   *)
(* is why attach() masks it again.                                         *)
(***************************************************************************)
EXTENDS Naturals

CONSTANTS
  Contexts,     \* what owners pass as context
  NoContext,
  MaskFails     \* gpio_intr_disable() may fail; the driver refuses only bad pins

ASSUME InterruptAssumption == NoContext \notin Contexts /\ MaskFails \in BOOLEAN

VARIABLES
  attached,   \* attached_
  handler,    \* the context of the handler the driver holds, or NoContext
  unmasked,   \* the pin raises interrupts
  call,       \* the driver call the owner is at, or "none"
  owner,      \* the context of the present owner, NoContext without a PinInterrupt
  dying,      \* the destructor is running
  live,       \* history: the owner expects callbacks, or attach() is running
  wanted      \* history: the owner's last enable() or disable() that returned ok

pinVars == <<attached, handler, unmasked, call, owner, dying, live, wanted>>

PinInit ==
  /\ attached = FALSE /\ handler = NoContext /\ unmasked = FALSE
  /\ call = "none" /\ owner = NoContext /\ dying = FALSE
  /\ live = FALSE /\ wanted = FALSE

-----------------------------------------------------------------------------
\* A PinInterrupt is constructed.
New(context) ==
  /\ owner = NoContext /\ owner' = context
  /\ UNCHANGED <<attached, handler, unmasked, call, dying, live, wanted>>

\* The call in progress ends with the owner attached or not; a destructor ends
\* with the owner gone, whatever detach() returned.
Return(isAttached) ==
  /\ call' = "none" /\ dying' = FALSE
  /\ attached' = (isAttached /\ ~dying) /\ live' = attached'
  /\ owner' = IF dying THEN NoContext ELSE owner

\* attach() starts; one that finds the handler attached returns at once.
Attach ==
  /\ owner # NoContext /\ call = "none" /\ ~attached
  /\ call' = "install" /\ live' = TRUE /\ wanted' = FALSE
  /\ UNCHANGED <<attached, handler, unmasked, owner, dying>>

\* install_gpio_isr_service() and set_gpio_edge().
Prepare ==
  /\ call \in {"install", "edge"}
  /\ \/ /\ call' = IF call = "install" THEN "edge" ELSE "add"
        /\ UNCHANGED <<attached, owner, dying, live>>
     \/ Return(FALSE)
  /\ UNCHANGED <<handler, unmasked, wanted>>

\* add_gpio_isr_handler().
AddHandler ==
  /\ call = "add"
  /\ \/ /\ handler' = owner /\ unmasked' = TRUE /\ call' = "mask"
        /\ UNCHANGED <<attached, owner, dying, live>>
     \/ Return(FALSE) /\ UNCHANGED <<handler, unmasked>>
  /\ UNCHANGED wanted

\* The last step of attach().
MaskAttached ==
  /\ call = "mask"
  /\ \/ unmasked' = FALSE /\ Return(TRUE)
     \/ MaskFails /\ Return(FALSE) /\ UNCHANGED unmasked
  /\ UNCHANGED <<handler, wanted>>

\* detach(), or the destructor of a PinInterrupt that is attached.
Detach(destroy) ==
  /\ attached /\ call = "none" /\ call' = "unhook"
  /\ dying' = destroy
  /\ UNCHANGED <<attached, handler, unmasked, owner, live, wanted>>

Unhook ==
  /\ call = "unhook"
  /\ \/ /\ unmasked' = FALSE /\ wanted' = FALSE /\ call' = "remove"
        /\ UNCHANGED <<attached, owner, dying, live>>
     \/ MaskFails /\ Return(TRUE) /\ UNCHANGED <<unmasked, wanted>>
  /\ UNCHANGED handler

RemoveHandler ==
  /\ call = "remove"
  /\ \/ handler' = NoContext /\ Return(FALSE)
     \/ Return(TRUE) /\ UNCHANGED handler
  /\ UNCHANGED <<unmasked, wanted>>

\* Mutant: the destructor leaves the handler to the driver.
DestroyLeaks ==
  /\ owner # NoContext /\ call = "none"
  /\ owner' = NoContext /\ live' = FALSE
  /\ UNCHANGED <<attached, handler, unmasked, call, dying, wanted>>

\* The destructor of a PinInterrupt that is not attached.
Destroy ==
  /\ owner # NoContext /\ call = "none" /\ ~attached
  /\ owner' = NoContext
  /\ UNCHANGED <<attached, handler, unmasked, call, dying, live, wanted>>

Enable ==
  /\ attached /\ call = "none"
  /\ unmasked' = TRUE /\ wanted' = TRUE
  /\ UNCHANGED <<attached, handler, call, owner, dying, live>>

\* disable(), by the owner or by its callback inside the interrupt.
Disable ==
  /\ attached
  /\ call = "none" \/ (unmasked /\ handler = owner)
  /\ unmasked' = FALSE /\ wanted' = FALSE
  /\ UNCHANGED <<attached, handler, call, owner, dying, live>>

PinNext ==
  \/ \E context \in Contexts : New(context)
  \/ Attach \/ Prepare \/ AddHandler \/ MaskAttached
  \/ \E destroy \in BOOLEAN : Detach(destroy)
  \/ Unhook \/ RemoveHandler \/ Destroy
  \/ Enable \/ Disable

PinSpec == PinInit /\ [][PinNext]_pinVars

-----------------------------------------------------------------------------
\* Properties.

\* An interrupt reaches only an owner that exists and waits for it: whichever
\* driver calls failed, the driver never holds an unmasked handler of an owner
\* that is gone, of an attach() that failed or of a detach() that returned ok.
\* At rest the pin is unmasked only when the owner enabled it.
InterruptHasAnOwner ==
  unmasked => /\ live /\ handler = owner
              /\ call = "none" => wanted
==============================================================================
