----------------------------- MODULE BdeDevices -----------------------------
(***************************************************************************)
(* The switch devices of the kernel BDE (linux-kernel-bde.c) and who is    *)
(* connected to their interrupts.  A device has two handlers, called by    *)
(* one function (_isr): the primary one of the user BDE, connected by an   *)
(* ioctl of the SDK, and the secondary one of KNET, connected by each      *)
(* KCOM_M_HW_INIT.  The interrupt is requested with the first handler and  *)
(* freed with the last, as a line, an MSI or several MSI-X vectors, each   *)
(* of which the kernel may refuse.  Devices may be hot-plugged: a chip     *)
(* that comes back gets its old place in _devices[].                       *)
(*                                                                         *)
(* Nothing serialises the callers.  A call is therefore split where it     *)
(* looks at the handlers: it reads isr_active, writes its own handler, and *)
(* then requests or frees the interrupt.  The SDK and KNET have one call   *)
(* each under way at a time.  When the two are about the same device, or   *)
(* the device goes or comes back during a call, the handlers may end up in *)
(* any state; raced remembers that, and such a device is not followed      *)
(* beyond the end of these calls.                                          *)
(*                                                                         *)
(* Devices without an interrupt line (iLine = -1, 3540), of which no probe *)
(* makes any, are left out, and so are CPU and Ethernet devices, which     *)
(* only old boards have: they make room for a switch found after them.     *)
(***************************************************************************)
EXTENDS Integers

CONSTANTS
    LINUX_BDE_MAX_DEVICES,
    NDEVICES,       \* switches found when the modules are loaded
    Vectors,        \* the MSI-X vectors a device asks for: 1 .. msixcnt
    Callers         \* who connects to interrupts: "user", the SDK, and "knet"

ASSUME DeviceAssumption ==
    /\ LINUX_BDE_MAX_DEVICES \in Nat /\ NDEVICES \in 1 .. LINUX_BDE_MAX_DEVICES
    /\ Vectors \subseteq Nat /\ 1 \in Vectors
    /\ Callers \subseteq {"user", "knet"}

VARIABLES
    use_msi,        \* module parameter of the kernel BDE
    ndevices,       \* _ndevices: the places in use
    kdev,           \* _devices[] of the kernel BDE
    udev,           \* _devices[] of the user BDE
    call,           \* connect and disconnect calls under way
    raced           \* history: the devices with two of these at once

devices == <<use_msi, ndevices, kdev, udev, call, raced>>

Devs == 0 .. LINUX_BDE_MAX_DEVICES - 1
Probed == 0 .. ndevices - 1
Lines == IF use_msi = "MSIX" THEN Vectors ELSE {1}

(* irqs counts how often _isr has been installed for a vector; inst_id is  *)
(* the instance, a set of devices (a bit mask in the code).                *)
NewDev == [state |-> "normal", isr |-> FALSE, isr2 |-> FALSE,
           irqs |-> [v \in Vectors |-> 0], msi |-> FALSE, inst_id |-> {}]
Active(d) == kdev[d].isr \/ kdev[d].isr2
Present(d) == d \in Probed /\ kdev[d].state # "removed"

(* devid is set once the user BDE has looked at the device (_devices_init);*)
(* inst is its slot in _bde_inst_resource[].                               *)
_devices_init == [devid |-> TRUE, enabled |-> FALSE, inst |-> 0]

NoCall == [pc |-> "idle", op |-> "connect", dev |-> 0, active |-> FALSE]
Busy(d) == \E c \in Callers : call[c].pc # "idle" /\ call[c].dev = d
Overlap(d) == raced' = IF Busy(d) THEN raced \cup {d} ELSE raced

Added(irqs, vs) == [v \in Vectors |-> IF v \in vs THEN irqs[v] + 1 ELSE irqs[v]]
Freed(irqs, vs) ==
    [v \in Vectors |-> IF v \in vs /\ irqs[v] > 0 THEN irqs[v] - 1 ELSE irqs[v]]

-----------------------------------------------------------------------------
DevicesInit ==
    /\ use_msi \in {"INTX", "MSI", "MSIX"}
    /\ ndevices = NDEVICES
    /\ kdev = [d \in Devs |-> NewDev]
    /\ udev = [d \in Devs |-> IF d < NDEVICES THEN _devices_init
                              ELSE [_devices_init EXCEPT !.devid = FALSE]]
    /\ call = [c \in Callers |-> NoCall]
    /\ raced = {}

(* LUBDE_ENABLE_INTERRUPTS, LUBDE_DISABLE_INTERRUPTS (and the removal of   *)
(* the user BDE), KNET's hw_init and its removal: the call looks whether a *)
(* handler is installed.  Nobody connects a device that is unplugged.      *)
CallBegin(c, op, d) ==
    /\ call[c].pc = "idle" /\ d \notin raced
    /\ d \in Probed /\ (op = "connect" => Present(d))
    /\ c = "user" => udev[d].enabled = (op = "disconnect")
    /\ call' = [call EXCEPT ![c] = [pc |-> "write", op |-> op, dev |-> d,
                                    active |-> Active(d)]]
    /\ Overlap(d)
    /\ UNCHANGED <<use_msi, ndevices, kdev, udev>>

(* The user BDE ignores whether the call has failed. *)
Return(c) ==
    /\ call' = [call EXCEPT ![c] = NoCall]
    /\ udev' = IF c = "user"
               THEN [udev EXCEPT ![call[c].dev].enabled = (call[c].op = "connect")]
               ELSE udev

SetHandler(c) ==
    LET d == call[c].dev
        on == call[c].op = "connect"
    IN  kdev' = IF c = "user" THEN [kdev EXCEPT ![d].isr = on]
                              ELSE [kdev EXCEPT ![d].isr2 = on]

(* Mutant of CallWrite: the main handler is installed with each handler.   *)
CallWriteInstallsAgain(c) ==
    /\ call[c].pc = "write"
    /\ SetHandler(c)
    /\ call' = [call EXCEPT ![c].pc = "finish"]
    /\ UNCHANGED <<udev, use_msi, ndevices, raced>>

(* The caller's handler is set or cleared; if the main handler is there    *)
(* already a connect is over.                                              *)
CallWrite(c) ==
    /\ call[c].pc = "write"
    /\ SetHandler(c)
    /\ IF call[c].op = "connect" /\ call[c].active
       THEN Return(c)
       ELSE call' = [call EXCEPT ![c].pc = "finish"] /\ UNCHANGED udev
    /\ UNCHANGED <<use_msi, ndevices, raced>>

(* _interrupt_connect goes on: MSI is switched on and _isr installed. *)
Connected(d) ==
    kdev' = [kdev EXCEPT ![d].irqs = Added(@, Lines), ![d].msi = use_msi # "INTX"]

(* MSI cannot be switched on, or the kernel refuses vector v: what was     *)
(* installed is removed, MSI-X frees the refused vector as well, and both  *)
(* handlers are forgotten.                                                 *)
NoHandlers(dev) == [dev EXCEPT !.isr = FALSE, !.isr2 = FALSE]
NoMsi(d) == use_msi # "INTX" /\ kdev' = [kdev EXCEPT ![d] = NoHandlers(@)]
Unhooked(dev, irqs) == [NoHandlers(dev) EXCEPT !.msi = FALSE, !.irqs = irqs]
Refused(d) ==
    \E v \in Lines :
        kdev' = [kdev EXCEPT ![d] =
            Unhooked(@, Freed(@.irqs, IF use_msi = "MSIX" THEN {v} ELSE {}))]

ConnectFinish(c) ==
    /\ call[c].pc = "finish" /\ call[c].op = "connect"
    /\ LET d == call[c].dev IN Connected(d) \/ NoMsi(d) \/ Refused(d)
    /\ Return(c)
    /\ UNCHANGED <<use_msi, ndevices, raced>>

(* _interrupt_disconnect goes on: the other handler keeps the interrupt.   *)
DisconnectFinish(c) ==
    /\ call[c].pc = "finish" /\ call[c].op = "disconnect"
    /\ LET d == call[c].dev
       IN  kdev' = IF Active(d) \/ ~call[c].active THEN kdev
                   ELSE [kdev EXCEPT ![d].irqs = Freed(@, Lines), ![d].msi = FALSE]
    /\ Return(c)
    /\ UNCHANGED <<use_msi, ndevices, raced>>

-----------------------------------------------------------------------------
(* The kernel finds a new switch (external), or one that was there before. *)
NewSwitch ==
    /\ ndevices < LINUX_BDE_MAX_DEVICES
    /\ ndevices' = ndevices + 1
    /\ UNCHANGED <<use_msi, kdev, udev, call, raced>>

_pci_probe(d) ==
    /\ d \in Probed \ raced /\ kdev[d].state = "removed"
    /\ kdev' = [kdev EXCEPT ![d].state = "normal", ![d].isr = FALSE]
    /\ Overlap(d)
    /\ UNCHANGED <<use_msi, ndevices, udev, call>>

(* A switch is unplugged: the interrupt is freed, both handlers are        *)
(* forgotten, neither the user BDE nor KNET is told.                       *)
_pci_remove(d) ==
    /\ d \notin raced /\ Present(d)
    /\ LET gone == IF Active(d) THEN Lines ELSE {}
       IN  kdev' = [kdev EXCEPT ![d] =
               [Unhooked(@, Freed(@.irqs, gone)) EXCEPT !.state = "removed"]]
    /\ Overlap(d)
    /\ UNCHANGED <<use_msi, ndevices, udev, call>>

DevicesNext ==
    \/ \E c \in Callers, op \in {"connect", "disconnect"}, d \in Devs : CallBegin(c, op, d)
    \/ \E c \in Callers : CallWrite(c)
    \/ \E c \in Callers : ConnectFinish(c)
    \/ \E c \in Callers : DisconnectFinish(c)
    \/ NewSwitch
    \/ \E d \in Devs : _pci_probe(d) \/ _pci_remove(d)

-----------------------------------------------------------------------------
(* The interrupt of a device no call is about is installed exactly once on *)
(* each of its vectors, with MSI switched on, while one of the handlers is *)
(* connected, and not at all otherwise: no handler waits for an interrupt  *)
(* that was never requested, and none is left behind by a disconnect, a    *)
(* refused vector or an unplugged device (_interrupt_connect,              *)
(* _interrupt_disconnect, _pci_remove).  This is of a device of which no   *)
(* two calls have overlapped; those of other devices may.                  *)
HandlerInstalled ==
    \A d \in Devs \ raced : ~Busy(d) =>
        /\ \A v \in Lines : kdev[d].irqs[v] = (IF Active(d) THEN 1 ELSE 0)
        /\ kdev[d].msi = (Active(d) /\ use_msi # "INTX")

=============================================================================
