-------------------------------- MODULE LklBoot --------------------------------
(***************************************************************************)
(* The start and the end of the program: parse_config(), init_lkl() and    *)
(* main() around the server, whose own life is SocksServer.  Every step of *)
(* init_lkl() is a call of LKL that may fail; a failure is printed, and    *)
(* main() goes on without looking.                                         *)
(***************************************************************************)
EXTENDS Integers, FiniteSets

VARIABLES given,    \* the command line
          stage,    \* where main() is, or how the process ended
          device,   \* lkl_netdev_vde_create() gave a device
          kernel,   \* the LKL kernel
          network,  \* the steps of init_lkl() that succeeded
          said      \* what was printed

bootVars == <<given, stage, device, kernel, network, said>>

CommandLines == [wellFormed : BOOLEAN, complete : BOOLEAN, help : BOOLEAN, version : BOOLEAN]

Ended == {"exited", "uncaught", "crashed"}

BootInit ==
    /\ given \in CommandLines
    /\ stage = "parse"
    /\ device = FALSE /\ kernel = "down" /\ network = {} /\ said = {}

Say(what) == said' = said \cup {what}

\* parse_config(): a malformed argument is thrown outside the try block, and required
\* arguments are asked for before --help and --version are looked at.
ParseConfig ==
    /\ stage = "parse"
    /\ \/ ~given.wellFormed /\ stage' = "uncaught" /\ UNCHANGED said
       \/ given.wellFormed /\ ~given.complete /\ stage' = "exited" /\ Say("missing")
       \/ /\ given.wellFormed /\ given.complete /\ given.help
          /\ stage' = "exited" /\ Say("usage")
       \/ /\ given.wellFormed /\ given.complete /\ ~given.help /\ given.version
          /\ stage' = "exited" /\ Say("version")
       \/ /\ given.wellFormed /\ given.complete /\ ~given.help /\ ~given.version
          /\ stage' = "create" /\ UNCHANGED said
    /\ UNCHANGED <<given, device, kernel, network>>

CreateDevice ==
    /\ stage = "create"
    /\ device' \in BOOLEAN
    /\ stage' = "add"
    /\ UNCHANGED <<given, kernel, network, said>>

\* Faulty variant: what a step answers is not looked at.
AnsweredUnchecked(step, next) ==
    \/ network' = network \cup {step} /\ stage' = next /\ UNCHANGED said
    \/ stage' = next /\ UNCHANGED <<network, said>>

\* A step of init_lkl() succeeded, or failed: init_lkl() returns, and main() listens.
Answered(step, next) ==
    \/ network' = network \cup {step} /\ stage' = next /\ UNCHANGED said
    \/ stage' = "listen" /\ Say("failure") /\ UNCHANGED network

\* lkl_netdev_add(), also of no device.
AddDevice ==
    /\ stage = "add"
    /\ \/ device /\ Answered("added", "start")
       \/ ~device /\ stage' = "crashed" /\ UNCHANGED <<network, said>>
    /\ UNCHANGED <<given, device, kernel>>

\* lkl_start_kernel(), whose result is not looked at.
StartKernel ==
    /\ stage = "start"
    /\ kernel' \in {"down", "up"}
    /\ stage' = "ifindex"
    /\ UNCHANGED <<given, device, network, said>>

\* A call of LKL: without a kernel it fails or goes wrong.
Configure(step, here, next) ==
    /\ stage = here
    /\ \/ kernel = "up" /\ Answered(step, next)
       \/ kernel # "up" /\ stage' = "listen" /\ Say("failure") /\ UNCHANGED network
       \/ kernel # "up" /\ stage' = "crashed" /\ UNCHANGED <<network, said>>
    /\ UNCHANGED <<given, device, kernel>>

GetIfindex == Configure("index", "ifindex", "address")
SetAddress == Configure("addressed", "address", "ifup")
SetUp == Configure("up", "ifup", "listen")

\* The signal set and the acceptor of the server, which throws if the address is taken.
Listen ==
    /\ stage = "listen"
    /\ stage' \in {"serving", "uncaught"}
    /\ UNCHANGED <<given, device, kernel, network, said>>

\* A call of LKL by a connection where there is no kernel.
CallWithoutKernel ==
    /\ stage = "serving" /\ kernel # "up"
    /\ stage' \in {"serving", "crashed"}
    /\ UNCHANGED <<given, device, kernel, network, said>>

\* halt_lkl() after the server block, whether there is a kernel or not.
HaltLkl ==
    /\ stage = "serving"
    /\ \/ kernel = "up" /\ kernel' = "halted" /\ stage' = "exited"
       \/ kernel # "up" /\ stage' \in {"exited", "crashed"} /\ UNCHANGED kernel
    /\ UNCHANGED <<given, device, network, said>>

Boot ==
    \/ ParseConfig \/ CreateDevice \/ AddDevice \/ StartKernel \/ GetIfindex \/ SetAddress
    \/ SetUp \/ Listen \/ CallWithoutKernel \/ HaltLkl
=============================================================================
