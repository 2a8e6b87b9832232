------------------------------- MODULE MainLoop -------------------------------
(***************************************************************************)
(* The processor's program outside echo.c: main() of main.c, the timer     *)
(* interrupt of the platform files, and DHCP with its time-out.  main()    *)
(* and the interrupt share the timer flags, the DHCP counter and the       *)
(* address in echo_netif without any lock.  The boot code of the boards    *)
(* that have one is module I2cSetup.  The build is the one of the board    *)
(* support package: LWIP_DHCP = 1, LWIP_IPV6 = 0.                          *)
(***************************************************************************)
EXTENDS I2cSetup

CONSTANTS
  DhcpTimeout,     \* ticks of 500 ms before main() gives up on DHCP (24)
  CoarseInterval,  \* ticks of 500 ms between calls of dhcp_coarse_tmr (120)
  LinkInterval,    \* ETH_LINK_DETECT_INTERVAL
  RxLimit          \* RESET_RX_CNTR_LIMIT (400), in ticks of 250 ms

ASSUME MainAssumption ==
  {DhcpTimeout, CoarseInterval, LinkInterval, RxLimit} \subseteq Nat \ {0}

VARIABLES
  pc,                \* where main() is
  timerOk,           \* platform_setup_timer has configured the timer
  timerOn,           \* the timer runs and its interrupt reaches the processor
  fastFlag,          \* TcpFastTmrFlag
  slowFlag,          \* TcpSlowTmrFlag
  odd,
  timeoutCntr,       \* dhcp_timoutcntr; saturates at CntrFloor
  dhcpTimer,         \* dhcp_timer
  linkCntr,          \* DetectEthLinkStatus; saturates past LinkInterval
  rxCntr,            \* ResetRxCntr
  netif,             \* xemac_add has set up echo_netif
  dhcp,              \* state of lwIP's DHCP client
  ip, mask, gw,      \* the address in echo_netif: whose it is
  listening,         \* start_application has put the server on its port
  loaded,            \* ... and the trained network into the accelerator
  fastOwed,          \* history: a tick has called for tcp_fasttmr since its last run
  slowOwed,          \* history: the same for tcp_slowtmr
  rxStuck            \* ticks the receive path has been dead for; 0: it works

netVars == <<dhcp, ip, mask, gw>>
flags == <<fastFlag, slowFlag, fastOwed, slowOwed>>
counters == <<odd, timeoutCntr, dhcpTimer, linkCntr, rxCntr>>
boot == <<timerOk, timerOn, netif, listening, loaded>>
mainVars == <<pc, boot, flags, counters, netVars, rxStuck>>
vars == <<i2cVars, mainVars>>

CntrFloor == -1
WithRxReset == board \in {"zynq", "zynqSfp"}     \* xemacpsif_resetrx_on_no_rxdata
TimerFromInit == board \in {"mb", "ppc"}         \* init_platform starts the timer

Init ==
  /\ I2cInit
  /\ pc = "setup"
  /\ timerOk = FALSE /\ timerOn = FALSE /\ netif = FALSE
  /\ listening = FALSE /\ loaded = FALSE
  /\ fastFlag = FALSE /\ slowFlag = FALSE /\ fastOwed = FALSE /\ slowOwed = FALSE
  /\ odd = TRUE /\ timeoutCntr = DhcpTimeout
  /\ dhcpTimer = 0 /\ linkCntr = 0 /\ rxCntr = 0
  /\ dhcp = "off" /\ ip = "none" /\ mask = "none" /\ gw = "none"
  /\ rxStuck = 0

-------------------------------------------------------------------------------
(* main() up to the DHCP client.                                           *)
Goto(from, to) == pc = from /\ pc' = to

SetupStep ==      \* ProgramSi5324, ProgramSfpPhy or IicPhyReset
  /\ pc = "setup"
  /\ ProgramStep \/ BusStep
  /\ UNCHANGED mainVars

(* Only the result of IicPhyReset is looked at.  Nothing of the set-up can *)
(* be observed from here on, so its variables take their initial values.   *)
SetupDone ==
  /\ Goto("setup", IF outcome["phy"] = "failed" THEN "exit" ELSE "platform")
  /\ ~Running
  /\ txDone' = FALSE /\ rxDone' = FALSE /\ errors' = FALSE
  /\ xfer' = "none" /\ busy' = FALSE /\ siAcked' = 0
  /\ outcome' = [p \in DOMAIN outcome |-> "none"]
  /\ UNCHANGED <<board, progs, step, phase, frame, cpuIrq>>
  /\ UNCHANGED <<boot, flags, counters, netVars, rxStuck>>

(* Setting up the timer may fail on the Zynq boards; nobody is told.       *)
platform_setup_timer ==
  /\ timerOk' \in (IF TimerFromInit THEN {TRUE} ELSE BOOLEAN)
  /\ timerOn' = TimerFromInit

(* The interrupt controller is set up afresh, without the I2C handler.     *)
platform_setup_interrupts == frame' = "none"

init_platform ==
  /\ Goto("platform", "add")
  /\ platform_setup_timer /\ platform_setup_interrupts
  /\ UNCHANGED <<board, progs, step, phase, flagVars, busVars, cpuIrq, outcome>>
  /\ UNCHANGED <<netif, listening, loaded, flags, counters, netVars, rxStuck>>

\* Seeded fault: main() goes on when xemac_add fails.
xemac_add_NoExit ==
  /\ Goto("add", "enable")
  /\ netif' \in BOOLEAN
  /\ UNCHANGED <<i2cVars, timerOk, timerOn, listening, loaded, flags, counters, netVars, rxStuck>>

xemac_add ==
  /\ pc = "add"
  /\ \/ netif' = TRUE /\ pc' = "enable"
     \/ netif' = FALSE /\ pc' = "exit"
  /\ UNCHANGED <<i2cVars, timerOk, timerOn, listening, loaded, flags, counters, netVars, rxStuck>>

platform_enable_interrupts ==
  /\ Goto("enable", "dhcpStart")
  /\ cpuIrq' = TRUE /\ timerOn' = timerOk
  /\ UNCHANGED <<board, progs, step, phase, flagVars, busVars, frame, outcome>>
  /\ UNCHANGED <<timerOk, netif, listening, loaded, flags, counters, netVars, rxStuck>>

dhcp_start ==     \* netif_set_up and dhcp_start
  /\ Goto("dhcpStart", "dhcpSet")
  /\ dhcp' = "asking"
  /\ UNCHANGED <<i2cVars, boot, flags, counters, ip, mask, gw, rxStuck>>

SetTimeout ==
  /\ Goto("dhcpSet", "dhcpWait")
  /\ timeoutCntr' = DhcpTimeout
  /\ UNCHANGED <<i2cVars, boot, flags, odd, dhcpTimer, linkCntr, rxCntr, netVars, rxStuck>>

(* xemacif_input: the server's answer may be among the frames; lwIP then   *)
(* checks with ARP that the offered address is free.                       *)
Offer == dhcp' \in (IF dhcp = "asking" THEN {"asking", "checking"} ELSE {dhcp})

DhcpWait ==
  /\ \/ /\ Goto("dhcpWait", "dhcpWait")
        /\ ip = "none" /\ timeoutCntr > 0
        /\ Offer
     \/ /\ Goto("dhcpWait", "dhcpCheck")
        /\ ~(ip = "none" /\ timeoutCntr > 0)
        /\ UNCHANGED dhcp
  /\ UNCHANGED <<i2cVars, boot, flags, counters, ip, mask, gw, rxStuck>>

\* Seeded fault: the comparison with zero is strict.
DhcpCheck_OffByOne ==
  /\ Goto("dhcpCheck", IF timeoutCntr < 0 /\ ip = "none" THEN "setIp" ELSE "start")
  /\ UNCHANGED <<i2cVars, boot, flags, counters, netVars, rxStuck>>

DhcpCheck ==
  /\ Goto("dhcpCheck", IF timeoutCntr <= 0 /\ ip = "none" THEN "setIp" ELSE "start")
  /\ UNCHANGED <<i2cVars, boot, flags, counters, netVars, rxStuck>>

(* The default address, three stores an interrupt may fall between.        *)
SetDefault ==
  /\ \/ Goto("setIp", "setMask") /\ ip' = "default" /\ UNCHANGED <<mask, gw>>
     \/ Goto("setMask", "setGw") /\ mask' = "default" /\ UNCHANGED <<ip, gw>>
     \/ Goto("setGw", "start") /\ gw' = "default" /\ UNCHANGED <<ip, mask>>
  /\ UNCHANGED <<i2cVars, boot, flags, counters, dhcp, rxStuck>>

(* start_application: on a failure it returns before the network is loaded, *)
(* and main() goes on without a server.                                    *)
start_application ==
  /\ Goto("start", "fast")
  /\ \/ listening' = TRUE /\ loaded' = TRUE
     \/ UNCHANGED <<listening, loaded>>
  /\ UNCHANGED <<i2cVars, timerOk, timerOn, netif, flags, counters, netVars, rxStuck>>

-------------------------------------------------------------------------------
(* The loop of main(): a timer flag is tested, served and then cleared.    *)

\* Seeded fault: clearing one flag clears the other.
FastTimer_ClearsBoth ==
  /\ \/ /\ fastFlag /\ Goto("fast", "fastClear")
        /\ fastOwed' = FALSE /\ UNCHANGED <<fastFlag, slowFlag>>
     \/ ~fastFlag /\ Goto("fast", "slow") /\ UNCHANGED <<fastFlag, slowFlag, fastOwed>>
     \/ Goto("fastClear", "slow") /\ fastFlag' = FALSE /\ slowFlag' = FALSE /\ UNCHANGED fastOwed
  /\ UNCHANGED <<i2cVars, boot, slowOwed, counters, netVars, rxStuck>>

FastTimer ==
  /\ \/ /\ fastFlag /\ Goto("fast", "fastClear")
        /\ fastOwed' = FALSE /\ UNCHANGED fastFlag
     \/ ~fastFlag /\ Goto("fast", "slow") /\ UNCHANGED <<fastFlag, fastOwed>>
     \/ Goto("fastClear", "slow") /\ fastFlag' = FALSE /\ UNCHANGED fastOwed
  /\ UNCHANGED <<i2cVars, boot, slowFlag, slowOwed, counters, netVars, rxStuck>>

SlowTimer ==
  /\ \/ /\ slowFlag /\ Goto("slow", "slowClear")
        /\ slowOwed' = FALSE /\ UNCHANGED slowFlag
     \/ ~slowFlag /\ Goto("slow", "input") /\ UNCHANGED <<slowFlag, slowOwed>>
     \/ Goto("slowClear", "input") /\ slowFlag' = FALSE /\ UNCHANGED slowOwed
  /\ UNCHANGED <<i2cVars, boot, fastFlag, fastOwed, counters, netVars, rxStuck>>

Input ==          \* frames that are not for the server
  /\ Goto("input", "fast")
  /\ Offer
  /\ UNCHANGED <<i2cVars, boot, flags, counters, ip, mask, gw, rxStuck>>

Serve ==          \* a client's message reaches recv_callback
  /\ Goto("input", "fast")
  /\ listening /\ ip # "none" /\ rxStuck = 0
  /\ UNCHANGED <<i2cVars, boot, flags, counters, netVars, rxStuck>>

-------------------------------------------------------------------------------
(* timer_callback, every 250 ms.  Every second time it also runs the DHCP  *)
(* client, which takes the checked address inside the interrupt.           *)
Least(a, b) == IF a < b THEN a ELSE b

FineTimer ==
  \/ UNCHANGED netVars
  \/ /\ dhcp = "checking" /\ dhcp' = "bound"
     /\ ip' = "lease" /\ mask' = "lease" /\ gw' = "lease"

\* Seeded fault: the ticks of the time-out are not counted.
SlowTick_NotCounted ==
  /\ UNCHANGED timeoutCntr
  /\ slowFlag' = TRUE /\ slowOwed' = TRUE
  /\ FineTimer
  /\ dhcpTimer' = IF dhcpTimer + 1 >= CoarseInterval THEN 0 ELSE dhcpTimer + 1

SlowTick ==
  /\ timeoutCntr' = IF timeoutCntr > CntrFloor THEN timeoutCntr - 1 ELSE CntrFloor
  /\ slowFlag' = TRUE /\ slowOwed' = TRUE
  /\ FineTimer
  /\ dhcpTimer' = IF dhcpTimer + 1 >= CoarseInterval THEN 0 ELSE dhcpTimer + 1

\* Seeded fault: the counter is not set back.
LinkDetect_NoReset == linkCntr' = Least(linkCntr + 1, LinkInterval + 1)

LinkDetect ==     \* eth_link_detect when the counter hits the interval
  linkCntr' = IF linkCntr + 1 = LinkInterval THEN 0
              ELSE Least(linkCntr + 1, LinkInterval + 1)

\* Seeded fault: the ticks before a reset of the receive path are not counted.
ResetRx_NotCounted ==
  IF WithRxReset
    THEN /\ UNCHANGED rxCntr
         /\ rxStuck' = IF rxStuck = 0 THEN 0 ELSE Least(rxStuck + 1, RxLimit + 1)
    ELSE UNCHANGED <<rxCntr, rxStuck>>

ResetRx ==        \* xemacpsif_resetrx_on_no_rxdata at the limit
  IF WithRxReset
    THEN LET hit == rxCntr + 1 >= RxLimit
         IN  /\ rxCntr' = IF hit THEN 0 ELSE rxCntr + 1
             /\ rxStuck' = IF hit \/ rxStuck = 0 THEN 0 ELSE Least(rxStuck + 1, RxLimit + 1)
    ELSE UNCHANGED <<rxCntr, rxStuck>>

timer_callback ==
  /\ timerOn /\ cpuIrq
  /\ fastFlag' = TRUE /\ fastOwed' = TRUE
  /\ odd' = ~odd
  /\ IF odd' THEN SlowTick
             ELSE UNCHANGED <<timeoutCntr, slowFlag, slowOwed, dhcpTimer, netVars>>
  /\ ResetRx
  /\ LinkDetect
  /\ UNCHANGED <<i2cVars, pc, boot>>

(* The hardware bug of the Zynq's EmacPs: its receive path goes dead.      *)
RxHangs ==
  /\ WithRxReset /\ netif /\ rxStuck = 0
  /\ rxStuck' = 1
  /\ UNCHANGED <<i2cVars, pc, boot, flags, counters, netVars>>

MainStep ==
  \/ SetupDone \/ init_platform \/ xemac_add \/ platform_enable_interrupts
  \/ dhcp_start \/ SetTimeout \/ DhcpWait \/ DhcpCheck \/ SetDefault
  \/ start_application \/ FastTimer \/ SlowTimer \/ Input \/ Serve

Next == SetupStep \/ MainStep \/ timer_callback \/ RxHangs

Spec == Init /\ [][Next]_vars

(* The processor runs main() and takes its interrupts; the I2C controller  *)
(* ends its transfers; a PHY that is asked for ever shows its link.        *)
Fairness ==
  /\ WF_vars(MainStep) /\ WF_vars(timer_callback)
  /\ WF_vars(pc = "setup" /\ ProgramStep /\ UNCHANGED mainVars)
  /\ WF_vars(pc = "setup" /\ TransferEnds /\ UNCHANGED mainVars)
  /\ WF_vars(pc = "setup" /\ BusStops /\ UNCHANGED mainVars)
  /\ SF_vars(pc = "setup" /\ RecvIdle(TRUE) /\ UNCHANGED mainVars)

FairSpec == Spec /\ Fairness

-------------------------------------------------------------------------------
Boot == {"setup", "platform", "add", "enable", "dhcpStart", "dhcpSet",
         "dhcpWait", "dhcpCheck", "setIp", "setMask", "setGw", "start"}
Loop == {"fast", "fastClear", "slow", "slowClear", "input"}
Owner == {"none", "lease", "default"}

TypeOK ==
  /\ I2cTypeOK
  /\ pc \in Boot \cup Loop \cup {"exit"}
  /\ {timerOk, timerOn, odd, netif, listening, loaded} \subseteq BOOLEAN
  /\ {fastFlag, slowFlag, fastOwed, slowOwed} \subseteq BOOLEAN
  /\ timeoutCntr \in CntrFloor .. DhcpTimeout
  /\ dhcpTimer \in 0 .. CoarseInterval - 1
  /\ linkCntr \in 0 .. LinkInterval - 1
  /\ rxCntr \in 0 .. RxLimit - 1
  /\ rxStuck \in 0 .. RxLimit + 1
  /\ dhcp \in {"off", "asking", "checking", "bound"}
  /\ {ip, mask, gw} \subseteq Owner

(* The timer interrupt hands echo_netif to the driver and to lwIP: it must *)
(* not get through before xemac_add has set the interface up.  MicroBlaze  *)
(* starts the timer early and enables exceptions late, the Zynq with an    *)
(* SFP enables exceptions early and starts the timer late.                 *)
NoTickBeforeNetif == timerOn /\ cpuIrq => netif

(* main() enters its loop with an address: the lease, or the default one   *)
(* after the time-out, whatever the interrupt does between the tests.  The *)
(* three parts are of one origin unless DHCP ended during the stores.      *)
AddressSet ==
  pc \in Loop =>
    /\ "none" \notin {ip, mask, gw}
    /\ dhcp # "bound" => ip = mask /\ mask = gw

(* Boot ends, in the loop or in an early return of main().  Two waits have *)
(* no bound of their own and are excepted: the set-up over I2C after an    *)
(* error (sfp.c:175), and the wait for DHCP when the timer that counts its *)
(* time-out could not be set up (platform_zynq.c:159).                     *)
BootEnds ==
  <>(\/ pc \in Loop \cup {"exit"}
     \/ pc = "setup" /\ errors
     \/ pc = "dhcpWait" /\ ~timerOk)

(* A tick the interrupt sets between the test of its flag and the clearing *)
(* is lost, yet lwIP's timers are never starved: what a tick has asked for *)
(* is done sooner or later.                                                *)
TimersServed ==
  /\ pc \in Loop /\ fastOwed ~> ~fastOwed
  /\ pc \in Loop /\ slowOwed ~> ~slowOwed

(* The link of the Ethernet PHY is looked at again and again (the test for *)
(* equality in timer_callback never misses), and a dead receive path is    *)
(* reset, before RxLimit ticks are over.                                   *)
LinkAndRxWatched ==
  /\ timerOn /\ cpuIrq ~> linkCntr = 0
  /\ [](rxStuck <= RxLimit)
  /\ rxStuck > 0 /\ timerOk ~> rxStuck = 0
===============================================================================
