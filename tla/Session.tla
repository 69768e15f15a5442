------------------------------ MODULE Session ------------------------------
(***************************************************************************)
(* From a login to a routed Discord (cmd/bigducks/main.go, internal/app,   *)
(* internal/discord, internal/pac, internal/relay), over the registry and  *)
(* the processes of Startup.                                               *)
(*                                                                         *)
(* The main process opens the tray, which keeps a core running; a core     *)
(* serves the relay and the PAC on fixed ports and starts Discord with     *)
(* arguments that name them, or attaches to a Discord that runs, whatever  *)
(* its arguments.  Discord outlives cores and trays, which read the        *)
(* routing mode anew.  What the tray's goroutines do is in Supervisor,     *)
(* what happens to the client's files in Injection.                        *)
(***************************************************************************)
EXTENDS Startup, Sequences

CONSTANTS
    Hosts,          \* hosts Discord connects to
    OwnHosts        \* those that are Discord's

ASSUME SessionAssumption == OwnHosts \subseteq Hosts

VARIABLES
    config,         \* the routing mode in the configuration file
    boot,           \* the entries the last login has still to start
    core,           \* the core process
    discord,        \* the Discord that runs
    switched        \* history: the mode was changed since that login

sessionVars == <<config, boot, core, discord, switched>>
vars == <<startupVars, sessionVars>>

-----------------------------------------------------------------------------
(* Where a connection goes.  A host is the sequence of its labels from the *)
(* root, so a suffix with its dot is a prefix of that sequence.            *)

Modes == {"gateway", "full"}
Port == 443

Discord(labels) == <<"gg", "discord">> \o labels
RoutedHosts == {Discord(<<"gateway">>), Discord(<<"remote-auth-gateway">>)}
RoutedSuffixes == {Discord(<<>>)}
FullSuffixesShort == {<<"com", "discord">>, <<"gg", "discord">>, <<"net", "discordapp">>,
                      <<"media", "discord">>}
FullSuffixes == {<<"com", "discord">>, <<"gg", "discord">>, <<"com", "discordapp">>,
                 <<"net", "discordapp">>, <<"media", "discord">>,
                 <<"com", "discordcdn">>}

Under(host, suffix) ==
    Len(suffix) <= Len(host) /\ SubSeq(host, 1, Len(suffix)) = suffix
UnderAny(host, suffixes) == \E suffix \in suffixes : Under(host, suffix)

\* mediaBypassList: one host, and what is below two others.
Bypassed(host) ==
    \/ host = <<"com", "discordapp", "cdn">>
    \/ \E suffix \in {<<"media", "discord">>, <<"net", "discordapp">>} :
          host # suffix /\ Under(host, suffix)

PacRoutes(host) == UnderAny(host, RoutedSuffixes) \/ host \in RoutedHosts

\* The way a Discord started with these arguments takes.
Way(args, host) ==
    IF \/ args = "gateway" /\ PacRoutes(host)
       \/ args = "full" /\ ~Bypassed(host)
    THEN "relay" ELSE "direct"

AdmitsListed(mode, host, port) ==
    /\ port = Port
    /\ IF mode = "full" THEN UnderAny(host, FullSuffixes) ELSE host \in RoutedHosts

Admits(mode, host, port) ==
    /\ port = Port
    /\ \/ host \in RoutedHosts
       \/ UnderAny(host, IF mode = "full" THEN FullSuffixes ELSE RoutedSuffixes)

\* What the relay does with a connection: it closes it, refuses it with a code,
\* or dials, which is GatewayRecovery.
Answer(mode, request) ==
    CASE ~request.noAuth -> "closed"
      [] request.noAuth /\ (~request.domain \/ request.port = 0) -> "unsupported"
      [] OTHER -> IF Admits(mode, request.host, request.port) THEN "dials"
                  ELSE "disallowed"

Request(host) == [noAuth |-> TRUE, domain |-> TRUE, host |-> host, port |-> Port]

-----------------------------------------------------------------------------
NoCore == [pc |-> "off", mode |-> "none"]
NoDiscord == [args |-> "none", by |-> "nobody"]
Running == discord # NoDiscord

SessionInit ==
    /\ Init
    /\ config \in Modes
    /\ boot = {} /\ core = NoCore /\ discord = NoDiscord /\ switched = FALSE

\* The main process has done what its mode asks and holds the mutex.
Opening ==
    At(Main, "ended") /\ proc[Main].outcome = "ok"
    /\ proc[Main].mode \in {"install", "start"}

MutexFree == Resting(Main) /\ ~Opening

\* execute: the configuration is saved before the mutex is asked for, so a
\* second start changes it too.
Starts(mode, path, routing) ==
    /\ IF MutexFree THEN Begin(Main, mode, path) ELSE UNCHANGED startupVars
    /\ config' = routing
    /\ switched' = (switched \/ config' # config)
    /\ UNCHANGED <<boot, core, discord>>

UninstallStarts(path) ==
    /\ MutexFree
    /\ Begin(Main, "uninstall", path)
    /\ UNCHANGED sessionVars

StatusStarts ==
    /\ Begin(Status, "status", None)
    /\ UNCHANGED sessionVars

\* Discord runs, or its client cannot be restored.
UninstallStops ==
    /\ At(Main, "uninstall")
    /\ End(Main, "failed")
    /\ UNCHANGED <<run, legacy, direct, meta, original, scars, sessionVars>>

StartupSteps(p) ==
    /\ Steps(p)
    /\ At(p, "uninstall") => ~Running
    /\ UNCHANGED sessionVars

TrayOpens ==
    /\ Opening
    /\ Goto(Main, "tray")
    /\ UNCHANGED <<run, legacy, direct, meta, original, scars, sessionVars>>

TrayQuitsAlone ==
    /\ At(Main, "tray")
    /\ proc' = [proc EXCEPT ![Main] = Asleep]
    /\ UNCHANGED <<run, legacy, direct, meta, original, scars, sessionVars>>

TrayQuits ==
    /\ At(Main, "tray")
    /\ proc' = [proc EXCEPT ![Main] = Asleep]
    /\ core' = NoCore
    /\ UNCHANGED <<run, legacy, direct, meta, original, scars, config, boot,
                   discord, switched>>

-----------------------------------------------------------------------------
(* The core: Run and launchDiscord.                                        *)

CoreStarts ==
    /\ At(Main, "tray") /\ core = NoCore
    /\ core' = [pc |-> "up", mode |-> config]
    /\ UNCHANGED <<startupVars, config, boot, discord, switched>>

CoreAttaches ==
    /\ core.pc = "up"
    /\ core' = [core EXCEPT !.pc = "attached"]
    /\ UNCHANGED <<startupVars, config, boot, discord, switched>>

CoreChecks ==
    /\ core.pc = "up"
    /\ core' = [core EXCEPT !.pc = IF Running THEN "attached" ELSE "ensure"]
    /\ UNCHANGED <<startupVars, config, boot, discord, switched>>

\* IsRunning says no when it cannot tell.
CoreMisjudges ==
    /\ core.pc = "up" /\ Running
    /\ core' = [core EXCEPT !.pc = "ensure"]
    /\ UNCHANGED <<startupVars, config, boot, discord, switched>>

\* A second Discord hands over to the first and ends, and the core with it.
CoreLaunches ==
    /\ core.pc = "ensure"
    /\ IF Running THEN core' = NoCore /\ UNCHANGED discord
       ELSE /\ core' = [core EXCEPT !.pc = "waits"]
            /\ discord' = [args |-> core.mode, by |-> "core"]
    /\ UNCHANGED <<startupVars, config, boot, switched>>

CoreSeesExit ==
    /\ core.pc = "waits" /\ discord.by # "core"
    /\ core' = NoCore
    /\ UNCHANGED <<startupVars, config, boot, discord, switched>>

\* It crashes, fails, or the tray restarts it; Discord stays.
CoreEnds ==
    /\ core # NoCore
    /\ core' = NoCore
    /\ UNCHANGED <<startupVars, config, boot, discord, switched>>

-----------------------------------------------------------------------------
(* Discord and Windows.                                                    *)

DiscordStarts ==
    /\ ~Running
    /\ discord' = [args |-> "direct", by |-> "user"]
    /\ UNCHANGED <<startupVars, config, boot, core, switched>>

DiscordExits ==
    /\ Running
    /\ discord' = NoDiscord
    /\ UNCHANGED <<startupVars, config, boot, core, switched>>

Login ==
    /\ MutexFree \/ At(Main, "tray")
    /\ proc' = [proc EXCEPT ![Main] = Asleep]
    /\ boot' = (IF run \in Paths THEN {"tray"} ELSE {})
                \cup (IF direct # None THEN {"discord"} ELSE {})
    /\ switched' = FALSE
    /\ core' = NoCore /\ discord' = NoDiscord
    /\ UNCHANGED <<run, legacy, direct, meta, original, scars, config>>

BootTray ==
    /\ "tray" \in boot /\ run \in Paths /\ MutexFree
    /\ Begin(Main, "start", run)
    /\ boot' = boot \ {"tray"}
    /\ UNCHANGED <<config, core, discord, switched>>

BootDiscord ==
    /\ "discord" \in boot
    /\ boot' = boot \ {"discord"}
    /\ discord' = IF Running THEN discord ELSE [args |-> "direct", by |-> "login"]
    /\ UNCHANGED <<startupVars, config, core, switched>>

SessionNext ==
    \/ \E path \in Paths :
          \/ \E mode \in {"install", "start"}, routing \in Modes :
                Starts(mode, path, routing)
          \/ UninstallStarts(path)
    \/ StatusStarts
    \/ \E p \in Procs : StartupSteps(p)
    \/ \E e \in Entries : DiscordRenews(e) /\ UNCHANGED sessionVars
    \/ UninstallStops \/ TrayOpens \/ TrayQuits
    \/ CoreStarts \/ CoreChecks \/ CoreMisjudges \/ CoreLaunches \/ CoreSeesExit
    \/ CoreEnds
    \/ DiscordStarts \/ DiscordExits \/ Login \/ BootTray \/ BootDiscord

SessionSpec == SessionInit /\ [][SessionNext]_vars

\* The tray starts a core that ended; a core does not crash for ever, and sees
\* the Discord it started end.
SessionFairness ==
    /\ WF_vars(CoreStarts) /\ SF_vars(CoreChecks) /\ SF_vars(CoreLaunches)
    /\ WF_vars(CoreSeesExit)

SessionFairSpec == SessionSpec /\ SessionFairness

-----------------------------------------------------------------------------
(* Properties.                                                             *)

\* Types; a core runs only under a tray, which has the mutex.
SessionTypeOK ==
    /\ TypeOK
    /\ config \in Modes /\ boot \subseteq {"tray", "discord"}
    /\ switched \in BOOLEAN
    /\ core \in [pc : {"off", "up", "ensure", "waits", "attached"},
                 mode : Modes \cup {"none"}]
    /\ discord \in [args : Modes \cup {"none", "direct"},
                    by : {"nobody", "core", "user", "login"}]
    /\ core # NoCore => core.mode \in Modes /\ At(Main, "tray")

\* A Discord that a core started, this one or an earlier one, sends its gateway
\* to the relay, and the relay dials every host of Discord's it is sent, but for
\* those that are not the gateway's when the mode changed under that Discord; it
\* dials no other host (config.go, pac.go, run.go, socks5.go).
GatewayServed ==
    \A host \in Hosts :
        LET gateway == Under(host, Discord(<<>>))
            relayed == Way(discord.args, host) = "relay"
            dialled == core # NoCore /\ Answer(core.mode, Request(host)) = "dials" IN
        /\ dialled => host \in OwnHosts
        /\ discord.args \in Modes /\ host \in OwnHosts =>
              /\ gateway => relayed
              /\ relayed /\ core # NoCore => dialled \/ (switched /\ ~gateway)

\* A tray brings Discord up, also when its user has closed the one a core
\* started; a core that attached to a Discord leaves it closed.
TrayBringsDiscord ==
    (At(Main, "tray") /\ core.pc # "attached") ~> (Running \/ ~At(Main, "tray"))
=============================================================================
