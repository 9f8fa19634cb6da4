---------------------------- MODULE BootSession -----------------------------
(***************************************************************************)
(* A session with the menu: the firmware starts the application under a    *)
(* watchdog, the application disables it and opens the menu, and each      *)
(* Enter goes through one of two ways that come back to the key loop, the  *)
(* boot manager (BootAttempt) or the chain-loader (OpenCoreLaunch).  The   *)
(* two are composed as they stand, the chain-loader's variables and        *)
(* actions extended by those of the boot manager; they share the           *)
(* firmware's watchdog and BootCurrent, of which each knows only what it   *)
(* does to them itself.                                                    *)
(***************************************************************************)
EXTENDS OpenCoreLaunch

CONSTANTS
  Menus,                               \* the entries a menu may have
  Loaders, MaxFiles, MaxDisks, Mishaps \* of BootAttempt

VARIABLES
  mode,      \* "starting", "menu", "attempt", "launch" or "closed"
  menu,      \* the entries: "apple", or the kind of a boot option
  selected,  \* the one the pointer stands at
  armedBy,   \* history: who armed the watchdog last
  (* of the boot manager, watchdog and current being the machine's *)
  attemptAt, kind, path, loader, getNext, owner, ramDisk, fileBuffer, image,
  watchdog, current, attemptFaults

Attempt == INSTANCE BootAttempt WITH
             at <- attemptAt, buffer <- fileBuffer, faults <- attemptFaults

ASSUME SessionAssumption ==
  \A m \in Menus : m # <<>> /\ m \in Seq(Attempt!Kinds \union {"apple"})

machine == <<watchdog, current>>
attemptVars == <<attemptAt, kind, path, loader, getNext, owner, ramDisk,
                 fileBuffer, image, attemptFaults>>
choice == <<menu, selected>>
sessionVars == <<mode, choice, armedBy, machine, attemptVars, vars>>

----------------------------------------------------------------------------
(* Definitions named X_Y are variants of X with a plausible mistake Y; no  *)
(* specification uses them.                                                *)

(* The firmware's boot manager has set BootCurrent to the application's    *)
(* own option, and the watchdog.                                           *)
SessionInit ==
  /\ mode = "starting"
  /\ menu \in Menus /\ selected = 1
  /\ armedBy = "firmware"
  /\ Init
  /\ attemptAt = "menu" /\ kind = "legacy"
  /\ path = Attempt!NoPath /\ loader = 1 /\ getNext = TRUE
  /\ owner = Attempt!NoDisks /\ ramDisk = Attempt!NoDisk
  /\ fileBuffer = "null" /\ image = "none" /\ attemptFaults = {}
  /\ watchdog = "armed" /\ current = TRUE

Open_WatchdogKept ==
  /\ mode = "starting"
  /\ mode' \in {"menu", "closed"}
  /\ UNCHANGED <<choice, armedBy, machine, attemptVars, vars>>

(* The watchdog is disabled, or the application gives up; so it does if    *)
(* any later step of its start-up fails.                                   *)
Open ==
  /\ mode = "starting"
  /\ \/ watchdog' = "off" /\ mode' \in {"menu", "closed"}
     \/ mode' = "closed" /\ UNCHANGED watchdog
  /\ UNCHANGED <<choice, armedBy, current, attemptVars, vars>>

Move ==
  /\ mode = "menu"
  /\ selected' \in DOMAIN menu
  /\ UNCHANGED <<mode, menu, armedBy, machine, attemptVars, vars>>

(* A key or an event that ends the key loop.                               *)
Leave ==
  /\ mode = "menu"
  /\ mode' = "closed"
  /\ UNCHANGED <<choice, armedBy, machine, attemptVars, vars>>

EnterOption ==
  /\ mode = "menu" /\ menu[selected] # "apple"
  /\ Attempt!PressEnter /\ kind' = menu[selected]
  /\ mode' = "attempt"
  /\ UNCHANGED <<choice, armedBy, vars>>

EnterApple ==
  /\ mode = "menu" /\ menu[selected] = "apple"
  /\ PressEnter
  /\ mode' = "launch"
  /\ UNCHANGED <<choice, armedBy, machine, attemptVars>>

(* The boot manager at work; it arms the watchdog before the image starts. *)
BootManager ==
  /\ mode = "attempt"
  /\ Attempt!Searching
  /\ armedBy' = IF attemptAt' = "running" THEN "attempt" ELSE armedBy
  /\ mode' = IF attemptAt' = "menu" THEN "menu" ELSE mode
  /\ UNCHANGED <<choice, vars>>

AttemptReturns ==
  /\ mode = "attempt"
  /\ Attempt!ImageReturns
  /\ mode' = "menu"
  /\ UNCHANGED <<choice, armedBy, vars>>

(* The chain-loader at work.                                               *)
ChainLoader ==
  /\ mode = "launch"
  /\ Loading
  /\ mode' = CASE at' = "loop"   -> "menu"
               [] at' = "exited" -> "closed"
               [] OTHER          -> mode
  /\ UNCHANGED <<choice, armedBy, machine, attemptVars>>

OpenCoreReturns ==
  /\ mode = "launch"
  /\ ImageReturns
  /\ UNCHANGED <<mode, choice, armedBy, machine, attemptVars>>

Running ==
  \/ mode = "attempt" /\ attemptAt = "running"
  \/ mode = "launch" /\ at = "running"

(* A running image sets the watchdog, or boots something else, after which *)
(* neither watchdog nor BootCurrent is left.                               *)
ImageActs ==
  /\ Running
  /\ \/ /\ watchdog' = "armed" /\ armedBy' = mode
        /\ UNCHANGED current
     \/ /\ watchdog' = "off" /\ current' \in {current, FALSE}
        /\ UNCHANGED armedBy
  /\ UNCHANGED <<mode, choice, attemptVars, vars>>

(* The watchdog resets the machine; it may start the application again.    *)
WatchdogFires ==
  /\ watchdog = "armed"
  /\ mode' = "starting"
  /\ selected' = 1 /\ armedBy' = "firmware"
  /\ watchdog' = "armed" /\ current' = TRUE
  /\ attemptAt' = "menu" /\ kind' = "legacy"
  /\ path' = Attempt!NoPath /\ loader' = 1 /\ getNext' = TRUE
  /\ owner' = Attempt!NoDisks /\ ramDisk' = Attempt!NoDisk
  /\ fileBuffer' = "null" /\ image' = "none" /\ attemptFaults' = {}
  /\ at' = "loop" /\ written' = 0 /\ source' = "relative"
  /\ volume' = "closed" /\ file' = "closed" /\ loaderPath' = "null"
  /\ buffer' = "null" /\ size' = "zero" /\ imagePath' = "null"
  /\ images' = {} /\ faults' = {}
  /\ UNCHANGED <<menu, launcher>>

SessionNext ==
  \/ Open \/ Move \/ Leave \/ EnterOption \/ EnterApple
  \/ BootManager \/ AttemptReturns \/ ChainLoader \/ OpenCoreReturns
  \/ ImageActs \/ WatchdogFires

(* Application and boot manager run on until an image does or the user is  *)
(* asked.                                                                  *)
SessionSpec ==
  /\ SessionInit /\ [][SessionNext]_sessionVars
  /\ WF_sessionVars(Open)
  /\ WF_sessionVars(BootManager) /\ WF_sessionVars(ChainLoader)

----------------------------------------------------------------------------
(* Properties. *)

(* Whichever of the two ways the user took before, in whatever order, the  *)
(* menu he thinks in is quiet: nothing of an earlier entry is open, loaded *)
(* or running, and the only watchdog that may reset it is one that a       *)
(* chain-loaded program set and left.                                      *)
MenuIsQuiet ==
  mode = "menu" =>
    /\ attemptAt = "menu" /\ image = "none" /\ fileBuffer = "null"
    /\ ramDisk = Attempt!NoDisk
    /\ at = "loop" /\ buffer = "null" /\ imagePath = "null"
    /\ volume = "closed" /\ file = "closed" /\ "current" \notin images
    /\ watchdog = "armed" => armedBy = "launch"

(* Enter always leads somewhere: to a running image, or back to the user   *)
(* or out of the menu, whatever earlier entries left behind.               *)
EnterLeadsSomewhere ==
  mode \in {"attempt", "launch"} ~> Running \/ mode \in {"menu", "closed"}
=============================================================================
