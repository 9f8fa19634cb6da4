------------------------------ MODULE HotKeys ------------------------------
(***************************************************************************)
(* The hot key service of the boot manager library (BmHotkey.c): key       *)
(* options kept in variables Key####, the list of hot keys made from them  *)
(* when the service starts, and the callback through which a keyboard, at  *)
(* any time and in the middle of any other operation that does not hold    *)
(* the lock, advances the hot keys and chooses an option to boot.          *)
(*                                                                         *)
(* Nothing ties the four places together in which one hot key leaves a     *)
(* trace: its variable, its list entries (one for each way to hold its     *)
(* modifiers), the strokes registered with each console, and the chosen    *)
(* option waiting to be booted.  The service is stopped by the first boot  *)
(* after its start, the flag that says it was started stays set.           *)
(***************************************************************************)
EXTENDS Integers, FiniteSets, SequencesExt

CONSTANTS
  Codes,         \* what callers define: [keys : a sequence, mods : a set]
  ContinueCodes, \* bound: those that may become the continue key
  Boots,         \* numbers of boot options
  Contents,      \* what a Boot#### variable may hold
  Missing,       \* a Boot#### variable that does not exist
  None,          \* no key option, or no boot option chosen
  Consoles,      \* keyboards; just one when a console splitter is there
  Flaky,         \* consoles that may refuse to register a stroke
  SupportCount,  \* keys a hot key may have: BootOptionSupport
  MaxNumber,     \* bound on the numbers of key options
  MaxStarts,     \* bound on the starts of the service
  MaxHotkeys     \* bound on the length of the list

ASSUME HotKeysAssumption ==
  /\ SupportCount \in Nat /\ MaxNumber \in Nat /\ MaxStarts \in Nat
  /\ MaxHotkeys \in Nat
  /\ Flaky \subseteq Consoles /\ ContinueCodes \subseteq Codes
  /\ \A code \in Codes :
       /\ code.keys \in Seq(ToSet(code.keys)) /\ Len(code.keys) >= 1
       /\ IsFiniteSet(code.mods)
  /\ Missing \notin Contents

VARIABLES
  bootVar,      \* the Boot#### variables
  options,      \* the Key#### variables: code, boot option and its CRC
  continueKey,  \* mBmContinueKeyOption: its code, or None
  started,      \* mBmHotkeyServiceStarted
  list,         \* mBmHotkeyList
  stopEvents,   \* ReadyToBoot events that will stop the service
  hooked,       \* new consoles will be given the hot keys
  consoles,     \* the consoles present
  registered,   \* for each console the strokes it calls back for
  pending,      \* mBmHotkeyBootOption: option number and contents, or None
  triggered,    \* mBmHotkeyTriggered is signalled
  phase,        \* what the boot manager does: "idle", "starting", "boot"
                \* (before ReadyToBoot) or "image" (after it)
  byHotkey,     \* the boot going on is one of EfiBootManagerHotkeyBoot
  todo,         \* key options the start has listed and not yet processed
  noticed,      \* callbacks that have found no option chosen and wait for
                \* the lock, each interrupted by the next: console, stroke
  starts,       \* history: number of starts
  recent        \* history: the last strokes the callback processed, as many
                \* as any hot key has taken

store == <<bootVar, options>>
keyboard == <<list, registered>>
outcome == <<pending, triggered, recent>>
vars == <<store, continueKey, started, keyboard, stopEvents, hooked,
          consoles, outcome, phase, byHotkey, todo, noticed, starts>>

Numbers == 0 .. MaxNumber
Sides == {"left", "right"}

(* A modifier may be held on either side: a state of them says on which.   *)
ShiftStates(mods) == [mods -> Sides]

Longest == Max({Len(code.keys) : code \in Codes})

(* What a user may type.  Some keyboards do not report modifiers.          *)
Strokes ==
  LET keys == UNION {ToSet(code.keys) : code \in Codes}
  IN  [key : keys, known : {TRUE},
       state : UNION {ShiftStates(code.mods) : code \in Codes}]
        \union
      [key : keys, known : {FALSE}, state : ShiftStates({})]

Matches(stroke, expected) ==
  /\ stroke.key = expected.key
  /\ stroke.known => stroke.state = expected.state

----------------------------------------------------------------------------
(* Key options.  Definitions named X_Y are variants of X with a plausible  *)
(* mistake Y; no specification uses them.                                  *)

(* The boot option still exists and is the one the key was defined for.    *)
Valid(o) ==
  /\ o # None
  /\ bootVar[o.boot] # Missing
  /\ bootVar[o.boot] = o.crc

ValidNumbers == {n \in Numbers : Valid(options[n])}

(* Numbers in ascending order.                                             *)
Ascending(numbers) ==
  CHOOSE s \in [1 .. Cardinality(numbers) -> numbers] :
    \A i, j \in DOMAIN s : i < j => s[i] < s[j]

(* The numbers of the valid key options; invalid ones are not seen.        *)
KeyOptions == Ascending(ValidNumbers)

FreeNumber_Counts == Len(KeyOptions)

(* The first gap among the valid ones.                                     *)
FreeNumber ==
  LET gaps == {i \in DOMAIN KeyOptions : KeyOptions[i] > i - 1}
  IN  IF gaps = {} THEN Len(KeyOptions) ELSE Min(gaps) - 1

----------------------------------------------------------------------------
(* The list and the consoles. *)

(* The list entries for a key option.                                      *)
HotkeysOf(code, boot, continues) ==
  LET states == SetToSeq(ShiftStates(code.mods))
  IN  [i \in DOMAIN states |->
        [strokes   |-> [j \in DOMAIN code.keys |->
                          [key |-> code.keys[j], state |-> states[i]]],
         boot      |-> boot,
         continues |-> continues,
         waiting   |-> 0,
         late      |-> phase # "starting" /\ stopEvents = 0]]

(* Each hot key is registered stroke by stroke until the console refuses.  *)
Register(hotkeys, where) ==
  \E cut \in [where \intersect Flaky -> [DOMAIN hotkeys -> 0 .. Longest]] :
    registered' = [c \in Consoles |->
      registered[c] \union
        {s \in UNION {ToSet(h.strokes) : h \in ToSet(hotkeys)} :
           /\ c \in where
           /\ \E i \in DOMAIN hotkeys : \E j \in DOMAIN hotkeys[i].strokes :
                /\ hotkeys[i].strokes[j] = s
                /\ c \in Flaky => j <= cut[c][i]}]

(* BmProcessKeyOption. *)
Process(code, boot, continues) ==
  IF Len(code.keys) > SupportCount
  THEN UNCHANGED keyboard
  ELSE LET new == HotkeysOf(code, boot, continues)
       IN  list' = list \o new /\ Register(new, consoles)

(* Bound: the list has room for the hot keys of these codes.               *)
HasRoom(codes) ==
  Len(list) + FoldSeq(LAMBDA code, n : n + Cardinality(ShiftStates(code.mods)),
                      0, codes) <= MaxHotkeys

(* The strokes the service unregisters when it stops.                      *)
Unregistered == UNION {ToSet(h.strokes) : h \in ToSet(list)}

StopService ==
  /\ list' = <<>>
  /\ registered' = [c \in Consoles |->
       IF c \in consoles THEN registered[c] \ Unregistered ELSE registered[c]]

----------------------------------------------------------------------------
Init ==
  /\ bootVar \in [Boots -> Contents \union {Missing}]
  /\ options = [n \in Numbers |-> None]
  /\ continueKey = None
  /\ started = FALSE
  /\ list = <<>>
  /\ stopEvents = 0
  /\ hooked = FALSE
  /\ consoles \in SUBSET Consoles
  /\ registered = [c \in Consoles |-> {}]
  /\ pending = None /\ triggered = FALSE
  /\ phase = "idle" /\ byHotkey = FALSE
  /\ todo = <<>> /\ noticed = <<>>
  /\ starts = 0 /\ recent = <<>>

service == <<continueKey, started, stopEvents, hooked, todo, starts>>
boot == <<phase, byHotkey>>

(* There is one processor: while callbacks are under way, what they have   *)
(* interrupted does not go on.                                             *)
Undisturbed == noticed = <<>> /\ UNCHANGED noticed

(* EfiBootManagerAddKeyOptionVariable.  It takes effect at once if the     *)
(* service was ever started.                                               *)
AddKeyOption(code, number) ==
  /\ Undisturbed
  /\ phase = "idle"
  /\ bootVar[number] # Missing
  /\ \A n \in ValidNumbers : options[n].code # code
  /\ FreeNumber <= MaxNumber /\ (started => HasRoom(<<code>>))  \* bounds
  /\ options' = [options EXCEPT ![FreeNumber] =
                   [code |-> code, boot |-> number, crc |-> bootVar[number]]]
  /\ IF started THEN Process(code, number, FALSE) ELSE UNCHANGED keyboard
  /\ UNCHANGED <<bootVar, service, consoles, outcome, boot>>

(* EfiBootManagerDeleteKeyOptionVariable: the list entries go first, then  *)
(* the first valid variable with these keys, whose deletion may fail.      *)
DeleteKeyOption(code) ==
  LET mine(h) == /\ [j \in DOMAIN h.strokes |-> h.strokes[j].key] = code.keys
                 /\ DOMAIN h.strokes[1].state = code.mods
      left    == Ascending({i \in DOMAIN list : ~mine(list[i])})
      found   == {n \in ValidNumbers : options[n].code = code}
  IN  /\ Undisturbed
      /\ phase = "idle"
      /\ list' = [i \in DOMAIN left |-> list[left[i]]]
      /\ \/ found # {} /\ options' = [options EXCEPT ![Min(found)] = None]
         \/ UNCHANGED options
      /\ UNCHANGED <<bootVar, registered, service, consoles, outcome, boot>>

(* EfiBootManagerRegisterContinueKeyOption. *)
RegisterContinueKey(code) ==
  /\ Undisturbed
  /\ phase = "idle"
  /\ continueKey = None
  /\ code \in ContinueCodes  \* bound
  /\ started => HasRoom(<<code>>)  \* bound
  /\ continueKey' = code
  /\ IF started THEN Process(code, None, TRUE) ELSE UNCHANGED keyboard
  /\ UNCHANGED <<store, started, stopEvents, hooked, todo, starts, consoles,
                 outcome, boot>>

(* EfiBootManagerStartHotkeyService: a new event, then the key options of  *)
(* now, one after the other; keys may be pressed in between.               *)
StartService ==
  /\ Undisturbed
  /\ phase = "idle"
  /\ starts < MaxStarts  \* bound
  /\ HasRoom([i \in DOMAIN KeyOptions |-> options[KeyOptions[i]].code] \o
             (IF continueKey = None THEN <<>> ELSE <<continueKey>>))  \* bound
  /\ SupportCount > 0
  /\ starts' = starts + 1
  /\ todo' = [i \in DOMAIN KeyOptions |-> options[KeyOptions[i]]]
  /\ triggered' = FALSE
  /\ phase' = "starting"
  /\ UNCHANGED <<store, continueKey, started, keyboard, stopEvents, hooked,
                 consoles, pending, recent, byHotkey>>

ProcessNext ==
  /\ Undisturbed
  /\ phase = "starting" /\ todo # <<>>
  /\ Process(Head(todo).code, Head(todo).boot, FALSE)
  /\ todo' = Tail(todo)
  /\ UNCHANGED <<store, continueKey, started, stopEvents, hooked, starts,
                 consoles, outcome, boot>>

(* The continue key last.  The hook for new consoles is called at once for *)
(* those that are there: each is offered the whole list once more.         *)
HookConsoles ==
  /\ list' = list \o (IF continueKey = None \/ Len(continueKey.keys) > SupportCount
                      THEN <<>> ELSE HotkeysOf(continueKey, None, TRUE))
  /\ Register(list', consoles)
  /\ hooked' = TRUE /\ started' = TRUE

ServiceStarted_NoStopEvent ==
  /\ Undisturbed
  /\ phase = "starting" /\ todo = <<>>
  /\ HookConsoles
  /\ phase' = "idle"
  /\ UNCHANGED <<store, continueKey, stopEvents, todo, starts, consoles,
                 outcome, byHotkey>>

ServiceStarted ==
  /\ Undisturbed
  /\ phase = "starting" /\ todo = <<>>
  /\ HookConsoles
  /\ stopEvents' = stopEvents + 1
  /\ phase' = "idle"
  /\ UNCHANGED <<store, continueKey, todo, starts, consoles, outcome,
                 byHotkey>>

(* BmTxtInExCallback: a keyboard arrives.                                  *)
NewConsole(c) ==
  /\ Undisturbed
  /\ c \notin consoles
  /\ consoles' = consoles \union {c}
  /\ IF hooked THEN Register(list, {c}) ELSE UNCHANGED registered
  /\ UNCHANGED <<store, service, list, outcome, boot>>

----------------------------------------------------------------------------
(* A key is pressed. *)

Advanced_KeepsWaiting(h, stroke) ==
  IF Matches(stroke, h.strokes[h.waiting + 1])
  THEN [h EXCEPT !.waiting = (h.waiting + 1) % Len(h.strokes)]
  ELSE h

(* One stroke further, or back to the beginning of the sequence.           *)
Advanced(h, stroke) ==
  IF Matches(stroke, h.strokes[h.waiting + 1])
  THEN [h EXCEPT !.waiting = (h.waiting + 1) % Len(h.strokes)]
  ELSE [h EXCEPT !.waiting = 0]

Completes(h, stroke) ==
  /\ Matches(stroke, h.strokes[h.waiting + 1])
  /\ h.waiting + 1 = Len(h.strokes)

(* Of several hot keys that complete at once the last one decides, even if *)
(* its boot option has gone.                                               *)
Chosen(completed) ==
  LET booting == {i \in completed : ~list[i].continues}
      number  == list[Max(booting)].boot
  IN  IF booting = {} THEN pending
      ELSE IF bootVar[number] = Missing THEN None
      ELSE [boot |-> number, content |-> bootVar[number]]

(* BmHotkeyCallback with the lock: each hot key is one stroke further.     *)
Advance(stroke) ==
  LET completed == {i \in DOMAIN list : Completes(list[i], stroke)}
  IN  /\ list' = [i \in DOMAIN list |-> Advanced(list[i], stroke)]
      /\ triggered' = (triggered \/ completed # {})
      /\ pending' = Chosen(completed)
      /\ recent' = LET all    == Append(recent, stroke)
                       wanted == Max({0} \union {h.waiting : h \in ToSet(list')})
                   IN  SubSeq(all, Len(all) - Min({wanted, Len(all)}) + 1, Len(all))
      /\ UNCHANGED <<store, registered, service, consoles, boot>>

Heard_Unchecked(c, stroke) ==
  /\ c \in consoles \ {n.console : n \in ToSet(noticed)}
  /\ \E r \in registered[c] : Matches(stroke, r)

(* A console calls BmHotkeyCallback for a stroke it has registered.  While *)
(* an option is chosen or booted the stroke is ignored.                    *)
Heard(c, stroke) ==
  /\ pending = None
  /\ c \in consoles \ {n.console : n \in ToSet(noticed)}
  /\ \E r \in registered[c] : Matches(stroke, r)

Press(c, stroke) == Heard(c, stroke) /\ Advance(stroke) /\ UNCHANGED noticed

(* Another console's callback comes between the test and the lock ...      *)
Notice(c, stroke) ==
  /\ \E d \in consoles \ {c} : d \notin {n.console : n \in ToSet(noticed)}
  /\ Heard(c, stroke)
  /\ noticed' = Append(noticed, [console |-> c, stroke |-> stroke])
  /\ UNCHANGED <<store, keyboard, service, consoles, outcome, boot>>

(* ... and the test is not repeated, should an option be chosen by now.    *)
Resume(stroke) ==
  /\ noticed # <<>> /\ Last(noticed).stroke = stroke
  /\ Advance(stroke)
  /\ noticed' = Front(noticed)

----------------------------------------------------------------------------
(* Boots. *)

(* The boot manager, waiting for a hot key or a timeout, wakes up.         *)
Wake ==
  /\ Undisturbed
  /\ phase = "idle" /\ triggered
  /\ triggered' = FALSE
  /\ UNCHANGED <<store, keyboard, service, consoles, pending, recent, boot>>

(* EfiBootManagerHotkeyBoot, or a boot for another reason.                 *)
Boot ==
  /\ Undisturbed
  /\ phase = "idle"
  /\ phase' = "boot"
  /\ byHotkey' \in {FALSE, pending # None}
  /\ UNCHANGED <<store, keyboard, service, consoles, outcome>>

(* EfiBootManagerBoot signals ReadyToBoot, or stops the service itself if  *)
(* the option is the boot manager menu.                                    *)
ReadyToBoot ==
  /\ Undisturbed
  /\ phase = "boot"
  /\ phase' = "image"
  /\ \/ StopService /\ UNCHANGED stopEvents
     \/ stopEvents > 0 /\ StopService /\ stopEvents' = 0
     \/ stopEvents = 0 /\ UNCHANGED <<keyboard, stopEvents>>
  /\ UNCHANGED <<store, continueKey, started, hooked, todo, starts, consoles,
                 outcome, byHotkey>>

(* The boot is over, or ended before ReadyToBoot.                          *)
BootReturns ==
  /\ Undisturbed
  /\ phase \in {"boot", "image"}
  /\ phase' = "idle" /\ byHotkey' = FALSE
  /\ pending' = IF byHotkey THEN None ELSE pending
  /\ UNCHANGED <<store, keyboard, service, consoles, triggered, recent>>

(* Other code rewrites or deletes a boot option.                           *)
ChangeBootOption(b) ==
  /\ Undisturbed
  /\ phase \in {"idle", "image"}
  /\ \E v \in Contents \union {Missing} : bootVar' = [bootVar EXCEPT ![b] = v]
  /\ UNCHANGED <<options, service, keyboard, consoles, outcome, boot>>

Next ==
  \/ \E code \in Codes : \/ \E b \in Boots : AddKeyOption(code, b)
                         \/ DeleteKeyOption(code)
                         \/ RegisterContinueKey(code)
  \/ StartService \/ ProcessNext \/ ServiceStarted
  \/ \E c \in Consoles : NewConsole(c)
                          \/ \E s \in Strokes : Press(c, s) \/ Notice(c, s)
  \/ \E s \in Strokes : Resume(s)
  \/ Wake \/ Boot \/ ReadyToBoot \/ BootReturns
  \/ \E b \in Boots : ChangeBootOption(b)

Spec == Init /\ [][Next]_vars
----------------------------------------------------------------------------
(* Properties. *)

(* The strokes last processed are those of the hot key.                    *)
Typed(h, strokes) ==
  /\ Len(strokes) >= Len(h.strokes)
  /\ \A j \in DOMAIN h.strokes :
       Matches(strokes[Len(strokes) - Len(h.strokes) + j], h.strokes[j])

(* An option is chosen only by its own hot key: one of the list whose      *)
(* whole sequence makes up the last strokes the callback has processed,    *)
(* from whichever keyboards, and never while a chosen option still boots.  *)
(* Strokes that no console has registered never reach the callback: they   *)
(* do not come between.                                                    *)
BootsWhatWasTyped ==
  [][pending' \notin {pending, None} =>
       /\ ~byHotkey
       /\ \E s \in Strokes, h \in ToSet(list) :
            /\ ~h.continues /\ h.boot = pending'.boot
            /\ Typed(h, Append(recent, s))
            /\ (\E c \in Consoles : Press(c, s)) \/ Resume(s)]_vars

(* While an image runs, no hot key listens any more, except one that was   *)
(* added after an earlier boot had stopped the service for good.           *)
StoppedWhileBooting ==
  phase = "image" => \A h \in ToSet(list) : h.late

(* Defining a key never costs another valid key option its variable,       *)
(* whatever gaps deletions and outdated options left in the numbering.     *)
ValidOptionsSurvive ==
  [][\A n \in ValidNumbers : options'[n] \in {options[n], None}]_vars
=============================================================================
