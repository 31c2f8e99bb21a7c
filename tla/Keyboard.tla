------------------------------ MODULE Keyboard ------------------------------
(***************************************************************************)
(* UInputProfileManager and its EIORemoteKeyboard: the buttons of remotes  *)
(* as keys of one virtual keyboard, and as commands.  A profile (an ini    *)
(* file) has groups of key actions and a list of commands.  The slots that *)
(* hear of buttons, the loading and the unloading of a profile run on one  *)
(* thread, one report to the event device at a time, and any report may    *)
(* fail.  The mice of a profile are the module InfraredMouse.              *)
(*                                                                         *)
(* m_keyboards never has two entries, as every group frees the one before. *)
(* Actions without buttons or keys are dropped when a profile is read, so  *)
(* a profile has none here.                                                *)
(***************************************************************************)
EXTENDS Integers, Sequences

CONSTANTS Ids,         \* numbers of remotes
          FirstId,     \* 1, for which the constructor invents a mask
          Buttons,     \* buttons of a remote
          Keys,        \* keys of the virtual keyboard
          Wheels,      \* "keys" above keyboardExt: turns of the mouse wheel
          Profiles,    \* paths of profiles
          Groups,      \* [Profiles -> sequences of keyboard groups]
          Commands     \* [Profiles -> sequences of commands]

Masks == SUBSET Buttons

\* QHash<u32, u64>: what is known, or asked, of some of the remotes.
Hashes == UNION {[ids -> Masks] : ids \in SUBSET Ids}
Empty == [id \in {} |-> {}]

KeyboardActions ==
    [event : Hashes \ {Empty}, keys : Seq(Keys \cup Wheels) \ {<<>>}]
CommandActions ==
    [event : Hashes \ {Empty}, alghoritm : {"bit", "equal", "notequal"},
     does : {"exec", "wheel", "rumble"}]

ASSUME IdsAssumption == FirstId \in Ids
ASSUME KeysAssumption == Keys \cap Wheels = {}
ASSUME GroupsAssumption == Groups \in [Profiles -> Seq(Seq(KeyboardActions))]
ASSUME CommandsAssumption == Commands \in [Profiles -> Seq(CommandActions)]

VARIABLES
    created,      \* m_isCreated of m_eventDevice
    down,         \* the keys that are down on the event device
    keyboard,     \* keyboardActions of the one in m_keyboards, or <<>>
    buttons,      \* its masks
    pushed,       \* whether an action of it is pushed
    commands,     \* commandActions
    actived,      \* whether one of them is active
    lastButtons,  \* lastWiiremoteButtons
    pc,           \* what the thread does
    profile,      \* the profile that is loaded,
    group,        \*    and its next group
    i, j,         \* the action and its key that are next
    ran,          \* history: the commands the last signal has run,
    seen, before  \*    the masks they are compared with, and those before

device == <<created, down>>
keys == <<keyboard, buttons, pushed>>
history == <<ran, seen, before>>
cmds == <<commands, actived, lastButtons, history>>
loading == <<profile, group>>
vars == <<device, keys, cmds, loading, pc, i, j>>

TypeOK ==
    /\ created \in BOOLEAN
    /\ down \subseteq Keys
    /\ keyboard \in Seq(KeyboardActions)
    /\ buttons \in Hashes
    /\ pushed \in [DOMAIN keyboard -> BOOLEAN]
    /\ commands \in Seq(CommandActions)
    /\ actived \in [DOMAIN commands -> BOOLEAN]
    /\ lastButtons \in Hashes
    /\ pc \in {"idle", "keys", "commands", "load", "replace", "unload"}
    /\ profile \in Profiles
    /\ group \in Nat
    /\ i \in Nat \ {0}
    /\ j \in Nat
    /\ ran \subseteq DOMAIN commands
    /\ seen \in Hashes
    /\ before \in Hashes

With(hash, id, mask) ==
    [x \in DOMAIN hash \cup {id} |-> IF x = id THEN mask ELSE hash[x]]
Value(hash, id) == IF id \in DOMAIN hash THEN hash[id] ELSE {}
Changes(hash, id, mask) == id \in DOMAIN hash => hash[id] # mask

\* HashCompare::compare
Compare(first, second, style) ==
    /\ first # Empty
    /\ second # Empty
    /\ \A id \in DOMAIN first :
         CASE style = "bit" -> first[id] \subseteq Value(second, id)
           [] style = "equal" -> first[id] = Value(second, id)
           [] style = "notequal" -> first[id] # Value(second, id)

\* The constructor; its signal for the first remote finds no commands.
Init ==
    /\ created \in BOOLEAN
    /\ down = {}
    /\ keyboard = <<>>
    /\ buttons = Empty
    /\ pushed = <<>>
    /\ commands = <<>>
    /\ actived = <<>>
    /\ lastButtons = With(Empty, FirstId, {})
    /\ pc = "idle"
    /\ profile \in Profiles
    /\ group = 1
    /\ i = 1
    /\ j = 0
    /\ ran = {}
    /\ seen = Empty
    /\ before = Empty

-----------------------------------------------------------------------------
(* The event device.                                                       *)

\* report with triggerSync: the event and its SYN_REPORT, either of which
\* may fail; the device then counts as not created, and hears nothing more.
Report(new) ==
    \/ ~created /\ UNCHANGED device
    \/ created /\ created' = FALSE /\ down' \in {down, new}
    \/ created /\ UNCHANGED created /\ down' = new

\* pressKeyboardButtons that takes a wheel for a key.
PressAnyKey(k) == Report(down \cup {k})

\* pressKeyboardButtons for one key: a wheel turns and stays as it is.
PressKey(k) == Report(IF k \in Keys THEN down \cup {k} ELSE down)

\* releaseKeyboardButtons for one key: a wheel hears nothing.
ReleaseKey(k) == IF k \in Keys THEN Report(down \ {k}) ELSE UNCHANGED device

-----------------------------------------------------------------------------
(* The keyboard.                                                           *)

\* EIORemoteKeyboard::dbusWiimoteGeneralButtons
KeyboardButtons(id, mask) ==
    /\ pc = "idle"
    /\ keyboard # <<>>
    /\ Changes(buttons, id, mask)
    /\ buttons' = With(buttons, id, mask)
    /\ pc' = "keys"
    /\ i' = 1
    /\ j' = 0
    /\ UNCHANGED <<device, keyboard, pushed, cmds, loading>>

\* The loop over the actions; compareType is never set to anything else.
KeyboardAction ==
    /\ pc = "keys"
    /\ j = 0
    /\ i \in DOMAIN keyboard
    /\ LET matched == Compare(keyboard[i].event, buttons, "bit")
       IN  /\ pushed' = [pushed EXCEPT ![i] = matched]
           /\ IF matched = pushed[i] THEN i' = i + 1 /\ UNCHANGED j
              ELSE j' = 1 /\ UNCHANGED i
    /\ UNCHANGED <<device, keyboard, buttons, cmds, loading, pc>>

\* The key after the one at j, or the next action.
NextKey(first) ==
    IF j < Len(keyboard[i].keys) THEN j' = j + 1 /\ UNCHANGED i
    ELSE i' = i + 1 /\ j' = first

\* pressKeyboardButtons and releaseKeyboardButtons
WriteKey ==
    /\ pc = "keys"
    /\ i \in DOMAIN keyboard
    /\ j \in DOMAIN keyboard[i].keys
    /\ IF pushed[i] THEN PressKey(keyboard[i].keys[j])
       ELSE ReleaseKey(keyboard[i].keys[j])
    /\ NextKey(0)
    /\ UNCHANGED <<keys, cmds, loading, pc>>

KeyboardDone ==
    /\ pc = "keys"
    /\ i \notin DOMAIN keyboard
    /\ pc' = "idle"
    /\ i' = 1
    /\ j' = 0
    /\ UNCHANGED <<device, keys, cmds, loading>>

\* A destructor that only forgets its actions, as clearKeyboardActions does.
ForgetKey ==
    /\ pc \in {"replace", "unload"}
    /\ i \in DOMAIN keyboard
    /\ NextKey(1)
    /\ UNCHANGED <<device, keys, cmds, loading, pc>>

\* ~EIORemoteKeyboard: all keys of all actions, pushed or not.
FreeKey ==
    /\ pc \in {"replace", "unload"}
    /\ i \in DOMAIN keyboard
    /\ ReleaseKey(keyboard[i].keys[j])
    /\ NextKey(1)
    /\ UNCHANGED <<keys, cmds, loading, pc>>

-----------------------------------------------------------------------------
(* Commands.                                                               *)

\* UInputProfileManager::dbusWiimoteGeneralButtons
ManagerButtons(id, mask) ==
    /\ pc = "idle"
    /\ Changes(lastButtons, id, mask)
    /\ lastButtons' = With(lastButtons, id, mask)
    /\ IF commands = <<>> THEN UNCHANGED <<pc, i, history>>
       ELSE /\ pc' = "commands"
            /\ i' = 1
            /\ ran' = {}
            /\ seen' = lastButtons'
            /\ before' = seen
    /\ UNCHANGED <<device, keys, commands, actived, loading, j>>

\* One round of processCommandEvents that runs a command when it ends.
CommandOnEnd ==
    /\ pc = "commands"
    /\ i \in DOMAIN commands
    /\ LET matched == Compare(commands[i].event, lastButtons, commands[i].alghoritm)
           runs    == ~matched /\ actived[i]
       IN  /\ actived' = [actived EXCEPT ![i] = matched]
           /\ ran' = IF runs THEN ran \cup {i} ELSE ran
           /\ IF runs /\ commands[i].does = "wheel" THEN Report(down)
              ELSE UNCHANGED device
    /\ i' = i + 1
    /\ UNCHANGED <<keys, commands, lastButtons, seen, before, loading, pc, j>>

\* One round of processCommandEvents, with activeCommandEvent: a request to
\* execute, a wheel that turns, or nothing for rumble; deactiveCommandEvent
\* does nothing.
Command ==
    /\ pc = "commands"
    /\ i \in DOMAIN commands
    /\ LET matched == Compare(commands[i].event, lastButtons, commands[i].alghoritm)
           runs    == matched /\ ~actived[i]
       IN  /\ actived' = [actived EXCEPT ![i] = matched]
           /\ ran' = IF runs THEN ran \cup {i} ELSE ran
           /\ IF runs /\ commands[i].does = "wheel" THEN Report(down)
              ELSE UNCHANGED device
    /\ i' = i + 1
    /\ UNCHANGED <<keys, commands, lastButtons, seen, before, loading, pc, j>>

CommandsDone ==
    /\ pc = "commands"
    /\ i \notin DOMAIN commands
    /\ pc' = "idle"
    /\ i' = 1
    /\ j' = 0
    /\ UNCHANGED <<device, keys, cmds, loading>>

NewCommands(s) ==
    /\ commands' = s
    /\ actived' = [c \in DOMAIN s |-> FALSE]
    /\ ran' = {}
    /\ seen' = Empty
    /\ before' = Empty
    /\ UNCHANGED lastButtons

-----------------------------------------------------------------------------
(* Profiles.                                                               *)

NewKeyboard(actions) ==
    /\ keyboard' = actions
    /\ buttons' = Empty
    /\ pushed' = [a \in DOMAIN actions |-> FALSE]

\* loadProfile for a file that exists.  Nothing is unloaded first.
Load(p) ==
    /\ pc = "idle"
    /\ profile' = p
    /\ group' = 1
    /\ pc' = "load"
    /\ UNCHANGED <<device, keys, cmds, i, j>>

\* assignKeyboardEvents: freeKeyboardEvents
LoadGroup ==
    /\ pc = "load"
    /\ group \in DOMAIN Groups[profile]
    /\ pc' = "replace"
    /\ i' = 1
    /\ j' = 1
    /\ UNCHANGED <<device, keys, cmds, loading>>

\* assignKeyboardEvents: the new keyboard
AssignKeyboardEvents ==
    /\ pc = "replace"
    /\ i \notin DOMAIN keyboard
    /\ NewKeyboard(Groups[profile][group])
    /\ group' = group + 1
    /\ pc' = "load"
    /\ i' = 1
    /\ j' = 0
    /\ UNCHANGED <<device, cmds, profile>>

\* loadCommandEvents; what is held is not looked at before the next change.
LoadCommandEvents ==
    /\ pc = "load"
    /\ group \notin DOMAIN Groups[profile]
    /\ NewCommands(Commands[profile])
    /\ pc' = "idle"
    /\ UNCHANGED <<device, keys, loading, i, j>>

\* unloadProfile: unloadCommandEvents, and m_keyboards.clear()
Unload ==
    /\ pc = "idle"
    /\ NewCommands(<<>>)
    /\ pc' = "unload"
    /\ i' = 1
    /\ j' = 1
    /\ UNCHANGED <<device, keys, loading>>

UnloadDone ==
    /\ pc = "unload"
    /\ i \notin DOMAIN keyboard
    /\ NewKeyboard(<<>>)
    /\ pc' = "idle"
    /\ i' = 1
    /\ j' = 0
    /\ UNCHANGED <<device, cmds, loading>>

Slot ==
    \E id \in Ids, mask \in Masks : KeyboardButtons(id, mask) \/ ManagerButtons(id, mask)

Next ==
    \/ Slot
    \/ KeyboardAction \/ WriteKey \/ KeyboardDone \/ FreeKey
    \/ Command \/ CommandsDone
    \/ \E p \in Profiles : Load(p)
    \/ LoadGroup \/ AssignKeyboardEvents \/ LoadCommandEvents
    \/ Unload \/ UnloadDone

Spec == Init /\ [][Next]_vars

-----------------------------------------------------------------------------
Has(a, k) == \E n \in DOMAIN keyboard[a].keys : keyboard[a].keys[n] = k
Held(a) ==
    LET event == keyboard[a].event
    IN  /\ buttons # Empty
        /\ \A id \in DOMAIN event : event[id] \subseteq Value(buttons, id)

\* No key is left down: between two slots, whatever was loaded, replaced or
\* unloaded with buttons pressed, a key that is down belongs to an action
\* whose buttons are held, and a key that no other action shares is down
\* whenever they are.  (Of two actions that share a key, the one that ends
\* first releases it.)  After a failed write nobody can say.
KeysFollowButtons ==
    pc = "idle" /\ created =>
        \A k \in Keys :
            /\ k \in down => \E a \in DOMAIN keyboard : Has(a, k) /\ Held(a)
            /\ \A a \in DOMAIN keyboard :
                  /\ Has(a, k) /\ Held(a)
                  /\ \A b \in DOMAIN keyboard \ {a} : ~Has(b, k)
                  => k \in down

\* A signal runs exactly the commands whose condition it makes true; of new
\* commands those that are true when the first mask changes, also when they
\* were before.  No command is run twice in a row or is missed.
CommandsRunOnRise ==
    pc = "idle" =>
        ran = {c \in DOMAIN commands :
                 LET e == commands[c].event
                     s == commands[c].alghoritm
                 IN  Compare(e, seen, s) /\ ~Compare(e, before, s)}
=============================================================================
