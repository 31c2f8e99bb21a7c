--------------------------- MODULE Keyboard_proofs ---------------------------
(***************************************************************************)
(* Theorems about Keyboard, for any number of remotes, buttons, keys and   *)
(* profiles: no key is left down, and commands run when they become true.  *)
(***************************************************************************)
EXTENDS Keyboard, SequenceTheorems, TLAPS

Freeing == pc \in {"replace", "unload"}
Settled == pc \in {"idle", "commands", "load"}

\* An occurrence of k among the keys of a, from the n-th or before it.
From(a, k, n) == \E o \in DOMAIN keyboard[a].keys : o >= n /\ keyboard[a].keys[o] = k
UpTo(a, k, n) == \E o \in DOMAIN keyboard[a].keys : o < n /\ keyboard[a].keys[o] = k

\* Where the loops stand.
Position ==
    /\ pc = "keys" /\ j # 0 => i \in DOMAIN keyboard /\ j \in DOMAIN keyboard[i].keys
    /\ Freeing => j # 0 /\ (i \in DOMAIN keyboard => j \in DOMAIN keyboard[i].keys)
    /\ pc = "replace" => group \in DOMAIN Groups[profile]
    /\ group # 0

\* The loop over the actions has settled those before i, and i itself once
\* it has come to its keys.
Processed(a) == Settled \/ (pc = "keys" /\ (a < i \/ (a = i /\ j # 0)))
PushedIsHeld ==
    \A a \in DOMAIN keyboard : Processed(a) => (pushed[a] <=> Held(a))

\* Why k may be down: an action is pushed, or is about to release it.
Supports(a, k) ==
    \/ ~Freeing /\ pushed[a] /\ Has(a, k)
    \/ pc = "keys" /\ a = i /\ j # 0 /\ ~pushed[a] /\ From(a, k, j)
    \/ Freeing /\ a > i /\ Has(a, k)
    \/ Freeing /\ a = i /\ From(a, k, j)
NoKeyStuck ==
    created => \A k \in down : \E a \in DOMAIN keyboard : Supports(a, k)

\* When the only action of k must have it down.
Alone(a, k) == Has(a, k) /\ \A b \in DOMAIN keyboard \ {a} : ~Has(b, k)
Pressed(a, k) ==
    Settled \/ (pc = "keys" /\ (a # i \/ j = 0 \/ UpTo(a, k, j)))
HeldIsDown ==
    created => \A a \in DOMAIN keyboard, k \in Keys :
        Alone(a, k) /\ pushed[a] /\ Pressed(a, k) => k \in down

KeysInv == Position /\ PushedIsHeld /\ NoKeyStuck /\ HeldIsDown

\* Commands before i are compared with the new masks, the others not yet.
Matches(c, hash) == Compare(commands[c].event, hash, commands[c].alghoritm)
Looked(c) == pc = "commands" => c < i
CommandsInv ==
    /\ pc = "commands" => seen = lastButtons
    /\ \A c \in DOMAIN commands :
          /\ Looked(c) => (actived[c] <=> Matches(c, seen))
          /\ ~Looked(c) => (actived[c] <=> Matches(c, before))
          /\ c \in ran <=> Looked(c) /\ Matches(c, seen) /\ ~Matches(c, before)

-----------------------------------------------------------------------------
(* Types.                                                                  *)

LEMMA WithIsHash ==
    ASSUME NEW hash \in Hashes, NEW id \in Ids, NEW mask \in Masks
    PROVE  With(hash, id, mask) \in Hashes
<1>1. PICK ids \in SUBSET Ids : hash \in [ids -> Masks]
  BY DEF Hashes
<1>2. With(hash, id, mask) \in [ids \cup {id} -> Masks]
  BY <1>1 DEF With
<1>3. ids \cup {id} \in SUBSET Ids
  OBVIOUS
<1> QED  BY <1>2, <1>3 DEF Hashes

LEMMA EmptyIsHash == Empty \in Hashes
BY DEF Empty, Hashes

LEMMA GroupIsKeyboard ==
    ASSUME NEW p \in Profiles, NEW g \in DOMAIN Groups[p]
    PROVE  Groups[p][g] \in Seq(KeyboardActions)
BY GroupsAssumption

\* What one report leaves on the device.
LEMMA ReportTypes ==
    ASSUME created \in BOOLEAN, down \subseteq Keys, NEW new \in SUBSET Keys, Report(new)
    PROVE  created' \in BOOLEAN /\ down' \subseteq Keys
BY DEF Report, device

LEMMA PressTypes ==
    ASSUME created \in BOOLEAN, down \subseteq Keys, NEW k, PressKey(k)
    PROVE  created' \in BOOLEAN /\ down' \subseteq Keys
<1>1. (IF k \in Keys THEN down \cup {k} ELSE down) \in SUBSET Keys
  OBVIOUS
<1> QED  BY <1>1, ReportTypes DEF PressKey

LEMMA ReleaseTypes ==
    ASSUME created \in BOOLEAN, down \subseteq Keys, NEW k, ReleaseKey(k)
    PROVE  created' \in BOOLEAN /\ down' \subseteq Keys
<1>1. CASE k \in Keys
  BY <1>1, ReportTypes DEF ReleaseKey
<1>2. CASE k \notin Keys
  BY <1>2 DEF ReleaseKey, device
<1> QED  BY <1>1, <1>2

LEMMA TypeStep == ASSUME TypeOK, Position, [Next]_vars PROVE TypeOK'
<1> USE DEF TypeOK
<1>1. ASSUME NEW id \in Ids, NEW mask \in Masks, KeyboardButtons(id, mask) PROVE TypeOK'
  <2>1. buttons' \in Hashes
    BY <1>1, WithIsHash DEF KeyboardButtons
  <2> QED  BY <1>1, <2>1 DEF KeyboardButtons, device, cmds, loading, history
<1>2. ASSUME NEW id \in Ids, NEW mask \in Masks, ManagerButtons(id, mask) PROVE TypeOK'
  <2>1. lastButtons' \in Hashes
    BY <1>2, WithIsHash DEF ManagerButtons
  <2>2. CASE commands = <<>>
    BY <1>2, <2>1, <2>2 DEF ManagerButtons, device, keys, loading, history
  <2>3. CASE commands # <<>>
    BY <1>2, <2>1, <2>3 DEF ManagerButtons, device, keys, loading, history
  <2> QED  BY <2>2, <2>3
<1>3. ASSUME KeyboardAction PROVE TypeOK'
  <2> DEFINE matched == Compare(keyboard[i].event, buttons, "bit")
  <2>1. matched \in BOOLEAN
    BY DEF Compare
  <2>2. pushed' = [pushed EXCEPT ![i] = matched]
    BY <1>3 DEF KeyboardAction
  <2> HIDE DEF matched
  <2>3. pushed' \in [DOMAIN keyboard -> BOOLEAN]
    BY <2>1, <2>2
  <2>4. i' \in Nat \ {0} /\ j' \in Nat
    BY <1>3 DEF KeyboardAction
  <2> QED  BY <1>3, <2>3, <2>4 DEF KeyboardAction, device, cmds, loading, history
<1>4. ASSUME WriteKey PROVE TypeOK'
  <2>1. created' \in BOOLEAN /\ down' \subseteq Keys
    BY <1>4, PressTypes, ReleaseTypes DEF WriteKey
  <2>2. i' \in Nat \ {0} /\ j' \in Nat
    BY <1>4 DEF WriteKey, NextKey
  <2> QED  BY <1>4, <2>1, <2>2 DEF WriteKey, keys, cmds, loading, history
<1>5. ASSUME KeyboardDone PROVE TypeOK'
  BY <1>5 DEF KeyboardDone, device, keys, cmds, loading, history
<1>6. ASSUME FreeKey PROVE TypeOK'
  <2>1. created' \in BOOLEAN /\ down' \subseteq Keys
    BY <1>6, ReleaseTypes DEF FreeKey
  <2>2. i' \in Nat \ {0} /\ j' \in Nat
    BY <1>6 DEF FreeKey, NextKey
  <2> QED  BY <1>6, <2>1, <2>2 DEF FreeKey, keys, cmds, loading, history
<1>7. ASSUME Command PROVE TypeOK'
  <2> DEFINE matched == Compare(commands[i].event, lastButtons, commands[i].alghoritm)
             runs == matched /\ ~actived[i]
  <2>1. /\ actived' = [actived EXCEPT ![i] = matched]
        /\ ran' = IF runs THEN ran \cup {i} ELSE ran
        /\ Report(down) \/ UNCHANGED device
    BY <1>7 DEF Command
  <2>2. matched \in BOOLEAN
    BY DEF Compare
  <2> HIDE DEF matched, runs
  <2>3. actived' \in [DOMAIN commands -> BOOLEAN]
    BY <2>1, <2>2
  <2>4. ran' \subseteq DOMAIN commands /\ i' \in Nat \ {0}
    BY <1>7, <2>1 DEF Command
  <2>5. created' \in BOOLEAN /\ down' \subseteq Keys
    BY <2>1, ReportTypes DEF device
  <2> QED  BY <1>7, <2>3, <2>4, <2>5 DEF Command, keys, loading
<1>8. ASSUME CommandsDone PROVE TypeOK'
  BY <1>8 DEF CommandsDone, device, keys, cmds, loading, history
<1>9. ASSUME NEW p \in Profiles, Load(p) PROVE TypeOK'
  BY <1>9 DEF Load, device, keys, cmds, history
<1>10. ASSUME LoadGroup PROVE TypeOK'
  BY <1>10 DEF LoadGroup, device, keys, cmds, loading, history
<1>11. ASSUME AssignKeyboardEvents PROVE TypeOK'
  <2>1. Groups[profile][group] \in Seq(KeyboardActions)
    BY <1>11, GroupIsKeyboard DEF AssignKeyboardEvents, Position
  <2>2. keyboard' \in Seq(KeyboardActions) /\ pushed' \in [DOMAIN keyboard' -> BOOLEAN]
    BY <1>11, <2>1 DEF AssignKeyboardEvents, NewKeyboard
  <2>3. buttons' \in Hashes
    BY <1>11, EmptyIsHash DEF AssignKeyboardEvents, NewKeyboard
  <2> QED  BY <1>11, <2>2, <2>3 DEF AssignKeyboardEvents, device, cmds, history
<1>12. ASSUME NEW s \in Seq(CommandActions), NewCommands(s)
       PROVE  /\ commands' \in Seq(CommandActions)
              /\ actived' \in [DOMAIN commands' -> BOOLEAN]
              /\ ran' \subseteq DOMAIN commands'
              /\ seen' \in Hashes /\ before' \in Hashes /\ lastButtons' \in Hashes
  BY <1>12, EmptyIsHash DEF NewCommands
<1>13. ASSUME LoadCommandEvents PROVE TypeOK'
  <2>1. Commands[profile] \in Seq(CommandActions)
    BY CommandsAssumption
  <2> QED  BY <1>12, <1>13, <2>1 DEF LoadCommandEvents, device, keys, loading
<1>14. ASSUME Unload PROVE TypeOK'
  <2>1. <<>> \in Seq(CommandActions) /\ NewCommands(<<>>)
    BY <1>14 DEF Unload
  <2>2. /\ commands' \in Seq(CommandActions)
        /\ actived' \in [DOMAIN commands' -> BOOLEAN]
        /\ ran' \subseteq DOMAIN commands'
        /\ seen' \in Hashes /\ before' \in Hashes /\ lastButtons' \in Hashes
    BY <1>12, <2>1, Zenon
  <2> QED  BY <1>14, <2>2 DEF Unload, device, keys, loading
<1>15. ASSUME UnloadDone PROVE TypeOK'
  <2>1. keyboard' \in Seq(KeyboardActions) /\ pushed' \in [DOMAIN keyboard' -> BOOLEAN]
    BY <1>15 DEF UnloadDone, NewKeyboard
  <2>2. buttons' \in Hashes
    BY <1>15, EmptyIsHash DEF UnloadDone, NewKeyboard
  <2> QED  BY <1>15, <2>1, <2>2 DEF UnloadDone, device, cmds, loading, history
<1>16. ASSUME UNCHANGED vars PROVE TypeOK'
  BY <1>16 DEF vars, device, keys, cmds, loading, history
<1> QED
  BY <1>1, <1>2, <1>3, <1>4, <1>5, <1>6, <1>7, <1>8, <1>9, <1>10, <1>11, <1>13, <1>14,
     <1>15, <1>16 DEF Next, Slot

-----------------------------------------------------------------------------
(* Keys.                                                                   *)

\* A report that succeeds leaves what was asked for, and only then is the
\* device still created.
LEMMA ReportSucceeds ==
    ASSUME NEW new, Report(new), created'
    PROVE  created /\ down' = new
BY DEF Report, device

LEMMA ActionTypes ==
    ASSUME TypeOK, NEW a \in DOMAIN keyboard
    PROVE  /\ keyboard[a].event # Empty
           /\ keyboard[a].keys \in Seq(Keys \cup Wheels) /\ keyboard[a].keys # <<>>
<1> DEFINE action == keyboard[a]
<1>1. action \in KeyboardActions
  BY DEF TypeOK
<1> HIDE DEF action
<1>2. action.event # Empty /\ action.keys \in Seq(Keys \cup Wheels) /\ action.keys # <<>>
  BY <1>1 DEF KeyboardActions
<1> QED  BY <1>2 DEF action

LEMMA CompareIsHeld ==
    ASSUME TypeOK, NEW a \in DOMAIN keyboard
    PROVE  Compare(keyboard[a].event, buttons, "bit") <=> Held(a)
<1>1. keyboard[a].event # Empty
  BY ActionTypes
<1> QED  BY <1>1 DEF Compare, Held

\* While no loop over the keyboard runs, only its own state matters.
LEMMA KeysKept ==
    ASSUME KeysInv, Settled, Settled', UNCHANGED keys, created' => created /\ down' = down,
           group' # 0
    PROVE  KeysInv'
<1> USE DEF KeysInv, keys
<1>1. ~Freeing' /\ pc' # "keys" /\ pc' # "replace" /\ ~Freeing /\ pc # "keys"
  BY DEF Settled, Freeing
<1>2. \A a, k : (Has(a, k)' <=> Has(a, k)) /\ (Held(a)' <=> Held(a))
  BY DEF Has, Held
<1>3. Position'
  BY <1>1 DEF Position
<1>4. PushedIsHeld'
  BY <1>2 DEF PushedIsHeld, Processed
<1>5. NoKeyStuck'
  BY <1>1, <1>2 DEF NoKeyStuck, Supports
<1>6. HeldIsDown'
  BY <1>1, <1>2 DEF HeldIsDown, Pressed, Alone
<1> QED  BY <1>3, <1>4, <1>5, <1>6

LEMMA KeyboardButtonsKeeps ==
    ASSUME TypeOK, KeysInv, NEW id \in Ids, NEW mask \in Masks, KeyboardButtons(id, mask)
    PROVE  KeysInv'
<1> USE DEF KeysInv
<1>1. /\ pc = "idle" /\ pc' = "keys" /\ i' = 1 /\ j' = 0
      /\ UNCHANGED <<keyboard, pushed, created, down, group>>
  BY DEF KeyboardButtons, device, loading
<1>2. \A a, k : Has(a, k)' <=> Has(a, k)
  BY <1>1 DEF Has
<1>3. Position'
  BY <1>1 DEF Position, Freeing
<1>4. PushedIsHeld'
  <2>1. \A a \in DOMAIN keyboard : ~(a < 1)
    BY DEF TypeOK
  <2> QED  BY <1>1, <2>1 DEF PushedIsHeld, Processed, Settled
<1>5. NoKeyStuck'
  BY <1>1, <1>2 DEF NoKeyStuck, Supports, Freeing
<1>6. HeldIsDown'
  BY <1>1, <1>2 DEF HeldIsDown, Pressed, Alone, Settled
<1> QED  BY <1>3, <1>4, <1>5, <1>6

LEMMA KeyboardActionKeeps ==
    ASSUME TypeOK, KeysInv, KeyboardAction
    PROVE  KeysInv'
<1> USE DEF KeysInv
<1>1. /\ pc = "keys" /\ pc' = "keys" /\ j = 0 /\ i \in DOMAIN keyboard
      /\ UNCHANGED <<keyboard, buttons, created, down, group>>
      /\ pushed \in [DOMAIN keyboard -> BOOLEAN] /\ i \in Nat
      /\ DOMAIN keyboard \subseteq Nat
  <2>1. pushed \in [DOMAIN keyboard -> BOOLEAN] /\ i \in Nat /\ DOMAIN keyboard \subseteq Nat
    BY DEF TypeOK
  <2>2. /\ pc = "keys" /\ pc' = "keys" /\ j = 0 /\ i \in DOMAIN keyboard
        /\ UNCHANGED <<keyboard, buttons, created, down, group>>
    BY DEF KeyboardAction, device, loading
  <2> QED  BY <2>1, <2>2
<1>2. /\ pushed' = [pushed EXCEPT ![i] = Held(i)]
      /\ IF Held(i) = pushed[i] THEN i' = i + 1 /\ j' = 0 ELSE j' = 1 /\ i' = i
  <2>1. Compare(keyboard[i].event, buttons, "bit") = Held(i)
    <3>1. Compare(keyboard[i].event, buttons, "bit") <=> Held(i)
      BY <1>1, CompareIsHeld
    <3>2. Compare(keyboard[i].event, buttons, "bit") \in BOOLEAN /\ Held(i) \in BOOLEAN
      BY DEF Compare, Held
    <3> QED  BY <3>1, <3>2
  <2> QED  BY <1>1, <2>1 DEF KeyboardAction
<1>3. \A a, k : (Has(a, k)' <=> Has(a, k)) /\ (Held(a)' <=> Held(a))
  BY <1>1 DEF Has, Held
<1>4. \A a \in DOMAIN keyboard : pushed'[a] = IF a = i THEN Held(i) ELSE pushed[a]
  BY <1>1, <1>2
<1>5. Held(i) \in BOOLEAN
  BY DEF Held
<1>6. keyboard[i].keys \in Seq(Keys \cup Wheels) /\ keyboard[i].keys # <<>>
  BY <1>1, ActionTypes
<1>7. Position'
  <2>1. 1 \in DOMAIN keyboard[i].keys
    BY <1>6
  <2> QED  BY <1>1, <1>2, <2>1 DEF Position, Freeing
<1>8. PushedIsHeld'
  <2> SUFFICES ASSUME NEW a \in DOMAIN keyboard, Processed(a)'
               PROVE  pushed'[a] <=> Held(a)
    BY <1>1, <1>3 DEF PushedIsHeld
  <2>1. CASE a = i
    BY <1>4, <2>1
  <2>2. CASE a # i
    <3>1. a < i
      BY <1>1, <1>2, <2>2 DEF Processed, Settled
    <3>2. Processed(a)
      BY <1>1, <3>1 DEF Processed
    <3> QED  BY <1>4, <2>2, <3>2 DEF PushedIsHeld
  <2> QED  BY <2>1, <2>2
<1>9. NoKeyStuck'
  <2> SUFFICES ASSUME created, NEW k \in down
               PROVE  \E a \in DOMAIN keyboard : Supports(a, k)'
    BY <1>1 DEF NoKeyStuck
  <2>1. PICK a \in DOMAIN keyboard : pushed[a] /\ Has(a, k)
    BY <1>1 DEF NoKeyStuck, Supports, Freeing
  <2>2. CASE pushed'[a]
    BY <1>1, <1>3, <2>1, <2>2 DEF Supports, Freeing
  <2>3. CASE ~pushed'[a]
    <3>1. a = i /\ ~Held(i) /\ j' = 1 /\ i' = i
      BY <1>1, <1>2, <1>4, <2>1, <2>3
    <3>2. From(a, k, 1)'
      BY <1>1, <1>6, <2>1, <3>1 DEF From, Has
    <3> QED  BY <1>1, <2>3, <3>1, <3>2 DEF Supports
  <2> QED  BY <2>2, <2>3
<1>10. HeldIsDown'
  <2> SUFFICES ASSUME created, NEW a \in DOMAIN keyboard, NEW k \in Keys,
                      Alone(a, k), pushed'[a], Pressed(a, k)'
               PROVE  k \in down
    BY <1>1, <1>3 DEF HeldIsDown, Alone
  <2>1. pushed[a] => k \in down
    BY <1>1 DEF HeldIsDown, Pressed
  <2>2. ASSUME ~pushed[a] PROVE FALSE
    <3>1. a = i /\ Held(i) /\ j' = 1 /\ i' = i
      BY <1>1, <1>2, <1>4, <2>2
    <3>2. UpTo(a, k, 1)'
      BY <1>1, <3>1 DEF Pressed, Settled
    <3> QED  BY <1>1, <1>6, <3>1, <3>2 DEF UpTo
  <2> QED  BY <2>1, <2>2
<1> QED  BY <1>7, <1>8, <1>9, <1>10

LEMMA WriteKeyKeeps ==
    ASSUME TypeOK, KeysInv, WriteKey
    PROVE  KeysInv'
<1> USE DEF KeysInv
<1>1. /\ pc = "keys" /\ pc' = "keys" /\ i \in DOMAIN keyboard
      /\ j \in DOMAIN keyboard[i].keys
      /\ UNCHANGED <<keyboard, buttons, pushed, group>>
      /\ pushed \in [DOMAIN keyboard -> BOOLEAN] /\ i \in Nat /\ j \in Nat
      /\ DOMAIN keyboard \subseteq Nat
  BY DEF WriteKey, keys, loading, TypeOK
<1>2. \A a, k : (Has(a, k)' <=> Has(a, k)) /\ (Held(a)' <=> Held(a))
  BY <1>1 DEF Has, Held
<1>3. keyboard[i].keys \in Seq(Keys \cup Wheels) /\ keyboard[i].keys # <<>>
  BY <1>1, ActionTypes
<1>4. j # 0
  BY <1>1, <1>3
<1>5. \/ j < Len(keyboard[i].keys) /\ j' = j + 1 /\ i' = i
      \/ j = Len(keyboard[i].keys) /\ j' = 0 /\ i' = i + 1
  BY <1>1, <1>3 DEF WriteKey, NextKey
<1> DEFINE key == keyboard[i].keys[j]
<1>6. ASSUME created'
      PROVE  /\ created
             /\ pushed[i] => down \subseteq down' /\ down' \subseteq down \cup {key}
                             /\ (key \in Keys => key \in down')
             /\ ~pushed[i] => down' = down \ {key}
  <2>1. CASE pushed[i]
    <3>1. PressKey(key)
      BY <2>1 DEF WriteKey
    <3> QED  BY <1>6, <2>1, <3>1, ReportSucceeds DEF PressKey
  <2>2. CASE ~pushed[i]
    <3>1. ReleaseKey(key)
      BY <2>2 DEF WriteKey
    <3>2. CASE key \in Keys
      BY <1>6, <2>2, <3>1, <3>2, ReportSucceeds DEF ReleaseKey
    <3>3. CASE key \notin Keys
      BY <1>6, <2>2, <3>1, <3>3 DEF ReleaseKey, device, TypeOK
    <3> QED  BY <3>2, <3>3
  <2> QED  BY <2>1, <2>2
<1>7. Position'
  BY <1>1, <1>3, <1>5 DEF Position, Freeing
<1>8. PushedIsHeld'
  <2> SUFFICES ASSUME NEW a \in DOMAIN keyboard, Processed(a)'
               PROVE  pushed[a] <=> Held(a)
    BY <1>1, <1>2 DEF PushedIsHeld
  <2>1. Processed(a)
    BY <1>1, <1>4, <1>5 DEF Processed, Settled
  <2> QED  BY <2>1 DEF PushedIsHeld
<1>9. NoKeyStuck'
  <2> SUFFICES ASSUME created', NEW k \in down'
               PROVE  \E a \in DOMAIN keyboard : Supports(a, k)'
    BY <1>1 DEF NoKeyStuck
  <2>1. CASE pushed[i] /\ k = key
    <3>1. Has(i, k)
      BY <1>1, <2>1 DEF Has
    <3> QED  BY <1>1, <1>2, <2>1, <3>1 DEF Supports, Freeing
  <2>2. CASE k \in down /\ (~pushed[i] => k # key)
    <3>1. PICK a \in DOMAIN keyboard : Supports(a, k)
      BY <1>6, <2>2 DEF NoKeyStuck
    <3>2. CASE pushed[a] /\ Has(a, k)
      BY <1>1, <1>2, <3>2 DEF Supports, Freeing
    <3>3. CASE a = i /\ ~pushed[a] /\ From(a, k, j)
      <4>1. PICK o \in DOMAIN keyboard[a].keys : o >= j /\ keyboard[a].keys[o] = k
        BY <3>3 DEF From
      <4>2. o # j
        BY <2>2, <3>3, <4>1
      <4>3. j' = j + 1 /\ i' = i /\ o >= j + 1
        BY <1>1, <1>3, <1>5, <3>3, <4>1, <4>2
      <4>4. From(a, k, j)'
        BY <1>1, <4>1, <4>3 DEF From
      <4> QED  BY <1>1, <3>3, <4>3, <4>4 DEF Supports
    <3> QED  BY <1>1, <3>1, <3>2, <3>3 DEF Supports, Freeing
  <2> QED  BY <1>6, <2>1, <2>2
<1>10. HeldIsDown'
  <2> SUFFICES ASSUME created', NEW a \in DOMAIN keyboard, NEW k \in Keys,
                      Alone(a, k), pushed[a], Pressed(a, k)'
               PROVE  k \in down'
    BY <1>1, <1>2 DEF HeldIsDown, Alone
  <2>1. Has(i, key)
    BY <1>1 DEF Has
  <2>2. CASE a # i
    <3>1. k \in down
      BY <1>1, <1>6, <2>2 DEF HeldIsDown, Pressed
    <3>2. k # key
      BY <1>1, <2>1, <2>2 DEF Alone
    <3> QED  BY <1>6, <3>1, <3>2
  <2>3. CASE a = i
    <3>1. k = key \/ UpTo(a, k, j)
      <4>1. PICK o \in DOMAIN keyboard[a].keys : o <= j /\ keyboard[a].keys[o] = k
        <5>1. CASE i' = i
          BY <1>1, <1>3, <1>4, <1>5, <2>3, <5>1 DEF Pressed, UpTo, Settled
        <5>2. CASE i' # i
          BY <1>1, <1>3, <1>5, <2>3, <5>2 DEF Alone, Has
        <5> QED  BY <5>1, <5>2
      <4> QED  BY <1>1, <1>3, <2>3, <4>1 DEF UpTo
    <3>2. k = key \/ k \in down
      BY <1>1, <1>6, <2>3, <3>1 DEF HeldIsDown, Pressed
    <3> QED  BY <1>6, <2>3, <3>2
  <2> QED  BY <2>2, <2>3
<1> QED  BY <1>7, <1>8, <1>9, <1>10

LEMMA KeyboardDoneKeeps ==
    ASSUME TypeOK, KeysInv, KeyboardDone
    PROVE  KeysInv'
<1> USE DEF KeysInv
<1>1. /\ pc = "keys" /\ pc' = "idle" /\ i \notin DOMAIN keyboard
      /\ UNCHANGED <<keyboard, buttons, pushed, created, down, group>>
  BY DEF KeyboardDone, device, keys, loading
<1>2. \A a, k : (Has(a, k)' <=> Has(a, k)) /\ (Held(a)' <=> Held(a))
  BY <1>1 DEF Has, Held
<1>3. \A a \in DOMAIN keyboard : a < i
  BY <1>1 DEF TypeOK
<1>4. Position'
  BY <1>1 DEF Position, Freeing
<1>5. PushedIsHeld'
  BY <1>1, <1>2, <1>3 DEF PushedIsHeld, Processed
<1>6. NoKeyStuck'
  BY <1>1, <1>2 DEF NoKeyStuck, Supports, Freeing
<1>7. HeldIsDown'
  BY <1>1, <1>2 DEF HeldIsDown, Pressed, Alone
<1> QED  BY <1>4, <1>5, <1>6, <1>7

\* The destructor begins with the first key of the first action.
LEMMA FreeingStarts ==
    ASSUME TypeOK, KeysInv, Settled, Freeing', i' = 1, j' = 1, group' # 0,
           pc' = "replace" => (group \in DOMAIN Groups[profile])',
           UNCHANGED <<keyboard, created, down>>
    PROVE  KeysInv'
<1> USE DEF KeysInv
<1>1. \A a, k : Has(a, k)' <=> Has(a, k)
  BY DEF Has
<1>2. Position'
  BY ActionTypes DEF Position, Freeing
<1>3. PushedIsHeld'
  BY DEF PushedIsHeld, Processed, Freeing, Settled
<1>4. NoKeyStuck'
  <2> SUFFICES ASSUME created, NEW k \in down
               PROVE  \E a \in DOMAIN keyboard : Supports(a, k)'
    BY DEF NoKeyStuck
  <2>1. PICK a \in DOMAIN keyboard : Has(a, k)
    BY DEF NoKeyStuck, Supports, From, Has
  <2>2. a = 1 \/ a > 1
    BY DEF TypeOK
  <2>3. From(a, k, 1)'
    BY <2>1, ActionTypes DEF From, Has
  <2> QED  BY <1>1, <2>1, <2>2, <2>3 DEF Supports
<1>5. HeldIsDown'
  BY DEF HeldIsDown, Pressed, Freeing, Settled
<1> QED  BY <1>2, <1>3, <1>4, <1>5

LEMMA FreeKeyKeeps ==
    ASSUME TypeOK, KeysInv, FreeKey
    PROVE  KeysInv'
<1> USE DEF KeysInv
<1>1. /\ Freeing /\ UNCHANGED pc /\ Freeing' /\ i \in DOMAIN keyboard
      /\ UNCHANGED <<keyboard, buttons, pushed, group, profile>>
      /\ i \in Nat /\ j \in Nat /\ j \in DOMAIN keyboard[i].keys
      /\ DOMAIN keyboard \subseteq Nat
  BY DEF FreeKey, keys, loading, TypeOK, Freeing, Position
<1>2. \A a, k : Has(a, k)' <=> Has(a, k)
  BY <1>1 DEF Has
<1>3. keyboard[i].keys \in Seq(Keys \cup Wheels) /\ keyboard[i].keys # <<>>
  BY <1>1, ActionTypes
<1>4. \/ j < Len(keyboard[i].keys) /\ j' = j + 1 /\ i' = i
      \/ j = Len(keyboard[i].keys) /\ j' = 1 /\ i' = i + 1
  BY <1>1, <1>3 DEF FreeKey, NextKey
<1> DEFINE key == keyboard[i].keys[j]
<1>5. ASSUME created' PROVE created /\ down' = down \ {key}
  <2>1. ReleaseKey(key)
    BY DEF FreeKey
  <2>2. CASE key \in Keys
    BY <1>5, <2>1, <2>2, ReportSucceeds DEF ReleaseKey
  <2>3. CASE key \notin Keys
    BY <1>5, <2>1, <2>3 DEF ReleaseKey, device, TypeOK
  <2> QED  BY <2>2, <2>3
<1>6. Position'
  <2>1. i' \in DOMAIN keyboard => j' \in DOMAIN keyboard[i'].keys
    <3>1. CASE i' = i
      BY <1>1, <1>3, <1>4, <3>1
    <3>2. CASE i' # i
      BY <1>1, <1>4, <3>2, ActionTypes
    <3> QED  BY <3>1, <3>2
  <2>2. j' # 0
    BY <1>1, <1>4
  <2> QED  BY <1>1, <2>1, <2>2 DEF Position, Freeing
<1>7. PushedIsHeld'
  BY <1>1 DEF PushedIsHeld, Processed, Freeing, Settled
<1>8. NoKeyStuck'
  <2> SUFFICES ASSUME created', NEW k \in down'
               PROVE  \E a \in DOMAIN keyboard : Supports(a, k)'
    BY <1>1 DEF NoKeyStuck
  <2>1. k \in down /\ k # key /\ created
    BY <1>5
  <2>2. PICK a \in DOMAIN keyboard : Supports(a, k)
    BY <2>1 DEF NoKeyStuck
  <2>3. CASE a = i
    <3>1. PICK o \in DOMAIN keyboard[a].keys : o >= j /\ keyboard[a].keys[o] = k
      BY <1>1, <2>2, <2>3 DEF Supports, From, Freeing
    <3>2. o # j
      BY <2>1, <2>3, <3>1
    <3>3. j' = j + 1 /\ i' = i /\ o >= j + 1
      BY <1>1, <1>3, <1>4, <2>3, <3>1, <3>2
    <3>4. From(a, k, j)'
      BY <1>1, <3>1, <3>3 DEF From
    <3> QED  BY <1>1, <2>3, <3>3, <3>4 DEF Supports
  <2>4. CASE a # i
    <3>1. a > i /\ Has(a, k)
      BY <1>1, <2>2, <2>4 DEF Supports, Freeing
    <3>2. CASE a > i'
      BY <1>1, <1>2, <3>1, <3>2 DEF Supports
    <3>3. CASE ~(a > i')
      <4>1. a = i' /\ j' = 1
        BY <1>1, <1>4, <3>1, <3>3
      <4>2. From(a, k, 1)'
        BY <1>1, <3>1, ActionTypes DEF From, Has
      <4> QED  BY <1>1, <4>1, <4>2 DEF Supports
    <3> QED  BY <3>2, <3>3
  <2> QED  BY <2>3, <2>4
<1>9. HeldIsDown'
  BY <1>1 DEF HeldIsDown, Pressed, Freeing, Settled
<1> QED  BY <1>6, <1>7, <1>8, <1>9

\* When all actions are done no key is down; a new keyboard starts with
\* nothing pushed and no masks.
LEMMA FreeingEnds ==
    ASSUME TypeOK, KeysInv, Freeing, i \notin DOMAIN keyboard, Settled', group' # 0,
           UNCHANGED <<created, down>>, NEW new, NewKeyboard(new)
    PROVE  KeysInv'
<1> USE DEF KeysInv
<1>1. \A a \in DOMAIN keyboard : ~(a > i) /\ a # i
  BY DEF TypeOK
<1>2. created => down = {}
  BY <1>1 DEF NoKeyStuck, Supports, Freeing
<1>3. \A a \in DOMAIN keyboard' : ~pushed'[a] /\ ~Held(a)'
  BY DEF NewKeyboard, Held
<1>4. Position'
  BY DEF Position, Settled, Freeing
<1>5. PushedIsHeld'
  BY <1>3 DEF PushedIsHeld
<1>6. NoKeyStuck'
  BY <1>2 DEF NoKeyStuck
<1>7. HeldIsDown'
  BY <1>3 DEF HeldIsDown
<1> QED  BY <1>4, <1>5, <1>6, <1>7

LEMMA KeysStep == ASSUME TypeOK, KeysInv, [Next]_vars PROVE KeysInv'
<1>1. ASSUME NEW id \in Ids, NEW mask \in Masks, ManagerButtons(id, mask) PROVE KeysInv'
  <2>1. /\ pc = "idle" /\ pc' \in {"idle", "commands"}
        /\ UNCHANGED <<keys, created, down, group>>
    BY <1>1 DEF ManagerButtons, device, loading
  <2> QED  BY <2>1, KeysKept DEF Settled, KeysInv, Position
<1>2. ASSUME Command PROVE KeysInv'
  <2>1. /\ pc = "commands" /\ pc' = "commands"
        /\ UNCHANGED <<keys, group>>
        /\ Report(down) \/ UNCHANGED device
    BY <1>2 DEF Command, loading
  <2>2. created' => created /\ down' = down
    BY <2>1, ReportSucceeds DEF device
  <2> QED  BY <2>1, <2>2, KeysKept DEF Settled, KeysInv, Position
<1>3. ASSUME CommandsDone PROVE KeysInv'
  BY <1>3, KeysKept DEF CommandsDone, Settled, KeysInv, Position, device, loading
<1>4. ASSUME NEW p \in Profiles, Load(p) PROVE KeysInv'
  BY <1>4, KeysKept DEF Load, Settled, device
<1>5. ASSUME LoadCommandEvents PROVE KeysInv'
  BY <1>5, KeysKept DEF LoadCommandEvents, Settled, KeysInv, Position, device, loading
<1>6. ASSUME LoadGroup PROVE KeysInv'
  BY <1>6, FreeingStarts DEF LoadGroup, Settled, Freeing, KeysInv, Position, device, loading, keys
<1>7. ASSUME Unload PROVE KeysInv'
  BY <1>7, FreeingStarts DEF Unload, Settled, Freeing, KeysInv, Position, device, loading, keys
<1>8. ASSUME AssignKeyboardEvents PROVE KeysInv'
  <2>1. /\ Freeing /\ i \notin DOMAIN keyboard /\ Settled' /\ UNCHANGED <<created, down>>
        /\ NewKeyboard(Groups[profile][group])
    BY <1>8 DEF AssignKeyboardEvents, Freeing, Settled, device
  <2>2. group' # 0
    BY <1>8 DEF AssignKeyboardEvents, TypeOK
  <2> QED  BY <2>1, <2>2, FreeingEnds
<1>9. ASSUME UnloadDone PROVE KeysInv'
  <2>1. /\ Freeing /\ i \notin DOMAIN keyboard /\ Settled' /\ UNCHANGED <<created, down, group>>
        /\ NewKeyboard(<<>>)
    BY <1>9 DEF UnloadDone, Freeing, Settled, device, loading
  <2>2. group' # 0
    BY <2>1 DEF KeysInv, Position
  <2> QED  BY <2>1, <2>2, FreeingEnds
<1>10. ASSUME UNCHANGED vars PROVE KeysInv'
  BY <1>10 DEF vars, device, keys, cmds, loading, KeysInv, Position, PushedIsHeld, NoKeyStuck,
     HeldIsDown, Processed, Supports, Pressed, Alone, Settled, Freeing, Has, Held, From, UpTo
<1> QED
  BY <1>1, <1>2, <1>3, <1>4, <1>5, <1>6, <1>7, <1>8, <1>9, <1>10, KeyboardButtonsKeeps,
     KeyboardActionKeeps, WriteKeyKeeps, KeyboardDoneKeeps, FreeKeyKeeps DEF Next, Slot

-----------------------------------------------------------------------------
(* Commands.                                                               *)

\* Nothing matches when no mask is known.
LEMMA NothingMatchesEmpty == \A e, s : ~Compare(e, Empty, s)
BY DEF Compare

\* New commands are compared with nothing, and are inactive.
LEMMA NewCommandsHold ==
    ASSUME NEW s, NewCommands(s), pc' # "commands"
    PROVE  CommandsInv'
<1>1. \A c \in DOMAIN commands' : ~actived'[c] /\ ~Matches(c, seen)' /\ c \notin ran'
  BY NothingMatchesEmpty DEF NewCommands, Matches
<1> QED  BY <1>1 DEF CommandsInv, Looked

\* What is not looked at changes nothing.
LEMMA CommandsKept ==
    ASSUME CommandsInv, UNCHANGED <<cmds>>, pc # "commands", pc' # "commands"
    PROVE  CommandsInv'
BY DEF CommandsInv, Looked, Matches, cmds, history

LEMMA CommandsStep == ASSUME TypeOK, CommandsInv, [Next]_vars PROVE CommandsInv'
<1>1. ASSUME NEW id \in Ids, NEW mask \in Masks, ManagerButtons(id, mask)
      PROVE  CommandsInv'
  <2>1. CASE commands = <<>>
    <3>1. DOMAIN commands = {}
      BY <2>1
    <3>2. /\ pc = "idle" /\ pc' = "idle"
          /\ UNCHANGED <<commands, actived, ran, seen, before>>
      BY <1>1, <2>1 DEF ManagerButtons, history
    <3> QED  BY <3>1, <3>2 DEF CommandsInv
  <2>2. CASE commands # <<>>
    <3>1. /\ pc = "idle" /\ pc' = "commands" /\ i' = 1 /\ ran' = {}
          /\ seen' = lastButtons' /\ before' = seen /\ UNCHANGED <<commands, actived>>
      BY <1>1, <2>2 DEF ManagerButtons
    <3>2. \A c \in DOMAIN commands : ~(c < 1)
      BY DEF TypeOK
    <3> QED  BY <3>1, <3>2 DEF CommandsInv, Looked, Matches
  <2> QED  BY <2>1, <2>2
<1>2. ASSUME Command PROVE CommandsInv'
  <2>1. /\ pc = "commands" /\ pc' = "commands" /\ i \in DOMAIN commands /\ i' = i + 1
        /\ UNCHANGED <<commands, lastButtons, seen, before>>
        /\ actived \in [DOMAIN commands -> BOOLEAN]
        /\ DOMAIN commands \subseteq Nat /\ i \in Nat
    <3>1. /\ actived \in [DOMAIN commands -> BOOLEAN]
          /\ DOMAIN commands \subseteq Nat /\ i \in Nat
      BY DEF TypeOK
    <3>2. /\ pc = "commands" /\ pc' = "commands" /\ i \in DOMAIN commands /\ i' = i + 1
          /\ UNCHANGED <<commands, lastButtons, seen, before>>
      BY <1>2 DEF Command
    <3> QED  BY <3>1, <3>2
  <2>2. /\ actived' = [actived EXCEPT ![i] = Matches(i, lastButtons)]
        /\ ran' = IF Matches(i, lastButtons) /\ ~actived[i] THEN ran \cup {i} ELSE ran
    BY <1>2 DEF Command, Matches
  <2>3. seen = lastButtons
    BY <2>1 DEF CommandsInv
  <2>4. \A c, h : Matches(c, h)' <=> Matches(c, h)
    BY <2>1 DEF Matches
  <2>5. (actived[i] <=> Matches(i, before)) /\ i \notin ran
    BY <2>1 DEF CommandsInv, Looked
  <2>6. \A c \in DOMAIN commands :
           c # i => (actived'[c] = actived[c]) /\ (c \in ran' <=> c \in ran)
    BY <2>1, <2>2
  <2>7. (actived'[i] <=> Matches(i, seen))
        /\ (i \in ran' <=> Matches(i, seen) /\ ~Matches(i, before))
    <3>1. actived'[i] = Matches(i, seen)
      BY <2>1, <2>2, <2>3
    <3>2. i \in ran' <=> Matches(i, seen) /\ ~actived[i]
      BY <2>2, <2>3, <2>5
    <3> QED  BY <2>5, <3>1, <3>2
  <2>8. \A c \in DOMAIN commands : Looked(c)' <=> Looked(c) \/ c = i
    BY <2>1 DEF Looked
  <2>9. ASSUME NEW c \in DOMAIN commands
        PROVE  /\ Looked(c)' => (actived'[c] <=> Matches(c, seen))
               /\ ~Looked(c)' => (actived'[c] <=> Matches(c, before))
               /\ c \in ran' <=> Looked(c)' /\ Matches(c, seen) /\ ~Matches(c, before)
    <3>1. CASE c = i
      BY <2>7, <2>8, <3>1
    <3>2. CASE c # i
      <4>1. /\ Looked(c) => (actived[c] <=> Matches(c, seen))
            /\ ~Looked(c) => (actived[c] <=> Matches(c, before))
            /\ c \in ran <=> Looked(c) /\ Matches(c, seen) /\ ~Matches(c, before)
        BY DEF CommandsInv
      <4>2. /\ actived'[c] = actived[c]
            /\ c \in ran' <=> c \in ran
            /\ Looked(c)' <=> Looked(c)
        <5>1. actived'[c] = actived[c] /\ (c \in ran' <=> c \in ran)
          BY <2>6, <3>2, Zenon
        <5>2. Looked(c)' <=> Looked(c)
          BY <2>8, <3>2, Zenon
        <5> QED  BY <5>1, <5>2
      <4> QED  BY <4>1, <4>2
    <3> QED  BY <3>1, <3>2
  <2> HIDE DEF Matches, Looked
  <2>10. seen' = seen /\ before' = before /\ commands' = commands
    BY <2>1
  <2>11. \A c \in DOMAIN commands' :
           /\ Looked(c)' => (actived'[c] <=> Matches(c, seen)')
           /\ ~Looked(c)' => (actived'[c] <=> Matches(c, before)')
           /\ c \in ran' <=> Looked(c)' /\ Matches(c, seen)' /\ ~Matches(c, before)'
    BY <2>9, <2>10 DEF Matches
  <2> QED  BY <2>1, <2>3, <2>11 DEF CommandsInv
<1>3. ASSUME CommandsDone PROVE CommandsInv'
  <2>1. \A c \in DOMAIN commands : c < i
    BY <1>3 DEF CommandsDone, TypeOK
  <2> QED  BY <1>3, <2>1 DEF CommandsDone, CommandsInv, Looked, Matches, cmds, history
<1>4. ASSUME NEW id \in Ids, NEW mask \in Masks, KeyboardButtons(id, mask)
      PROVE  CommandsInv'
  BY <1>4, CommandsKept DEF KeyboardButtons
<1>5. ASSUME KeyboardAction \/ WriteKey \/ FreeKey PROVE CommandsInv'
  BY <1>5, CommandsKept DEF KeyboardAction, WriteKey, FreeKey
<1>6. ASSUME KeyboardDone \/ LoadGroup \/ AssignKeyboardEvents \/ UnloadDone PROVE CommandsInv'
  BY <1>6, CommandsKept DEF KeyboardDone, LoadGroup, AssignKeyboardEvents, UnloadDone
<1>7. ASSUME NEW p \in Profiles, Load(p) PROVE CommandsInv'
  BY <1>7, CommandsKept DEF Load
<1>8. ASSUME LoadCommandEvents PROVE CommandsInv'
  BY <1>8, NewCommandsHold DEF LoadCommandEvents
<1>9. ASSUME Unload PROVE CommandsInv'
  BY <1>9, NewCommandsHold DEF Unload
<1>10. ASSUME UNCHANGED vars PROVE CommandsInv'
  BY <1>10 DEF vars, cmds, history, CommandsInv, Looked, Matches
<1> QED
  BY <1>1, <1>2, <1>3, <1>4, <1>5, <1>6, <1>7, <1>8, <1>9, <1>10 DEF Next, Slot

-----------------------------------------------------------------------------
(* The theorems.                                                           *)

IInv == TypeOK /\ KeysInv /\ CommandsInv

LEMMA InitHolds == Init => IInv
<1> SUFFICES ASSUME Init PROVE IInv
  OBVIOUS
<1> USE DEF Init
<1>1. With(Empty, FirstId, {}) \in Hashes
  BY IdsAssumption, EmptyIsHash, WithIsHash DEF Masks
<1>2. <<>> \in Seq(KeyboardActions) /\ <<>> \in Seq(CommandActions)
  OBVIOUS
<1>3. TypeOK
  <2>1. pushed \in [DOMAIN keyboard -> BOOLEAN] /\ actived \in [DOMAIN commands -> BOOLEAN]
    OBVIOUS
  <2> QED  BY <1>1, <1>2, <2>1, EmptyIsHash DEF TypeOK
<1>4. KeysInv
  BY DEF KeysInv, Position, PushedIsHeld, NoKeyStuck, HeldIsDown, Freeing
<1>5. CommandsInv
  BY DEF CommandsInv
<1> QED  BY <1>3, <1>4, <1>5 DEF IInv

\* Types, keys and commands together are an inductive invariant, for any
\* profiles and any number of remotes, buttons and keys.
THEOREM Invariance == Spec => []IInv
<1>1. IInv /\ [Next]_vars => IInv'
  <2> SUFFICES ASSUME IInv, [Next]_vars PROVE IInv'
    OBVIOUS
  <2>1. TypeOK'
    BY TypeStep DEF IInv, KeysInv
  <2>2. KeysInv'
    BY KeysStep DEF IInv
  <2>3. CommandsInv'
    BY CommandsStep DEF IInv
  <2> QED  BY <2>1, <2>2, <2>3 DEF IInv
<1> QED  BY <1>1, InitHolds, PTL DEF Spec

\* Type correctness; in particular a wheel is never a key that is down.
THEOREM TypeCorrect == Spec => []TypeOK
<1>1. IInv => TypeOK  BY DEF IInv
<1> QED  BY <1>1, Invariance, PTL

\* No order of masks, loads and unloads leaves a key down whose buttons are
\* not held, or releases one that only a held action has.
THEOREM NoKeyIsStuck == Spec => []KeysFollowButtons
<1>1. IInv => KeysFollowButtons
  <2> SUFFICES ASSUME IInv, pc = "idle", created, NEW k \in Keys
               PROVE  /\ k \in down => \E a \in DOMAIN keyboard : Has(a, k) /\ Held(a)
                      /\ \A a \in DOMAIN keyboard :
                            /\ Has(a, k) /\ Held(a)
                            /\ \A b \in DOMAIN keyboard \ {a} : ~Has(b, k)
                            => k \in down
    BY DEF KeysFollowButtons
  <2>1. \A a \in DOMAIN keyboard : pushed[a] <=> Held(a)
    BY DEF IInv, KeysInv, PushedIsHeld, Processed, Settled
  <2>2. k \in down => \E a \in DOMAIN keyboard : Has(a, k) /\ Held(a)
    BY <2>1 DEF IInv, KeysInv, NoKeyStuck, Supports, Freeing
  <2>3. ASSUME NEW a \in DOMAIN keyboard, Has(a, k), Held(a),
               \A b \in DOMAIN keyboard \ {a} : ~Has(b, k)
        PROVE  k \in down
    BY <2>1, <2>3 DEF IInv, KeysInv, HeldIsDown, Alone, Pressed, Settled
  <2> QED  BY <2>2, <2>3
<1> QED  BY <1>1, Invariance, PTL

\* Every signal runs exactly the commands it makes true, whatever was loaded
\* before and whichever remotes they ask for.
THEOREM CommandsAreRunOnce == Spec => []CommandsRunOnRise
<1>1. IInv => CommandsRunOnRise
  <2> SUFFICES ASSUME IInv, pc = "idle"
               PROVE  ran = {c \in DOMAIN commands :
                               Matches(c, seen) /\ ~Matches(c, before)}
    BY DEF CommandsRunOnRise, Matches
  <2>1. ran \subseteq DOMAIN commands
    BY DEF IInv, TypeOK
  <2>2. \A c \in DOMAIN commands : c \in ran <=> Matches(c, seen) /\ ~Matches(c, before)
    BY DEF IInv, CommandsInv, Looked
  <2> QED  BY <2>1, <2>2
<1> QED  BY <1>1, Invariance, PTL
=============================================================================
