---------------------------- MODULE DeviceProofs -----------------------------
(***************************************************************************)
(* Theorems about the devices.  About booting, for every machine that      *)
(* MachineAssumption allows and every interleaving of interrupts, boot and *)
(* ps2_getch: the kernel's map and the ACPI tables, the devices, the       *)
(* interrupt controllers, the descriptor tables, and the keyboard.  About  *)
(* the AHCI driver, for every set of ports, every number of command slots, *)
(* every set of drives and whatever state the firmware has left the        *)
(* engines in.                                                             *)
(***************************************************************************)
EXTENDS Machine, Ahci, Lemmas, TLAPS

-----------------------------------------------------------------------------
(* The keyboard's state is only changed by keys, by kb_handler and by      *)
(* ps2_getch.                                                              *)

\* Booting leaves the keyboard alone, also where it ends in an exception.
LEMMA BootQuiet == Boot => UNCHANGED kbVars
<1>1. ASSUME NEW reason, Stop(reason) PROVE UNCHANGED kbVars
  BY <1>1 DEF Stop
<1>2. ASSUME NEW from, NEW to, Step(from, to) PROVE UNCHANGED kbVars
  BY <1>2 DEF Step
<1>3. ASSUME NEW vector, Raise(vector) PROVE UNCHANGED kbVars
  BY <1>1, <1>3 DEF Raise
<1>4. ASSUME NEW signature, TableMissing(signature) PROVE UNCHANGED kbVars
  BY <1>1, <1>3, <1>4 DEF TableMissing
<1>5. initialize_memory \/ remap_framebuffer \/ prepare_acpi_memory => UNCHANGED kbVars
  BY <1>2 DEF initialize_memory, remap_framebuffer, prepare_acpi_memory
<1>6. setup_gdt_and_tss \/ setup_idt \/ register_exception_interrupts => UNCHANGED kbVars
  BY <1>2 DEF setup_gdt_and_tss, setup_idt, register_exception_interrupts
<1>7. free_uefi_memory_and_remove_identity_mapping \/ initialize_acpi => UNCHANGED kbVars
  BY <1>2 DEF free_uefi_memory_and_remove_identity_mapping, initialize_acpi
<1>8. AcpiRefused \/ MadtInvalid \/ EntryRefused \/ NoController \/ NoIoapic => UNCHANGED kbVars
  BY <1>1 DEF AcpiRefused, MadtInvalid, EntryRefused, NoController, NoIoapic
<1>9. StartEnumeration \/ VisitFunction \/ EnumerationEnds => UNCHANGED kbVars
  BY <1>2 DEF StartEnumeration, VisitFunction, EnumerationEnds
<1>10. StartApic \/ ParseEntry \/ EnableLocalApic => UNCHANGED kbVars
  BY <1>2 DEF StartApic, ParseEntry, EnableLocalApic
<1>11. MapController \/ prepare_syscalls => UNCHANGED kbVars
  BY <1>2 DEF MapController, prepare_syscalls
<1>12. WriteLower \/ WriteUpper \/ RegisterHandler => UNCHANGED kbVars
  BY <1>2 DEF WriteLower, WriteUpper, RegisterHandler
<1> QED BY <1>4, <1>5, <1>6, <1>7, <1>8, <1>9, <1>10, <1>11, <1>12 DEF Boot

\* So do interrupts that the keyboard's handler does not serve.
LEMMA OthersQuiet == PicInterrupt \/ NoHandler \/ Halted => UNCHANGED kbVars
<1>1. ASSUME NEW vector, Raise(vector) PROVE UNCHANGED kbVars
  BY <1>1 DEF Raise, Stop
<1> QED BY <1>1 DEF PicInterrupt, NoHandler, Halted, vars

-----------------------------------------------------------------------------
(* What the kernel takes for pressed, and what is: while a byte waits to   *)
(* be read they differ by that byte's key, and by nothing else, because    *)
(* the controller holds one byte and gives no other until it is read.      *)

KeysInv ==
    /\ KeyboardTypeOK
    /\ byte = NoByte => g_kbstatus = held
    /\ byte # NoByte =>
           /\ byte.key \in Keys
           /\ held = IF byte.pressed THEN g_kbstatus \cup {byte.key}
                                     ELSE g_kbstatus \ {byte.key}

\* The invariant looks at the keyboard's variables only.
LEMMA KeysQuiet == KeysInv /\ UNCHANGED kbVars => KeysInv'
BY DEF KeysInv, KeyboardTypeOK, NoByte, kbVars

\* A key goes down or up: the byte says which.
LEMMA KeysPress ==
    ASSUME KeysInv, NEW key \in Keys, NEW passed, KeyEvent(key, passed)
    PROVE  KeysInv'
<1>1. key # 0
  BY KeyAssumption
<1>2. byte' = [key |-> key, pressed |-> key \notin held] /\ byte = NoByte
  BY DEF KeyEvent
<1>3. byte' # NoByte
  BY <1>1, <1>2 DEF NoByte
<1>4. g_kbstatus = held /\ g_kbstatus' = g_kbstatus
  BY <1>2 DEF KeysInv, KeyEvent
<1>5. held' = IF byte'.pressed THEN g_kbstatus' \cup {byte'.key} ELSE g_kbstatus' \ {byte'.key}
  <2>1. byte'.key = key /\ byte'.pressed = (key \notin held)
    BY <1>2, Zenon
  <2>2. CASE key \in held
    <3>1. held' = held \ {key}
      BY <2>2 DEF KeyEvent
    <3>2. ~byte'.pressed
      BY <2>1, <2>2
    <3> QED BY <1>4, <2>1, <3>1, <3>2
  <2>3. CASE key \notin held
    <3>1. held' = held \cup {key}
      BY <2>3 DEF KeyEvent
    <3>2. byte'.pressed
      BY <2>1, <2>3
    <3> QED BY <1>4, <2>1, <3>1, <3>2
  <2> QED BY <2>2, <2>3
<1>6. KeyboardTypeOK'
  <2>1. held' \subseteq Keys /\ byte' \in [key : Keys \cup {0}, pressed : BOOLEAN]
    BY <1>2 DEF KeysInv, KeyboardTypeOK, KeyEvent
  <2> QED BY <2>1 DEF KeysInv, KeyboardTypeOK, KeyEvent, callVars
<1> QED BY <1>2, <1>3, <1>5, <1>6 DEF KeysInv

\* What scan_code_to_letter gives is a character, or 0.
LEMMA LetterType ==
    ASSUME NEW key, NEW status
    PROVE  scan_code_to_letter(key, status) \in Character \cup {Zero}
BY DEF scan_code_to_letter, Character, upper_case

\* The handler takes the byte into account.
LEMMA KeysHandler == KeysInv /\ (kb_handler \/ NothingToRead) => KeysInv'
<1>1. ASSUME KeysInv, kb_handler PROVE KeysInv'
  <2>1. byte # NoByte /\ byte' = NoByte /\ held' = held /\ g_kbstatus' = StatusAfter(byte)
    BY <1>1 DEF kb_handler
  <2>2. g_kbstatus' = held'
    BY <1>1, <2>1 DEF KeysInv, StatusAfter
  <2>3. g_last_char_changed' \in Character \cup {Zero}
    BY <1>1, LetterType DEF kb_handler, KeysInv, KeyboardTypeOK
  <2>4. NoByte \in [key : Keys \cup {0}, pressed : BOOLEAN]
    BY DEF NoByte
  <2>5. KeyboardTypeOK'
    BY <1>1, <2>1, <2>2, <2>3, <2>4 DEF KeysInv, KeyboardTypeOK, kb_handler, callVars
  <2> QED BY <2>1, <2>2, <2>5 DEF KeysInv, NoByte
<1>2. ASSUME KeysInv, NothingToRead PROVE KeysInv'
  BY <1>2 DEF KeysInv, KeyboardTypeOK, NothingToRead, callVars, NoByte
<1> QED BY <1>1, <1>2

\* ps2_getch changes nothing that KeysInv relates.
LEMMA KeysGetch ==
    KeysInv /\ (ps2_getch_Clear \/ ps2_getch_Test \/ ps2_getch_Return) => KeysInv'
<1>1. Zero \in Character \cup {Zero}
  OBVIOUS
<1>2. KeysInv /\ ps2_getch_Clear => KeysInv'
  BY <1>1 DEF KeysInv, KeyboardTypeOK, ps2_getch_Clear, NoByte
<1>3. KeysInv /\ ps2_getch_Test => KeysInv'
  BY DEF KeysInv, KeyboardTypeOK, ps2_getch_Test, NoByte
<1>4. KeysInv /\ ps2_getch_Return => KeysInv'
  BY DEF KeysInv, KeyboardTypeOK, ps2_getch_Return, NoByte
<1> QED BY <1>2, <1>3, <1>4

LEMMA KeysInit == Init => KeysInv
<1>1. NoByte \in [key : Keys \cup {0}, pressed : BOOLEAN]
  BY DEF NoByte
<1> QED BY <1>1 DEF Init, KeyboardInit, KeysInv, KeyboardTypeOK, NoByte

LEMMA KeysNext == KeysInv /\ [Next]_vars => KeysInv'
<1> SUFFICES ASSUME KeysInv, [Next]_vars PROVE KeysInv'
  OBVIOUS
<1>1. CASE Boot \/ PicInterrupt \/ NoHandler \/ Halted
  BY <1>1, BootQuiet, OthersQuiet, KeysQuiet
<1>2. CASE KeyboardInterrupt
  BY <1>2, KeysHandler DEF KeyboardInterrupt
<1>3. CASE SpuriousEdge
  BY <1>3 DEF SpuriousEdge, KeysInv, KeyboardTypeOK, NoByte, callVars
<1>4. CASE \E key \in Keys : Press(key)
  BY <1>4, KeysPress DEF Press
<1>5. CASE Getch
  BY <1>5, KeysGetch DEF Getch
<1>6. CASE UNCHANGED vars
  <2>1. UNCHANGED kbVars
    BY <1>6 DEF vars
  <2> QED BY <2>1, KeysQuiet
<1> QED BY <1>1, <1>2, <1>3, <1>4, <1>5, <1>6 DEF Next

\* The keys that the kernel takes for pressed are those that are held down, on
\* every machine, however boot, interrupts and waiting programs interleave.
THEOREM MachineKeyState == Spec => []KeyStateExact
<1>1. KeysInv => KeyStateExact
  BY DEF KeysInv, KeyStateExact
<1> QED BY <1>1, KeysInit, KeysNext, PTL DEF Spec

-----------------------------------------------------------------------------
(* What ps2_getch returns.  The handler may write the character between    *)
(* the test of the loop and the read behind it, so the two may differ; but *)
(* from the moment the character is cleared, whatever replaces it was      *)
(* pressed since, and it is cleared again only by a key without one.       *)

CharInv ==
    /\ Zero \notin typed
    /\ FreshCharacter
    /\ getch = "wait" => g_last_char_changed \in typed \cup {Zero}
    /\ getch = "read" =>
           /\ typed # {}
           /\ g_last_char_changed \in typed \/ (g_last_char_changed = Zero /\ overwritten)

\* The invariant looks at the keyboard's variables only.
LEMMA CharQuiet == CharInv /\ UNCHANGED kbVars => CharInv'
BY DEF CharInv, FreshCharacter, kbVars

\* ps2_getch returns a character that was pressed after it was called, or 0 when
\* a key without a character was pressed after one, on every machine and wherever
\* the interrupts come.
THEOREM MachineFreshCharacter == Spec => []FreshCharacter
<1>1. Init => CharInv
  BY DEF Init, KeyboardInit, CharInv, FreshCharacter
<1>2. CharInv /\ [Next]_vars => CharInv'
  <2> SUFFICES ASSUME CharInv, [Next]_vars PROVE CharInv'
    OBVIOUS
  <2>1. CASE Boot \/ PicInterrupt \/ NoHandler \/ Halted
    BY <2>1, BootQuiet, OthersQuiet, CharQuiet
  <2>2. CASE KeyboardInterrupt
    <3>1. CASE kb_handler
      BY <3>1 DEF kb_handler, callVars, historyVars, CharInv, FreshCharacter
    <3>2. CASE NothingToRead
      BY <3>2 DEF NothingToRead, callVars, historyVars, CharInv, FreshCharacter
    <3> QED BY <2>2, <3>1, <3>2 DEF KeyboardInterrupt
  <2>3. CASE SpuriousEdge
    BY <2>3 DEF SpuriousEdge, callVars, historyVars, CharInv, FreshCharacter
  <2>4. CASE \E key \in Keys : Press(key)
    BY <2>4 DEF Press, KeyEvent, callVars, historyVars, CharInv, FreshCharacter
  <2>5. CASE Getch
    <3>1. CASE ps2_getch_Clear
      BY <3>1 DEF ps2_getch_Clear, CharInv, FreshCharacter
    <3>2. CASE ps2_getch_Test
      BY <3>2 DEF ps2_getch_Test, historyVars, CharInv, FreshCharacter
    <3>3. CASE ps2_getch_Return
      BY <3>3 DEF ps2_getch_Return, historyVars, CharInv, FreshCharacter
    <3> QED BY <2>5, <3>1, <3>2, <3>3 DEF Getch
  <2>6. CASE UNCHANGED vars
    <3>1. UNCHANGED kbVars
      BY <2>6 DEF vars
    <3> QED BY <3>1, CharQuiet
  <2> QED BY <2>1, <2>2, <2>3, <2>4, <2>5, <2>6 DEF Next
<1>3. CharInv => FreshCharacter
  BY DEF CharInv, FreshCharacter
<1> QED BY <1>1, <1>2, <1>3, PTL DEF Spec

-----------------------------------------------------------------------------
(* The kernel's address space.  A page that is mapped stays mapped to what *)
(* it is mapped to, whatever is mapped and given back later.               *)

\* The pages that were given back are those without a physical page, each once.
MapOK(k, f) ==
    /\ k \in Seq(Nat)
    /\ f \in Seq(Nat)
    /\ IsInjective(f)
    /\ Range(f) = {v \in DOMAIN k : k[v] = 0}

KeptIn(k, l) == \A v \in DOMAIN k : k[v] # 0 => v \in DOMAIN l /\ l[v] = k[v]

\* What is kept is kept on.
LEMMA KeptTransitive ==
    ASSUME NEW j, NEW k, NEW l, KeptIn(j, k), KeptIn(k, l)
    PROVE  KeptIn(j, l)
BY DEF KeptIn

\* Consecutive pages of memory.
PagesFrom(g, phys, pages) ==
    g \in Seq(Nat) /\ Len(g) = pages /\ \A n \in 1 .. pages : g[n] = phys + n - 1

LEMMA PagesFromIs ==
    ASSUME NEW phys \in Nat, NEW pages \in Nat
    PROVE  PagesFrom([i \in 1 .. pages |-> phys + i - 1], phys, pages)
<1> DEFINE g == [i \in 1 .. pages |-> phys + i - 1]
<1>1. \A i \in 1 .. pages : phys + i - 1 \in Nat
  OBVIOUS
<1>2. g \in Seq(Nat) /\ Len(g) = pages /\ \A n \in 1 .. pages : g[n] = phys + n - 1
  BY <1>1
<1> HIDE DEF g
<1>3. PagesFrom(g, phys, pages)
  BY <1>2 DEF PagesFrom
<1> QED BY <1>3 DEF g

\* A map that has grown at its end.
GrownBy(k, l, phys, pages) ==
    /\ l \in Seq(Nat) /\ Len(l) = Len(k) + pages
    /\ DOMAIN k \subseteq DOMAIN l
    /\ \A v \in DOMAIN k : l[v] = k[v]
    /\ \A n \in 1 .. pages : Len(k) + n \in DOMAIN l /\ l[Len(k) + n] = phys + n - 1
    /\ \A n \in 1 .. pages : Len(k) + n \notin DOMAIN k
    /\ \A v \in DOMAIN l : v \in DOMAIN k \/ \E n \in 1 .. pages : v = Len(k) + n

LEMMA Grown ==
    ASSUME NEW k \in Seq(Nat), NEW phys \in Nat, NEW pages \in Nat,
           NEW g, PagesFrom(g, phys, pages)
    PROVE  GrownBy(k, k \o g, phys, pages)
<1> DEFINE l == k \o g
<1>2. g \in Seq(Nat) /\ Len(g) = pages /\ \A n \in 1 .. pages : g[n] = phys + n - 1
  BY DEF PagesFrom
<1>3. l \in Seq(Nat) /\ Len(l) = Len(k) + pages
  BY <1>2, ConcatProperties
<1>4. \A v \in 1 .. Len(k) : l[v] = k[v] /\ v \in 1 .. Len(l)
  BY <1>2
<1>5. ASSUME NEW n \in 1 .. pages
      PROVE  Len(k) + n \in 1 .. Len(l) /\ l[Len(k) + n] = phys + n - 1
  <2>1. Len(k) + n \in 1 .. Len(l) /\ Len(k) + n > Len(k) /\ (Len(k) + n) - Len(k) = n
    BY <1>3
  <2>2. l[Len(k) + n] = g[n]
    BY <1>2, <2>1
  <2> QED BY <1>2, <2>1, <2>2
<1>6. ASSUME NEW v \in 1 .. Len(l), v \notin 1 .. Len(k)
      PROVE  \E n \in 1 .. pages : v = Len(k) + n
  <2>1. v - Len(k) \in 1 .. pages /\ v = Len(k) + (v - Len(k))
    BY <1>3, <1>6
  <2> QED BY <2>1
<1>7. DOMAIN k = 1 .. Len(k) /\ DOMAIN l = 1 .. Len(l)
  BY <1>3
<1>8. \A n \in 1 .. pages : Len(k) + n \notin 1 .. Len(k)
  OBVIOUS
<1> HIDE DEF l
<1>9. GrownBy(k, l, phys, pages)
  BY <1>3, <1>4, <1>5, <1>6, <1>7, <1>8 DEF GrownBy
<1> QED BY <1>9 DEF l

\* A map that grows by pages of memory.
LEMMA GrownOK ==
    ASSUME NEW k, NEW f, MapOK(k, f), NEW phys \in Nat \ {0}, NEW pages \in Nat,
           NEW l, GrownBy(k, l, phys, pages)
    PROVE  MapOK(l, f) /\ KeptIn(k, l)
<1>1. /\ l \in Seq(Nat)
      /\ DOMAIN k \subseteq DOMAIN l
      /\ \A v \in DOMAIN k : l[v] = k[v]
      /\ \A n \in 1 .. pages : Len(k) + n \in DOMAIN l /\ l[Len(k) + n] = phys + n - 1
      /\ \A v \in DOMAIN l : v \in DOMAIN k \/ \E n \in 1 .. pages : v = Len(k) + n
  BY DEF GrownBy
<1>2. \A n \in 1 .. pages : phys + n - 1 # 0
  OBVIOUS
<1>3. ASSUME NEW v \in DOMAIN l, l[v] = 0 PROVE v \in DOMAIN k /\ k[v] = 0
  <2>1. CASE v \in DOMAIN k
    BY <1>1, <1>3, <2>1
  <2>2. CASE \E n \in 1 .. pages : v = Len(k) + n
    BY <1>1, <1>2, <1>3, <2>2
  <2> QED BY <1>1, <2>1, <2>2
<1>4. {v \in DOMAIN k : k[v] = 0} = {v \in DOMAIN l : l[v] = 0}
  BY <1>1, <1>3
<1> QED BY <1>1, <1>4 DEF MapOK, KeptIn

\* The first page that was given back is taken.
LEMMA TakenOK ==
    ASSUME NEW k, NEW f, MapOK(k, f), f # <<>>, NEW phys \in Nat \ {0}
    PROVE  LET l == [k EXCEPT ![Head(f)] = phys]
           IN  /\ MapOK(l, Tail(f)) /\ KeptIn(k, l)
               /\ Head(f) \in DOMAIN k /\ k[Head(f)] = 0
               /\ DOMAIN l = DOMAIN k /\ l[Head(f)] = phys
<1> DEFINE l == [k EXCEPT ![Head(f)] = phys]
<1>0. k \in Seq(Nat) /\ f \in Seq(Nat) /\ DOMAIN k = 1 .. Len(k) /\ DOMAIN f = 1 .. Len(f)
  BY DEF MapOK
<1>1. Len(f) \in Nat /\ Len(f) # 0 /\ 1 \in DOMAIN f /\ Head(f) = f[1]
  BY <1>0
<1>2. Head(f) \in DOMAIN k /\ k[Head(f)] = 0
  BY <1>1 DEF MapOK, Range
<1>3. Tail(f) \in Seq(Nat) /\ Len(Tail(f)) = Len(f) - 1 /\ DOMAIN Tail(f) = 1 .. Len(f) - 1
      /\ \A i \in 1 .. Len(f) - 1 : Tail(f)[i] = f[i + 1]
  BY <1>0, <1>1
<1>4. /\ \A i \in 1 .. Len(f) - 1 : i + 1 \in DOMAIN f /\ i + 1 # 1
      /\ \A j \in DOMAIN f : j = 1 \/ (j - 1 \in 1 .. Len(f) - 1 /\ (j - 1) + 1 = j)
      /\ \A i, j \in 1 .. Len(f) - 1 : i + 1 = j + 1 => i = j
  BY <1>0, <1>1
<1>5. IsInjective(Tail(f))
  BY <1>3, <1>4 DEF MapOK, IsInjective
<1>6. \A v \in Range(Tail(f)) : v \in Range(f) /\ v # Head(f)
  <2> SUFFICES ASSUME NEW i \in 1 .. Len(f) - 1 PROVE Tail(f)[i] \in Range(f) /\ Tail(f)[i] # Head(f)
    BY <1>3 DEF Range
  <2>1. i + 1 \in DOMAIN f /\ i + 1 # 1 /\ Tail(f)[i] = f[i + 1]
    BY <1>3, <1>4
  <2>2. f[i + 1] # f[1]
    BY <1>1, <2>1 DEF MapOK, IsInjective
  <2> QED BY <1>1, <2>1, <2>2 DEF Range
<1>7. \A v \in Range(f) : v = Head(f) \/ v \in Range(Tail(f))
  <2> SUFFICES ASSUME NEW j \in DOMAIN f PROVE f[j] = Head(f) \/ f[j] \in Range(Tail(f))
    BY DEF Range
  <2>1. CASE j = 1
    BY <1>1, <2>1
  <2>2. CASE j # 1
    <3>1. j - 1 \in DOMAIN Tail(f) /\ Tail(f)[j - 1] = f[j]
      BY <1>3, <1>4, <2>2
    <3> QED BY <3>1 DEF Range
  <2> QED BY <2>1, <2>2
<1>8. l \in Seq(Nat) /\ DOMAIN l = DOMAIN k /\ l[Head(f)] = phys
      /\ \A v \in DOMAIN k : v # Head(f) => l[v] = k[v]
  <2>1. k \in [1 .. Len(k) -> Nat] /\ Len(k) \in Nat
    BY <1>0
  <2>2. l \in [1 .. Len(k) -> Nat]
    BY <2>1
  <2>3. l \in Seq(Nat)
    BY <2>1, <2>2
  <2> QED BY <1>0, <1>2, <2>3
<1> HIDE DEF l
<1>9. Range(Tail(f)) = {v \in DOMAIN l : l[v] = 0}
  <2>1. \A v \in Range(Tail(f)) : v \in DOMAIN l /\ l[v] = 0
    BY <1>6, <1>8 DEF MapOK
  <2>2. \A v \in DOMAIN l : l[v] = 0 => v \in Range(Tail(f))
    BY <1>7, <1>8 DEF MapOK
  <2> QED BY <2>1, <2>2
<1>10. MapOK(l, Tail(f))
  BY <1>3, <1>5, <1>8, <1>9 DEF MapOK
<1>11. KeptIn(k, l)
  BY <1>2, <1>8 DEF KeptIn
<1> QED BY <1>2, <1>8, <1>10, <1>11 DEF l

MapInv == MapOK(kmap, freed)

\* kmap_phys_range: the pages are mapped to where they were asked to, at
\* addresses at which nothing was, and the rest is kept.
LEMMA MapPagesOK ==
    ASSUME MapInv, NEW phys \in Nat \ {0}, NEW pages \in Nat
    PROVE  LET r == MapPages(phys, pages)
           IN  /\ MapOK(r.kmap, r.freed) /\ KeptIn(kmap, r.kmap)
               /\ r.virt \in Nat \ {0}
               /\ \A n \in 0 .. pages - 1 :
                      /\ r.virt + n \in DOMAIN r.kmap /\ r.kmap[r.virt + n] = phys + n
                      /\ r.virt + n \in DOMAIN kmap => kmap[r.virt + n] = 0
<1>1. CASE pages = 1 /\ freed # <<>>
  <2> DEFINE l == [kmap EXCEPT ![Head(freed)] = phys]
  <2> DEFINE h == Head(freed)
  <2>1. /\ MapOK(l, Tail(freed)) /\ KeptIn(kmap, l)
        /\ h \in DOMAIN kmap /\ kmap[h] = 0
        /\ DOMAIN l = DOMAIN kmap /\ l[h] = phys
    BY <1>1, TakenOK DEF MapInv
  <2>2. MapPages(phys, pages) = [virt |-> h, kmap |-> l, freed |-> Tail(freed)]
    BY <1>1 DEF MapPages
  <2>3. h \in Nat \ {0}
    BY <2>1 DEF MapInv, MapOK
  <2>4. \A n \in 0 .. pages - 1 : n = 0 /\ h + n = h /\ phys + n = phys
    BY <1>1, <2>3
  <2> HIDE DEF l, h
  <2> QED BY <2>1, <2>2, <2>3, <2>4
<1>2. CASE ~(pages = 1 /\ freed # <<>>)
  <2> DEFINE g == [i \in 1 .. pages |-> phys + i - 1]
  <2> DEFINE l == kmap \o g
  <2>0. PagesFrom(g, phys, pages)
    BY PagesFromIs
  <2> DEFINE h == Len(kmap) + 1
  <2>a. GrownBy(kmap, l, phys, pages)
    <3> HIDE DEF g
    <3> QED BY <2>0, Grown DEF MapInv, MapOK
  <2>b. MapOK(l, freed) /\ KeptIn(kmap, l)
    <3> HIDE DEF l, g
    <3> QED BY <2>a, GrownOK DEF MapInv
  <2>1. /\ \A n \in 1 .. pages : Len(kmap) + n \in DOMAIN l /\ l[Len(kmap) + n] = phys + n - 1
        /\ \A n \in 1 .. pages : Len(kmap) + n \notin DOMAIN kmap
    BY <2>a DEF GrownBy
  <2>2. MapPages(phys, pages) = [virt |-> h, kmap |-> l, freed |-> freed]
    BY <1>2 DEF MapPages
  <2>3. Len(kmap) \in Nat /\ h \in Nat \ {0}
    BY DEF MapInv, MapOK
  <2>4. \A n \in 0 .. pages - 1 : n + 1 \in 1 .. pages /\ h + n = Len(kmap) + (n + 1) /\ phys + (n + 1) - 1 = phys + n
    BY <2>3
  <2> HIDE DEF l, h
  <2>5. \A n \in 0 .. pages - 1 : /\ h + n \in DOMAIN l /\ l[h + n] = phys + n
                                  /\ h + n \notin DOMAIN kmap
    BY <2>1, <2>4
  <2>6. /\ MapPages(phys, pages).virt = h /\ MapPages(phys, pages).kmap = l
        /\ MapPages(phys, pages).freed = freed
    BY <2>2
  <2> QED BY <2>b, <2>3, <2>5, <2>6
<1> QED BY <1>1, <1>2

\* A page that was just mapped and is given back.
LEMMA UnmappedOK ==
    ASSUME MapInv, NEW phys \in Nat \ {0}
    PROVE  LET u == Unmapped(MapPages(phys, 1))
           IN  MapOK(u.kmap, u.freed) /\ KeptIn(kmap, u.kmap)
<1> DEFINE r == MapPages(phys, 1)
<1> DEFINE k == r.kmap
<1> DEFINE f == r.freed
<1> DEFINE h == r.virt
<1>1. /\ MapOK(k, f) /\ KeptIn(kmap, k)
      /\ h \in Nat \ {0}
      /\ h \in DOMAIN k /\ k[h] = phys
      /\ h \in DOMAIN kmap => kmap[h] = 0
  <2>1. 0 \in 0 .. 1 - 1 /\ 1 \in Nat
    OBVIOUS
  <2>2. /\ MapOK(k, f) /\ KeptIn(kmap, k)
        /\ h \in Nat \ {0}
        /\ \A n \in 0 .. 1 - 1 :
                      /\ h + n \in DOMAIN k /\ k[h + n] = phys + n
                      /\ h + n \in DOMAIN kmap => kmap[h + n] = 0
    BY <2>1, MapPagesOK
  <2>3. h + 0 = h /\ phys + 0 = phys
    BY <2>2
  <2> HIDE DEF r, k, f, h
  <2> QED BY <2>1, <2>2, <2>3
<1> DEFINE l == [k EXCEPT ![h] = 0]
<1> DEFINE g == <<h>> \o f
<1>2. Unmapped(r).kmap = l /\ Unmapped(r).freed = g
  <2>1. r = [virt |-> r.virt, kmap |-> r.kmap, freed |-> r.freed]
    BY DEF MapPages
  <2> HIDE DEF r
  <2> QED BY <2>1 DEF Unmapped
<1> HIDE DEF r, k, f, h
<1>3. k \in Seq(Nat) /\ f \in Seq(Nat) /\ DOMAIN k = 1 .. Len(k) /\ DOMAIN f = 1 .. Len(f)
      /\ Len(f) \in Nat
  BY <1>1 DEF MapOK
<1>4. l \in Seq(Nat) /\ DOMAIN l = DOMAIN k /\ l[h] = 0 /\ \A v \in DOMAIN k : v # h => l[v] = k[v]
  <2>1. k \in [1 .. Len(k) -> Nat] /\ Len(k) \in Nat
    BY <1>3
  <2>2. l \in [1 .. Len(k) -> Nat]
    BY <2>1
  <2>3. l \in Seq(Nat)
    BY <2>1, <2>2
  <2> QED BY <1>1, <1>3, <2>3
<1>5. g \in Seq(Nat) /\ Len(g) = Len(f) + 1 /\ DOMAIN g = 1 .. Len(f) + 1 /\ g[1] = h
      /\ \A i \in 1 .. Len(f) : g[i + 1] = f[i]
  <2>1. g \in Seq(Nat) /\ Len(g) = Len(f) + 1 /\ DOMAIN g = 1 .. Len(f) + 1 /\ g[1] = h
    BY <1>1, <1>3
  <2>2. ASSUME NEW i \in 1 .. Len(f) PROVE g[i + 1] = f[i]
    <3>1. i + 1 > 1 /\ i + 1 <= Len(f) + 1 /\ (i + 1) - 1 = i /\ Len(<<h>>) = 1
      BY <1>3
    <3> QED BY <1>1, <1>3, <2>1, <3>1
  <2> QED BY <2>1, <2>2
<1> HIDE DEF l, g
<1>6. h \notin Range(f)
  BY <1>1 DEF MapOK
<1>7. \A i \in DOMAIN g : i = 1 \/ (i - 1 \in 1 .. Len(f) /\ g[i] = f[i - 1])
  <2> SUFFICES ASSUME NEW i \in DOMAIN g, i # 1 PROVE i - 1 \in 1 .. Len(f) /\ g[i] = f[i - 1]
    OBVIOUS
  <2>1. i - 1 \in 1 .. Len(f) /\ (i - 1) + 1 = i
    BY <1>3, <1>5
  <2> QED BY <1>5, <2>1
<1>8. IsInjective(g)
  <2> SUFFICES ASSUME NEW i \in DOMAIN g, NEW j \in DOMAIN g, g[i] = g[j] PROVE i = j
    BY DEF IsInjective
  <2>1. CASE i = 1 /\ j # 1
    <3>1. j - 1 \in DOMAIN f /\ g[j] = f[j - 1]
      BY <1>3, <1>7, <2>1
    <3> QED BY <1>5, <1>6, <2>1, <3>1 DEF Range
  <2>2. CASE i # 1 /\ j = 1
    <3>1. i - 1 \in DOMAIN f /\ g[i] = f[i - 1]
      BY <1>3, <1>7, <2>2
    <3> QED BY <1>5, <1>6, <2>2, <3>1 DEF Range
  <2>3. CASE i # 1 /\ j # 1
    <3>1. i - 1 \in DOMAIN f /\ j - 1 \in DOMAIN f /\ f[i - 1] = f[j - 1]
      BY <1>3, <1>7, <2>3
    <3>2. i - 1 = j - 1
      BY <1>1, <3>1 DEF MapOK, IsInjective
    <3> QED BY <1>3, <1>5, <3>2
  <2> QED BY <2>1, <2>2, <2>3
<1>9. \A v : v \in Range(g) <=> v = h \/ v \in Range(f)
  <2>1. ASSUME NEW i \in DOMAIN g PROVE g[i] = h \/ g[i] \in Range(f)
    BY <1>3, <1>5, <1>7 DEF Range
  <2>2. ASSUME NEW i \in DOMAIN f PROVE f[i] \in Range(g)
    <3>1. i + 1 \in DOMAIN g /\ g[i + 1] = f[i]
      BY <1>3, <1>5
    <3> QED BY <3>1 DEF Range
  <2>3. h \in Range(g)
    <3>1. 1 \in DOMAIN g
      BY <1>3, <1>5
    <3> QED BY <1>5, <3>1 DEF Range
  <2>4. \A v : v \in Range(g) => v = h \/ v \in Range(f)
    BY <2>1 DEF Range
  <2>5. \A v : v \in Range(f) => v \in Range(g)
    BY <2>2 DEF Range
  <2> QED BY <2>3, <2>4, <2>5
<1>10. Range(g) = {v \in DOMAIN l : l[v] = 0}
  <2>1. \A v : v \in Range(f) <=> v \in DOMAIN k /\ k[v] = 0
    BY <1>1 DEF MapOK
  <2>2. \A v : v \in Range(g) <=> v \in DOMAIN l /\ l[v] = 0
    BY <1>1, <1>4, <1>9, <2>1
  <2> QED BY <2>2
<1>11. MapOK(l, g)
  BY <1>4, <1>5, <1>8, <1>10 DEF MapOK
<1>12. KeptIn(kmap, l)
  BY <1>1, <1>4 DEF KeptIn
<1> QED BY <1>2, <1>11, <1>12 DEF r

-----------------------------------------------------------------------------
(* The steps that set something up, and those that do not: interrupts,     *)
(* keys, calls of ps2_getch, and whatever stops the kernel.                *)

Aside == UNCHANGED <<m, phase, bootVars, acpiVars, pciVars, apicVars, mapVars, at>>

\* The steps that map pages, and the others that go on.
Maps ==
    \/ remap_framebuffer \/ prepare_acpi_memory \/ setup_gdt_and_tss \/ VisitFunction
    \/ ParseEntry \/ EnableLocalApic \/ MapController
Advances ==
    \/ initialize_memory \/ setup_idt \/ register_exception_interrupts
    \/ free_uefi_memory_and_remove_identity_mapping \/ initialize_acpi
    \/ StartEnumeration \/ EnumerationEnds \/ StartApic \/ prepare_syscalls
    \/ WriteLower \/ WriteUpper \/ RegisterHandler

LEMMA NextCases == [Next]_vars => Aside \/ Maps \/ Advances
<1>1. ASSUME NEW reason, Stop(reason) PROVE Aside
  BY <1>1 DEF Stop, Aside
<1>2. ASSUME NEW vector, Raise(vector) PROVE Aside
  BY <1>1, <1>2 DEF Raise, Aside
<1>3. ASSUME NEW signature, TableMissing(signature) PROVE Aside
  BY <1>1, <1>2, <1>3 DEF TableMissing
<1>4. AcpiRefused \/ MadtInvalid \/ EntryRefused \/ NoController \/ NoIoapic => Aside
  BY <1>1 DEF AcpiRefused, MadtInvalid, EntryRefused, NoController, NoIoapic
<1>5. PicInterrupt \/ NoHandler => Aside
  BY <1>2 DEF PicInterrupt, NoHandler
<1>6. KeyboardInterrupt \/ SpuriousEdge \/ Getch => Aside
  BY DEF KeyboardInterrupt, SpuriousEdge, Getch, Aside
<1>7. ASSUME NEW key \in Keys, Press(key) PROVE Aside
  BY <1>7 DEF Press, Aside
<1>8. Halted \/ UNCHANGED vars => Aside
  BY DEF Halted, vars, Aside
<1>9. Boot => Aside \/ Maps \/ Advances
  BY <1>3, <1>4 DEF Boot, Maps, Advances
<1> QED BY <1>5, <1>6, <1>7, <1>8, <1>9 DEF Next

\* The machine stays what it is, and what does not map leaves the map alone.
LEMMA MachineStays == [Next]_vars => m' = m
<1>1. ASSUME NEW from, NEW to, Step(from, to) PROVE m' = m
  BY <1>1 DEF Step
<1>2. Maps => m' = m
  BY <1>1 DEF Maps, remap_framebuffer, prepare_acpi_memory, setup_gdt_and_tss, VisitFunction, ParseEntry,
              EnableLocalApic, MapController
<1>3. Advances => m' = m
  BY <1>1 DEF Advances, initialize_memory, setup_idt, register_exception_interrupts,
       free_uefi_memory_and_remove_identity_mapping, initialize_acpi, StartEnumeration, EnumerationEnds,
       StartApic, prepare_syscalls, WriteLower, WriteUpper, RegisterHandler
<1> QED BY <1>2, <1>3, NextCases DEF Aside

LEMMA AdvancesKeepMap == Aside \/ Advances => UNCHANGED mapVars
<1>1. Advances => UNCHANGED mapVars
  BY DEF Advances, initialize_memory, setup_idt, register_exception_interrupts,
       free_uefi_memory_and_remove_identity_mapping, initialize_acpi, StartEnumeration, EnumerationEnds,
       StartApic, prepare_syscalls, WriteLower, WriteUpper, RegisterHandler
<1> QED BY <1>1 DEF Aside

-----------------------------------------------------------------------------
(* The ACPI memory.                                                        *)

\* A list that says where the ranges of a machine are mapped.
RemapEntry == [phys : Nat, virt : Nat, pages : Nat]
RangeMapped(e, k, r) ==
    /\ e \in RemapEntry /\ e.virt # 0
    /\ e.phys = r.phys /\ e.pages = r.pages
    /\ \A n \in 0 .. r.pages - 1 : e.virt + n \in DOMAIN k /\ k[e.virt + n] = r.phys + n
Remapped(list, k, ranges, n) ==
    /\ list \in Seq(RemapEntry) /\ Len(list) = n
    /\ \A i \in 1 .. n : RangeMapped(list[i], k, ranges[i])

AcpiRange == [phys : Nat \ {0}, pages : Nat]

\* It stays right as long as what is mapped is kept.
LEMMA RangeKept ==
    ASSUME NEW e, NEW k, NEW l, NEW r \in AcpiRange, RangeMapped(e, k, r), KeptIn(k, l)
    PROVE  RangeMapped(e, l, r)
<1>1. ASSUME NEW n \in 0 .. r.pages - 1 PROVE e.virt + n \in DOMAIN l /\ l[e.virt + n] = r.phys + n
  <2>1. r.phys + n # 0
    BY DEF AcpiRange
  <2>2. e.virt + n \in DOMAIN k /\ k[e.virt + n] = r.phys + n
    BY DEF RangeMapped
  <2> QED BY <2>1, <2>2 DEF KeptIn
<1> QED BY <1>1 DEF RangeMapped

LEMMA RemappedKept ==
    ASSUME NEW list, NEW k, NEW l, NEW ranges \in Seq(AcpiRange), NEW n \in 0 .. Len(ranges),
           Remapped(list, k, ranges, n), KeptIn(k, l)
    PROVE  Remapped(list, l, ranges, n)
<1>1. \A i \in 1 .. n : ranges[i] \in AcpiRange
  OBVIOUS
<1>2. \A i \in 1 .. n : RangeMapped(list[i], l, ranges[i])
  BY <1>1, RangeKept DEF Remapped
<1> QED BY <1>2 DEF Remapped

\* One iteration of the loop of prepare_acpi_memory.
LEMMA RemapRangeOK ==
    ASSUME NEW s, NEW f, MapOK(s.kmap, f), NEW ranges \in Seq(AcpiRange), NEW n \in 0 .. Len(ranges) - 1,
           Remapped(s.list, s.kmap, ranges, n)
    PROVE  LET t == RemapRange(s, ranges[n + 1])
           IN  MapOK(t.kmap, f) /\ KeptIn(s.kmap, t.kmap) /\ Remapped(t.list, t.kmap, ranges, n + 1)
<1> DEFINE r == ranges[n + 1]
<1> DEFINE k == s.kmap
<1> DEFINE t == RemapRange(s, r)
<1> DEFINE g == [i \in 1 .. r.pages |-> r.phys + i - 1]
<1> DEFINE e == [phys |-> r.phys, virt |-> Len(k) + 1, pages |-> r.pages]
<1>1. r \in AcpiRange /\ r.phys \in Nat \ {0} /\ r.pages \in Nat /\ r.phys \in Nat
  <2>1. n + 1 \in 1 .. Len(ranges)
    OBVIOUS
  <2>2. r \in AcpiRange
    BY <2>1
  <2> QED BY <2>2 DEF AcpiRange
<1>2. t.kmap = k \o g /\ t.list = Append(s.list, e)
  BY DEF RemapRange
<1>3. k \in Seq(Nat) /\ Len(k) \in Nat
  BY DEF MapOK
<1> HIDE DEF r, k, t
<1>4. PagesFrom(g, r.phys, r.pages)
  BY <1>1, PagesFromIs
<1> HIDE DEF g
<1>5. GrownBy(k, t.kmap, r.phys, r.pages)
  BY <1>1, <1>2, <1>3, <1>4, Grown
<1>6. MapOK(t.kmap, f) /\ KeptIn(k, t.kmap)
  BY <1>1, <1>5, GrownOK DEF k
<1>7. RangeMapped(e, t.kmap, r)
  <2>1. e \in RemapEntry /\ e.virt # 0 /\ e.phys = r.phys /\ e.pages = r.pages /\ e.virt = Len(k) + 1
    BY <1>1, <1>3 DEF RemapEntry
  <2>2. \A i \in 1 .. r.pages : Len(k) + i \in DOMAIN t.kmap /\ t.kmap[Len(k) + i] = r.phys + i - 1
    BY <1>5 DEF GrownBy
  <2>3. \A i \in 0 .. r.pages - 1 : i + 1 \in 1 .. r.pages /\ (Len(k) + 1) + i = Len(k) + (i + 1)
                                    /\ r.phys + (i + 1) - 1 = r.phys + i
    BY <1>1, <1>3
  <2> HIDE DEF e
  <2>4. \A i \in 0 .. r.pages - 1 : e.virt + i \in DOMAIN t.kmap /\ t.kmap[e.virt + i] = r.phys + i
    <3> SUFFICES ASSUME NEW i \in 0 .. r.pages - 1
                 PROVE  e.virt + i \in DOMAIN t.kmap /\ t.kmap[e.virt + i] = r.phys + i
      OBVIOUS
    <3> DEFINE j == i + 1
    <3>1. j \in 1 .. r.pages /\ e.virt + i = Len(k) + j /\ r.phys + j - 1 = r.phys + i
      BY <2>1, <2>3
    <3> HIDE DEF j
    <3>2. Len(k) + j \in DOMAIN t.kmap /\ t.kmap[Len(k) + j] = r.phys + j - 1
      BY <2>2, <3>1, Zenon
    <3> QED BY <3>1, <3>2, Zenon
  <2> QED BY <2>1, <2>4 DEF RangeMapped
<1>8. Remapped(s.list, t.kmap, ranges, n)
  <2>1. n \in 0 .. Len(ranges)
    OBVIOUS
  <2> QED BY <1>6, <2>1, RemappedKept DEF k
<1>9. e \in RemapEntry
  BY <1>7 DEF RangeMapped
<1> HIDE DEF e
<1>10. /\ t.list \in Seq(RemapEntry) /\ Len(t.list) = n + 1
       /\ \A i \in 1 .. n : t.list[i] = s.list[i]
       /\ t.list[n + 1] = e
  <2>1. s.list \in Seq(RemapEntry) /\ Len(s.list) = n
    BY <1>8 DEF Remapped
  <2> QED BY <1>2, <1>9, <2>1
<1>11. ASSUME NEW i \in 1 .. n + 1 PROVE RangeMapped(t.list[i], t.kmap, ranges[i])
  <2>1. CASE i = n + 1
    BY <1>7, <1>10, <2>1 DEF r
  <2>2. CASE i # n + 1
    <3>1. i \in 1 .. n
      BY <2>2
    <3> QED BY <1>8, <1>10, <3>1 DEF Remapped
  <2> QED BY <2>1, <2>2
<1>12. Remapped(t.list, t.kmap, ranges, n + 1)
  BY <1>10, <1>11 DEF Remapped
<1> QED BY <1>6, <1>12 DEF t, r, k

-----------------------------------------------------------------------------
(* prepare_acpi_memory goes through the ranges one after the other         *)
(* (FoldLeft).  What holds before the first and is kept by RemapRange      *)
(* holds after the last.                                                   *)

\* The equation of the fold, for the ranges 1 .. n.
Iterated(f, first, seq, n) ==
    f = [s \in SUBSET (1 .. n) |->
            IF s = {} THEN first ELSE RemapRange(f[s \ {Max(s)}], seq[Max(s)])]

\* It has a solution, by induction on the number of ranges.
LEMMA FoldExists ==
    ASSUME NEW first, NEW seq
    PROVE  \A n \in Nat : \E f : Iterated(f, first, seq, n)
<1> DEFINE S == {n \in Nat : \E f : Iterated(f, first, seq, n)}
<1>1. 0 \in S
  <2> DEFINE f == [s \in SUBSET (1 .. 0) |-> first]
  <2>1. \A s \in SUBSET (1 .. 0) : s = {}
    OBVIOUS
  <2>2. Iterated(f, first, seq, 0)
    BY <2>1 DEF Iterated
  <2> QED BY <2>2
<1>2. ASSUME NEW n \in Nat, n \in S PROVE n + 1 \in S
  <2>1. PICK f : Iterated(f, first, seq, n)
    BY <1>2
  <2> DEFINE e == n + 1
  <2> DEFINE T == SUBSET (1 .. n)
  <2> DEFINE U == SUBSET (1 .. e)
  <2> DEFINE g == [s \in U |-> IF e \in s THEN RemapRange(f[s \ {e}], seq[e]) ELSE f[s]]
  <2>2. /\ \A s \in U : e \notin s => s \in T
        /\ \A s \in U : s \ {e} \in T
        /\ \A s \in T : s \in U /\ e \notin s
        /\ \A s \in U : e \in s => s # {} /\ \A x \in s : x \in Int /\ x <= e
    OBVIOUS
  <2>3. ASSUME NEW s \in U, e \in s PROVE Max(s) = e
    <3>1. e \in Int /\ \A x \in s : x \in Int /\ e >= x
      BY <2>2, <2>3
    <3>2. \A y \in s : (\A x \in s : y >= x) => y = e
      BY <2>3, <3>1
    <3> HIDE DEF e, U
    <3> QED BY <2>3, <3>1, <3>2 DEF Max
  <2>4. f = [s \in T |-> IF s = {} THEN first ELSE RemapRange(f[s \ {Max(s)}], seq[Max(s)])]
    BY <2>1 DEF Iterated
  <2> HIDE DEF T, U, e
  <2>5. ASSUME NEW s \in U
        PROVE  g[s] = IF s = {} THEN first ELSE RemapRange(g[s \ {Max(s)}], seq[Max(s)])
    <3>1. CASE e \in s
      <4>1. Max(s) = e /\ s # {} /\ s \ {e} \in T
        BY <2>2, <2>3, <3>1
      <4>2. g[s \ {e}] = f[s \ {e}]
        BY <2>2, <4>1
      <4>3. g[s] = RemapRange(f[s \ {e}], seq[e])
        BY <3>1
      <4> QED BY <4>1, <4>2, <4>3
    <3>2. CASE e \notin s
      <4>1. s \in T /\ g[s] = f[s]
        BY <2>2, <3>2
      <4>2. s \ {Max(s)} \in T
        BY <4>1 DEF T
      <4>3. g[s \ {Max(s)}] = f[s \ {Max(s)}]
        BY <2>2, <4>2
      <4> QED BY <2>4, <4>1, <4>3
    <3> QED BY <3>1, <3>2
  <2>6. g = [s \in U |-> IF s = {} THEN first ELSE RemapRange(g[s \ {Max(s)}], seq[Max(s)])]
    BY <2>5
  <2>7. Iterated(g, first, seq, n + 1)
    BY <2>6 DEF Iterated, U, e
  <2> QED BY <2>7
<1>3. Nat \subseteq S
  <2> HIDE DEF S
  <2> QED BY <1>1, <1>2, NatSetInduction
<1> QED BY <1>3

\* The fold over the ranges of seq.
LEMMA FoldIsIterated ==
    ASSUME NEW first, NEW seq \in Seq(AcpiRange)
    PROVE  \E f : /\ Iterated(f, first, seq, Len(seq))
                  /\ FoldLeft(RemapRange, first, seq) = f[1 .. Len(seq)]
<1> DEFINE W == CHOOSE f : Iterated(f, first, seq, Len(seq))
<1>1. Len(seq) \in Nat /\ DOMAIN seq = 1 .. Len(seq)
  OBVIOUS
<1>2. Iterated(W, first, seq, Len(seq))
  BY <1>1, FoldExists
<1>3. FoldLeft(RemapRange, first, seq) = W[1 .. Len(seq)]
  BY <1>1 DEF FoldLeft, MapThenFoldSet, Iterated
<1> QED BY <1>2, <1>3

\* Induction over the ranges: S holds the states of the loop by the number of
\* ranges that are through.
LEMMA RemapInduction ==
    ASSUME NEW first, NEW seq \in Seq(AcpiRange), NEW S, <<0, first>> \in S,
           \A n \in 0 .. Len(seq) - 1 : \A l :
               <<n, l>> \in S => <<n + 1, RemapRange(l, seq[n + 1])>> \in S
    PROVE  <<Len(seq), FoldLeft(RemapRange, first, seq)>> \in S
<1> DEFINE N == Len(seq)
<1>1. N \in Nat
  OBVIOUS
<1> HIDE DEF N
<1>2. PICK f : /\ Iterated(f, first, seq, N)
               /\ FoldLeft(RemapRange, first, seq) = f[1 .. N]
  BY FoldIsIterated DEF N
<1> DEFINE T == {n \in Nat : n <= N => <<n, f[1 .. n]>> \in S}
<1>3. 0 \in T
  <2>1. 1 .. 0 = {} /\ {} \in SUBSET (1 .. N)
    OBVIOUS
  <2>2. f[{}] = first
    BY <1>2, <2>1 DEF Iterated
  <2> QED BY <2>1, <2>2
<1>4. ASSUME NEW n \in Nat, n \in T PROVE n + 1 \in T
  <2> SUFFICES ASSUME n + 1 <= N PROVE <<n + 1, f[1 .. n + 1]>> \in S
    OBVIOUS
  <2> DEFINE s == 1 .. n + 1
  <2>0. n + 1 \in s /\ n + 1 \in Int /\ \A x \in s : x \in Int /\ n + 1 >= x
    OBVIOUS
  <2>1. s \in SUBSET (1 .. N) /\ s # {} /\ s \ {n + 1} = 1 .. n /\ n \in 0 .. N - 1 /\ n <= N
    <3>1. \A x : x \in s \ {n + 1} <=> x \in 1 .. n
      OBVIOUS
    <3>2. n \in 0 .. N - 1 /\ n <= N /\ s \in SUBSET (1 .. N)
      BY <1>1
    <3> HIDE DEF s
    <3> QED BY <2>0, <3>1, <3>2
  <2>2. Max(s) = n + 1
    <3>1. n + 1 \in s /\ \A x \in s : n + 1 >= x
      BY <2>0
    <3> HIDE DEF s
    <3>2. \A y \in s : (\A x \in s : y >= x) => y = n + 1
      BY <2>0
    <3> QED BY <3>1, <3>2 DEF Max
  <2> HIDE DEF s
  <2>3. f[s] = RemapRange(f[1 .. n], seq[n + 1])
    BY <1>2, <2>1, <2>2 DEF Iterated
  <2>4. <<n, f[1 .. n]>> \in S
    BY <1>4, <2>1
  <2> QED BY <2>1, <2>3, <2>4 DEF s, N
<1>5. N \in T
  <2>1. Nat \subseteq T
    <3> HIDE DEF T
    <3> QED BY <1>3, <1>4, NatSetInduction
  <2> QED BY <1>1, <2>1
<1> QED BY <1>1, <1>2, <1>5 DEF N

\* All the iterations: every range is mapped, and what was mapped is kept.
LEMMA RemapAll ==
    ASSUME NEW k, NEW f, MapOK(k, f), NEW ranges \in Seq(AcpiRange)
    PROVE  LET t == FoldLeft(RemapRange, [list |-> <<>>, kmap |-> k], ranges)
           IN  MapOK(t.kmap, f) /\ KeptIn(k, t.kmap) /\ Remapped(t.list, t.kmap, ranges, Len(ranges))
<1> DEFINE N == Len(ranges)
<1> DEFINE first == [list |-> <<>>, kmap |-> k]
<1> DEFINE t == FoldLeft(RemapRange, first, ranges)
<1> DEFINE Good(n, s) == MapOK(s.kmap, f) /\ KeptIn(k, s.kmap) /\ Remapped(s.list, s.kmap, ranges, n)
<1> DEFINE States == [list : Seq(RemapEntry), kmap : Seq(Nat)]
<1> DEFINE S == {p \in (0 .. N) \X States : Good(p[1], p[2])}
<1>1. Good(0, first)
  <2>1. first.kmap = k /\ first.list = <<>>
    OBVIOUS
  <2>2. KeptIn(k, k)
    BY DEF KeptIn
  <2>3. Remapped(<<>>, k, ranges, 0)
    BY DEF Remapped
  <2> QED BY <2>1, <2>2, <2>3
<1>2. ASSUME NEW n \in 0 .. N - 1, NEW s, Good(n, s) PROVE Good(n + 1, RemapRange(s, ranges[n + 1]))
  <2> DEFINE u == RemapRange(s, ranges[n + 1])
  <2>1. MapOK(u.kmap, f) /\ KeptIn(s.kmap, u.kmap) /\ Remapped(u.list, u.kmap, ranges, n + 1)
    BY <1>2, RemapRangeOK
  <2> HIDE DEF u
  <2>2. KeptIn(k, u.kmap)
    BY <1>2, <2>1, KeptTransitive
  <2>3. Good(n + 1, u)
    BY <2>1, <2>2
  <2> QED BY <2>3 DEF u
<1>3. <<0, first>> \in S
  <2>1. first \in States /\ 0 \in 0 .. N
    BY DEF MapOK
  <2> HIDE DEF first, States, Good
  <2> QED BY <1>1, <2>1
<1>4. ASSUME NEW n \in 0 .. N - 1, NEW s, <<n, s>> \in S
      PROVE  <<n + 1, RemapRange(s, ranges[n + 1])>> \in S
  <2> DEFINE u == RemapRange(s, ranges[n + 1])
  <2>1. Good(n, s)
    <3> HIDE DEF Good
    <3> QED BY <1>4
  <2>2. Good(n + 1, u)
    BY <1>2, <2>1
  <2>3. u = [list |-> u.list, kmap |-> u.kmap]
    BY DEF RemapRange
  <2> HIDE DEF u
  <2>4. u.list \in Seq(RemapEntry) /\ u.kmap \in Seq(Nat)
    BY <2>2 DEF MapOK, Remapped
  <2>5. u \in States /\ n + 1 \in 0 .. N
    BY <2>3, <2>4
  <2> HIDE DEF Good, States
  <2>6. <<n + 1, u>> \in S
    BY <2>2, <2>5
  <2> QED BY <2>6 DEF u
<1>5. <<N, t>> \in S
  <2> HIDE DEF S, first
  <2> QED BY <1>3, <1>4, RemapInduction
<1>6. Good(N, t)
  <2> HIDE DEF Good, t, States, N
  <2> QED BY <1>5
<1> QED BY <1>6

-----------------------------------------------------------------------------
(* The tables that the kernel finds depend on the machine only.            *)

EarlyPhases == {"memory", "framebuffer", "acpi memory"}
TablePhases == {"pci", "functions", "apic", "madt", "ahci", "syscalls", "keyboard", "destination",
                "handler", "idle"}
Phases == EarlyPhases \cup {"gdt", "idt", "exceptions", "reclaim", "acpi"} \cup TablePhases

AcpiInv == phase \notin EarlyPhases => Remapped(g_remap_list, kmap, m.acpi, Len(m.acpi))

LEMMA MachineFacts ==
    ASSUME m \in Machines
    PROVE  TablesOK(m) /\ FunctionsOK(m) /\ BarOK(m) /\ KeyboardOK(m) /\ ScreenOK(m)
           /\ m.tss \in 0 .. Place(Byte, 8) - 1
BY MachineAssumption

LEMMA AcpiRanges == ASSUME m \in Machines PROVE m.acpi \in Seq(AcpiRange)
BY MachineFacts DEF TablesOK, AcpiRange

\* get_virtual_acpi_address finds exactly the pages of the ACPI memory.
LEMMA VirtualAddress ==
    ASSUME m \in Machines, Remapped(g_remap_list, kmap, m.acpi, Len(m.acpi)), NEW p \in Nat
    PROVE  LET v == get_virtual_acpi_address(p)
           IN  IF p \in AcpiPages(m) THEN v \in Nat \ {0} /\ v \in DOMAIN kmap /\ kmap[v] = p ELSE v = 0
<1> DEFINE I == {i \in 1 .. Len(g_remap_list) : range_contains(p, g_remap_list[i])}
<1> DEFINE i == Min(I)
<1> DEFINE v == get_virtual_acpi_address(p)
<1>1. v = IF I = {} THEN 0 ELSE IF i = 0 THEN 0 ELSE g_remap_list[i].virt - g_remap_list[i].phys + p
  BY DEF get_virtual_acpi_address, SelectInSeq
<1>2. /\ m.acpi \in Seq(AcpiRange) /\ Len(m.acpi) \in Nat /\ DOMAIN m.acpi = 1 .. Len(m.acpi)
      /\ Len(g_remap_list) = Len(m.acpi)
  BY AcpiRanges DEF Remapped
<1>3. I \in SUBSET Nat
  BY <1>2
<1>4. CASE I # {}
  <2>1. i \in I
    BY <1>3, <1>4, MinOf
  <2>2. i \in 1 .. Len(m.acpi) /\ range_contains(p, g_remap_list[i])
    BY <1>2, <2>1
  <2> DEFINE e == g_remap_list[i]
  <2> DEFINE r == m.acpi[i]
  <2>3. v = e.virt - e.phys + p
    BY <1>1, <1>4, <2>2
  <2> HIDE DEF i, I, v
  <2>4. RangeMapped(e, kmap, r) /\ r \in AcpiRange
    BY <1>2, <2>2 DEF Remapped
  <2>5. e.phys <= p /\ p < e.phys + e.pages
    BY <2>2 DEF range_contains
  <2> DEFINE n == p - r.phys
  <2>6. /\ e.virt \in Nat /\ e.virt # 0 /\ e.phys = r.phys /\ e.pages = r.pages
        /\ r.phys \in Nat /\ r.pages \in Nat
    BY <2>4 DEF RangeMapped, AcpiRange, RemapEntry
  <2>7. n \in 0 .. r.pages - 1 /\ v = e.virt + n /\ r.phys + n = p /\ p \in r.phys .. r.phys + r.pages - 1
    <3> DEFINE a == e.virt
    <3> DEFINE b == r.phys
    <3> DEFINE c == r.pages
    <3>1. a \in Nat /\ b \in Nat /\ c \in Nat /\ v = a - b + p /\ b <= p /\ p < b + c
      BY <2>3, <2>5, <2>6
    <3> HIDE DEF a, b, c
    <3>2. p - b \in 0 .. c - 1 /\ v = a + (p - b) /\ b + (p - b) = p /\ p \in b .. b + c - 1
      BY <3>1
    <3> QED BY <3>2 DEF a, b, c
  <2> HIDE DEF n
  <2>8. v \in Nat \ {0} /\ v \in DOMAIN kmap /\ kmap[v] = p
    <3>1. v \in Nat \ {0}
      BY <2>6, <2>7
    <3>2. e.virt + n \in DOMAIN kmap /\ kmap[e.virt + n] = r.phys + n
      BY <2>4, <2>7 DEF RangeMapped
    <3> QED BY <2>7, <3>1, <3>2
  <2>9. p \in AcpiPages(m)
    BY <1>2, <2>2, <2>7 DEF AcpiPages
  <2> QED BY <2>8, <2>9 DEF v
<1>5. CASE I = {}
  <2>1. v = 0
    BY <1>1, <1>5
  <2>2. ASSUME NEW j \in DOMAIN m.acpi, p \in m.acpi[j].phys .. m.acpi[j].phys + m.acpi[j].pages - 1
        PROVE  FALSE
    <3>1. j \in 1 .. Len(m.acpi) /\ RangeMapped(g_remap_list[j], kmap, m.acpi[j]) /\ m.acpi[j] \in AcpiRange
      BY <1>2, <2>2 DEF Remapped
    <3>2. range_contains(p, g_remap_list[j])
      <4> DEFINE r == m.acpi[j]
      <4>1. g_remap_list[j].phys = r.phys /\ g_remap_list[j].pages = r.pages
            /\ r.phys \in Nat /\ r.pages \in Nat
        BY <3>1 DEF RangeMapped, AcpiRange
      <4>2. p \in r.phys .. r.phys + r.pages - 1
        BY <2>2
      <4> HIDE DEF r
      <4> QED BY <4>1, <4>2 DEF range_contains
    <3>3. j \in I
      BY <1>2, <3>1, <3>2
    <3> QED BY <1>5, <3>3
  <2>3. p \notin AcpiPages(m)
    BY <2>2 DEF AcpiPages
  <2> QED BY <2>1, <2>3
<1> QED BY <1>4, <1>5

\* Every page of the firmware's ACPI memory is readable.
LEMMA AcpiReadable == m \in Machines /\ AcpiInv => AcpiMemoryReadable
<1> SUFFICES ASSUME m \in Machines, AcpiInv, phase \notin EarlyPhases,
                    NEW i \in DOMAIN m.acpi, NEW page \in m.acpi[i].phys .. m.acpi[i].phys + m.acpi[i].pages - 1
             PROVE  LET v == get_virtual_acpi_address(page) IN v \in DOMAIN kmap /\ kmap[v] = page
  BY DEF AcpiMemoryReadable, EarlyPhases
<1>1. page \in AcpiPages(m)
  BY DEF AcpiPages
<1>2. m.acpi[i] \in AcpiRange
  BY AcpiRanges
<1>3. page \in Nat
  BY <1>2 DEF AcpiRange
<1> QED BY <1>1, <1>3, VirtualAddress DEF AcpiInv

-----------------------------------------------------------------------------
\* The page of the XSDT, the pages it lists, and the first of them that has a
\* signature or is outside of the ACPI memory.
XsdtPage == m.tables[m.rsdp].xsdt
EntryPages == m.tables[XsdtPage].entries
Hits(signature) ==
    {i \in DOMAIN EntryPages : EntryPages[i] \notin AcpiPages(m) \/ m.tables[EntryPages[i]].signature = signature}
FoundPage(signature) == EntryPages[Min(Hits(signature))]
Found(signature) == Hits(signature) # {} /\ FoundPage(signature) \in AcpiPages(m)
TheTable(signature) == m.tables[FoundPage(signature)]

XsdtOK ==
    /\ m.rsdp \in AcpiPages(m) /\ m.tables[m.rsdp].signature = "RSD PTR"
    /\ XsdtPage \in AcpiPages(m) /\ m.tables[XsdtPage].signature = "XSDT"
TableInv == phase \in TablePhases => XsdtOK /\ g_xsdt = get_virtual_acpi_address(XsdtPage)

\* What the firmware promises about the tables it names.
LEMMA XsdtTyped ==
    ASSUME m \in Machines, XsdtOK
    PROVE  /\ XsdtPage \in Nat /\ EntryPages \in Seq(Nat)
           /\ \A i \in DOMAIN EntryPages : EntryPages[i] \in AcpiPages(m) => EntryPages[i] \in DOMAIN m.tables
<1>1. TablesOK(m)
  BY MachineFacts
<1>2. m.rsdp \in DOMAIN m.tables /\ m.tables[m.rsdp] \in RSDP
  BY <1>1 DEF TablesOK, XsdtOK
<1>3. XsdtPage \in Nat
  BY <1>2 DEF XsdtPage, RSDP
<1>4. XsdtPage \in {m.tables[p].xsdt : p \in {p \in DOMAIN m.tables : m.tables[p].signature = "RSD PTR"}}
  BY <1>2 DEF XsdtPage, XsdtOK
<1>5. XsdtPage \in DOMAIN m.tables
  BY <1>1, <1>4 DEF TablesOK, XsdtOK
<1>6. m.tables[XsdtPage] \in XSDT
  BY <1>1, <1>5 DEF TablesOK, XsdtOK
<1>7. EntryPages \in Seq(Nat)
  BY <1>6 DEF EntryPages, XSDT
<1>8. ASSUME NEW i \in DOMAIN EntryPages, EntryPages[i] \in AcpiPages(m) PROVE EntryPages[i] \in DOMAIN m.tables
  <2>1. EntryPages[i] \in Range(m.tables[XsdtPage].entries)
    BY DEF Range, EntryPages
  <2>2. EntryPages[i] \in UNION {Range(m.tables[p].entries) : p \in {p \in DOMAIN m.tables : m.tables[p].signature = "XSDT"}}
    BY <1>5, <2>1 DEF XsdtOK
  <2> QED BY <1>1, <1>8, <2>2 DEF TablesOK
<1> QED BY <1>3, <1>7, <1>8

\* find_table gives the page that is found, and what lies there.
LEMMA FindTable ==
    ASSUME m \in Machines, AcpiInv, TableInv, phase \in TablePhases, NEW signature
    PROVE  /\ find_table(signature) > 0 <=> Found(signature)
           /\ Found(signature) => /\ find_table(signature) \in Nat
                                  /\ TableAt(find_table(signature)) = TheTable(signature)
                                  /\ FoundPage(signature) \in DOMAIN m.tables
                                  /\ TheTable(signature).signature = signature
<1>1. Remapped(g_remap_list, kmap, m.acpi, Len(m.acpi))
  BY DEF AcpiInv, EarlyPhases, TablePhases
<1>2. XsdtOK /\ g_xsdt = get_virtual_acpi_address(XsdtPage)
  BY DEF TableInv
<1>3. /\ XsdtPage \in Nat /\ EntryPages \in Seq(Nat)
      /\ \A i \in DOMAIN EntryPages : EntryPages[i] \in AcpiPages(m) => EntryPages[i] \in DOMAIN m.tables
  BY <1>2, XsdtTyped
<1>4. kmap[g_xsdt] = XsdtPage
  BY <1>1, <1>2, <1>3, VirtualAddress DEF XsdtOK
<1>5. TableAt(g_xsdt).entries = EntryPages
  BY <1>4 DEF TableAt, EntryPages
<1> DEFINE N == Len(EntryPages)
<1>6. N \in Nat /\ DOMAIN EntryPages = 1 .. N
  BY <1>3
<1>7. Entries = [i \in 1 .. N |-> get_virtual_acpi_address(EntryPages[i])]
  BY <1>5, <1>6 DEF Entries
<1>8. Len(Entries) = N /\ \A i \in 1 .. N : Entries[i] = get_virtual_acpi_address(EntryPages[i])
  BY <1>6, <1>7
<1>9. \A i \in 1 .. N : IF EntryPages[i] \in AcpiPages(m)
                        THEN Entries[i] \in Nat \ {0} /\ TableAt(Entries[i]) = m.tables[EntryPages[i]]
                        ELSE Entries[i] = 0
  <2> SUFFICES ASSUME NEW i \in 1 .. N
               PROVE  IF EntryPages[i] \in AcpiPages(m)
                        THEN Entries[i] \in Nat \ {0} /\ TableAt(Entries[i]) = m.tables[EntryPages[i]]
                        ELSE Entries[i] = 0
    OBVIOUS
  <2>1. EntryPages[i] \in Nat
    BY <1>3, <1>6
  <2> QED BY <1>1, <1>8, <2>1, VirtualAddress DEF TableAt
<1> DEFINE I == {i \in 1 .. Len(Entries) : Entries[i] = 0 \/ TableAt(Entries[i]).signature = signature}
<1> DEFINE w == Min(I)
<1>10. find_table(signature) = IF I = {} THEN 0 ELSE IF w = 0 THEN 0 ELSE IF Entries[w] = 0 THEN -1 ELSE Entries[w]
  BY DEF find_table, SelectInSeq
<1>11. I = Hits(signature)
  <2>1. \A i \in 1 .. N : (Entries[i] = 0 \/ TableAt(Entries[i]).signature = signature) <=>
                         (EntryPages[i] \notin AcpiPages(m) \/ m.tables[EntryPages[i]].signature = signature)
    BY <1>9
  <2> QED BY <1>6, <1>8, <2>1 DEF Hits
<1>12. I \in SUBSET Nat
  BY <1>6, <1>8
<1>13. CASE I = {}
  <2>1. find_table(signature) = 0 /\ ~Found(signature)
    BY <1>10, <1>11, <1>13 DEF Found
  <2> QED BY <2>1
<1>14. CASE I # {}
  <2>1. w \in I
    BY <1>12, <1>14, MinOf
  <2>2. w \in 1 .. N /\ (Entries[w] = 0 \/ TableAt(Entries[w]).signature = signature)
    BY <1>8, <2>1
  <2>3. FoundPage(signature) = EntryPages[w]
    BY <1>11 DEF FoundPage
  <2>4. find_table(signature) = IF Entries[w] = 0 THEN -1 ELSE Entries[w]
    BY <1>10, <1>14, <2>2
  <2>5. Found(signature) <=> EntryPages[w] \in AcpiPages(m)
    BY <1>11, <1>14, <2>3 DEF Found
  <2> HIDE DEF w, I, N
  <2>6. CASE EntryPages[w] \in AcpiPages(m)
    <3>1. Entries[w] \in Nat \ {0} /\ TableAt(Entries[w]) = m.tables[EntryPages[w]]
      BY <1>9, <2>2, <2>6
    <3>2. find_table(signature) = Entries[w] /\ TableAt(Entries[w]).signature = signature
      BY <2>2, <2>4, <3>1
    <3>3. EntryPages[w] \in DOMAIN m.tables
      BY <1>3, <1>6, <2>2, <2>6
    <3>4. find_table(signature) > 0 /\ find_table(signature) \in Nat
      BY <3>1, <3>2
    <3> QED BY <2>3, <2>5, <2>6, <3>1, <3>2, <3>3, <3>4 DEF TheTable
  <2>7. CASE EntryPages[w] \notin AcpiPages(m)
    <3>1. find_table(signature) = -1
      BY <1>9, <2>2, <2>4, <2>7
    <3> QED BY <2>5, <2>7, <3>1
  <2> QED BY <2>6, <2>7
<1> QED BY <1>13, <1>14

-----------------------------------------------------------------------------
(* Arithmetic of the base address register and of the framebuffer.         *)

\* Numbers of the register: writing ones and reading back gives the size,
\* writing the old value restores it.
BarRight(b, s, w, f) ==
    /\ b \div 16 \in Nat \ {0} /\ s \div 16 \in Nat \ {0}
    /\ (((b + f) \div 16) * 16) \div 16 = b \div 16
    /\ ((b + f) \div s) * s + f = b + f
    /\ ((w - ((((w - 1) \div s) * s + f) \div 16) * 16) + 16 - 1) \div 16 = s \div 16

LEMMA BarNumbers ==
    ASSUME NEW t \in Nat \ {0}, NEW y \in Nat \ {0}, NEW z \in Nat \ {0}, NEW f \in 0 .. 15,
           NEW s, s = t * 16, NEW b, b = y * s, NEW w, w = z * s
    PROVE  BarRight(b, s, w, f)
<1>1. s \in Nat \ {0} /\ s >= 16 /\ f \in 0 .. s - 1 /\ s - 1 \in 0 .. s - 1 /\ s \div 16 = t
  OBVIOUS
<1> DEFINE u == y * t
<1>2. u \in Nat \ {0}
  OBVIOUS
<1>3. b = u * 16
  OBVIOUS
<1> HIDE DEF u
<1>4. b \in Nat \ {0} /\ b \div 16 = u /\ (((b + f) \div 16) * 16) \div 16 = u
  BY <1>2, <1>3
<1>5. ((b + f) \div s) * s + f = b + f
  <2>1. (y * s + f) \div s = y
    BY <1>1, DivIs
  <2>2. (b + f) \div s = y
    BY <2>1, Zenon
  <2> QED BY <2>2
<1>6. w \in Nat \ {0}
  BY <1>1
<1>7. (w - 1) \div s = z - 1
  <2>1. z - 1 \in Nat
    OBVIOUS
  <2>2. ((z - 1) * s + (s - 1)) \div s = z - 1
    BY <1>1, <2>1, DivIs
  <2>3. (z - 1) * s = z * s - s
    BY <1>1
  <2>4. (z - 1) * s + (s - 1) = w - 1
    <3> DEFINE c == z * s
    <3>1. (z - 1) * s = c - s /\ c \in Int /\ w = c
      BY <1>1, <2>3
    <3> HIDE DEF c
    <3> QED BY <1>1, <3>1
  <2> QED BY <2>2, <2>4
<1> DEFINE k == (z - 1) * t
<1>8. k \in Nat /\ (z - 1) * s = k * 16
  OBVIOUS
<1>9. w = k * 16 + t * 16
  OBVIOUS
<1> HIDE DEF k
<1>10. ((w - 1) \div s) * s = k * 16
  BY <1>7, <1>8
<1>11. ((k * 16 + f) \div 16) * 16 = k * 16
  BY <1>8
<1>12. ((((w - 1) \div s) * s + f) \div 16) * 16 = k * 16
  BY <1>10, <1>11
<1>13. ((w - k * 16) + 16 - 1) \div 16 = t
  BY <1>8, <1>9
<1> QED BY <1>1, <1>2, <1>4, <1>5, <1>6, <1>12, <1>13 DEF BarRight

BarInv == bar = m.bar.base + m.bar.flags

\* Where the controller's registers are and how many pages they take.
LEMMA BarFacts ==
    ASSUME m \in Machines, BarInv
    PROVE  /\ AddressOf(bar) \div PageSize = m.bar.base \div PageSize
           /\ m.bar.base \div PageSize \in Nat \ {0}
           /\ Pages = m.bar.size \div PageSize
           /\ m.bar.size \div PageSize \in Nat \ {0}
           /\ Restored(bar) = bar
<1> DEFINE b == m.bar.base
<1> DEFINE s == m.bar.size
<1> DEFINE f == m.bar.flags
<1> DEFINE w == 2 ^ AddressBits
<1> DEFINE t == s \div 16
<1> DEFINE y == b \div s
<1> DEFINE z == w \div s
<1>1. /\ b \in Nat \ {0} /\ s \in Nat \ {0} /\ f \in 0 .. 15
      /\ s % 16 = 0 /\ b % s = 0 /\ w % s = 0
  BY MachineFacts DEF BarOK, PageSize
<1>2. w \in Nat \ {0}
  BY MachineAssumption
<1>3. /\ AddressOf(bar) = ((b + f) \div 16) * 16
      /\ Restored(bar) = ((b + f) \div s) * s + f
      /\ Pages = ((w - ((((w - 1) \div s) * s + f) \div 16) * 16) + 16 - 1) \div 16
      /\ bar = b + f
  BY DEF AddressOf, Restored, Pages, BarReads, Ones, PageSize, BarInv
<1> HIDE DEF b, s, f, w
<1>4. t \in Nat /\ s = t * 16
  BY <1>1, AlignedMultiple
<1>5. y \in Nat /\ b = y * s
  BY <1>1, AlignedMultiple
<1>6. z \in Nat /\ w = z * s
  BY <1>1, <1>2, AlignedMultiple
<1> HIDE DEF t, y, z
<1>7. t # 0 /\ y # 0 /\ z # 0
  BY <1>1, <1>2, <1>4, <1>5, <1>6
<1>8. t \in Nat \ {0} /\ y \in Nat \ {0} /\ z \in Nat \ {0}
  BY <1>4, <1>5, <1>6, <1>7
<1>9. BarRight(b, s, w, f)
  BY <1>1, <1>4, <1>5, <1>6, <1>8, BarNumbers
<1> QED BY <1>3, <1>9 DEF BarRight, PageSize, b, s

\* The pages of the framebuffer hold the bytes of its pixels.
LEMMA ScreenPages ==
    ASSUME m \in Machines
    PROVE  /\ FramebufferPages(m.screen, PageSize) \in Nat
           /\ \A o \in Nat : o < m.screen.width * m.screen.height * 4
                                 => o \div PageSize \in 0 .. FramebufferPages(m.screen, PageSize) - 1
<1> DEFINE n == m.screen.width * m.screen.height * 4
<1> DEFINE p == FramebufferPages(m.screen, PageSize)
<1>1. n \in Nat
  BY MachineFacts DEF ScreenOK, Framebuffer
<1>2. p = (((n + 16 - 1) \div 16) * 16) \div 16
  BY DEF FramebufferPages, round_up_to_multiple, PageSize
<1> HIDE DEF n, p
<1>3. p \in Nat /\ p * 16 >= n
  BY <1>1, <1>2
<1>4. \A o \in Nat : o < n => o \div 16 \in 0 .. p - 1
  BY <1>1, <1>3
<1> QED BY <1>3, <1>4 DEF n, p, PageSize

-----------------------------------------------------------------------------
(* The loops over the functions and over the entries of the MADT.          *)

FunctionPhases == TablePhases \ {"pci"}
ApicPhases == FunctionPhases \ {"functions", "apic"}

TheRanges == TheTable("MCFG").ranges
TheEntries == TheTable("APIC").madt

Positions == [1 .. 4 -> Nat]
\* A position within the range it names, or behind all ranges.
PositionIn(R, p) ==
    /\ p \in Positions /\ p[1] \in 1 .. Len(R) + 1
    /\ p[1] <= Len(R) => /\ R[p[1]].start <= p[2] /\ p[2] < R[p[1]].end
                         /\ p[3] < Devices /\ p[4] < Functions

LoopInv ==
    /\ phase \in FunctionPhases => Found("MCFG")
    /\ phase = "functions" => PositionIn(TheRanges, at)
    /\ phase \in ApicPhases => Found("APIC")
    /\ phase = "madt" => at \in Positions /\ at[1] # 0 /\ lapic.address # 0
    /\ lapic \in LocalAPIC

CoreInv ==
    /\ m \in Machines /\ phase \in Phases
    /\ MapInv /\ AcpiInv /\ TableInv /\ LoopInv /\ BarInv

\* The tables hold what their signatures say.
LEMMA RangesTyped ==
    ASSUME m \in Machines, AcpiInv, TableInv, phase \in TablePhases, Found("MCFG")
    PROVE  Ranges = TheRanges /\ TheRanges \in Seq(MCFGEntry) /\ FoundPage("MCFG") \in DOMAIN m.tables
           /\ m.tables[FoundPage("MCFG")].signature = "MCFG"
<1>1. TableAt(find_table("MCFG")) = TheTable("MCFG") /\ FoundPage("MCFG") \in DOMAIN m.tables
      /\ TheTable("MCFG").signature = "MCFG"
  BY FindTable
<1>2. TheTable("MCFG") \in MCFG
  BY <1>1, MachineFacts DEF TablesOK, TheTable
<1> QED BY <1>1, <1>2 DEF Ranges, TheRanges, MCFG, TheTable

LEMMA EntriesTyped ==
    ASSUME m \in Machines, AcpiInv, TableInv, phase \in TablePhases, Found("APIC")
    PROVE  Madt = TheTable("APIC") /\ Madt.madt = TheEntries /\ TheEntries \in Seq(MADTEntry)
           /\ Madt.lapic \in Nat \ {0} /\ FoundPage("APIC") \in DOMAIN m.tables
           /\ m.tables[FoundPage("APIC")].signature = "APIC"
<1>1. TableAt(find_table("APIC")) = TheTable("APIC") /\ FoundPage("APIC") \in DOMAIN m.tables
      /\ TheTable("APIC").signature = "APIC"
  BY FindTable
<1>2. TheTable("APIC") \in MADT
  BY <1>1, MachineFacts DEF TablesOK, TheTable
<1> QED BY <1>1, <1>2 DEF Madt, TheEntries, MADT, TheTable

LEMMA Sizes == Devices \in Nat \ {0} /\ Functions \in Nat \ {0} /\ Byte \in Nat \ {0}
BY MachineAssumption

LEMMA RangeTyped ==
    ASSUME NEW R \in Seq(MCFGEntry)
    PROVE  /\ Len(R) \in Nat
           /\ \A j \in 1 .. Len(R) : R[j].start \in Nat /\ R[j].end \in Nat /\ R[j].base \in Nat \ {0}
<1>1. \A j \in 1 .. Len(R) : R[j] \in MCFGEntry
  OBVIOUS
<1> QED BY <1>1 DEF MCFGEntry

\* The first function of the first range from i on that is not empty.
LEMMA FirstFunctionIs ==
    ASSUME NEW R \in Seq(MCFGEntry), Ranges = R, NEW i \in 1 .. Len(R) + 1
    PROVE  /\ PositionIn(R, FirstFunction(i))
           /\ FirstFunction(i)[1] >= i
           /\ \A j \in i .. Len(R) : j < FirstFunction(i)[1] => R[j].start >= R[j].end
           /\ FirstFunction(i)[1] <= Len(R) =>
                  FirstFunction(i) = <<FirstFunction(i)[1], R[FirstFunction(i)[1]].start, 0, 0>>
<1> DEFINE rest == {j \in i .. Len(R) : R[j].start < R[j].end}
<1> DEFINE w == Min(rest)
<1> DEFINE p == FirstFunction(i)
<1>1. p = IF rest = {} THEN <<Len(R) + 1, 0, 0, 0>> ELSE <<w, R[w].start, 0, 0>>
  BY DEF FirstFunction, Min
<1>2. Len(R) \in Nat /\ \A j \in 1 .. Len(R) : R[j].start \in Nat /\ R[j].end \in Nat
  BY RangeTyped
<1>3. CASE rest = {}
  <2>1. p = <<Len(R) + 1, 0, 0, 0>>
    BY <1>1, <1>3
  <2> HIDE DEF p
  <2>2. p \in Positions /\ p[1] = Len(R) + 1
    BY <1>2, <2>1 DEF Positions
  <2>3. ASSUME NEW j \in i .. Len(R) PROVE R[j].start >= R[j].end
    <3>1. ~(R[j].start < R[j].end) /\ j \in 1 .. Len(R)
      BY <1>2, <1>3
    <3> QED BY <1>2, <3>1
  <2> QED BY <1>2, <2>2, <2>3 DEF PositionIn, p
<1>4. CASE rest # {}
  <2>1. rest \in SUBSET Nat
    BY <1>2
  <2>2. w \in rest /\ \A y \in rest : w <= y
    BY <1>4, <2>1, MinOf
  <2>3. p = <<w, R[w].start, 0, 0>>
    BY <1>1, <1>4
  <2>4. w \in i .. Len(R) /\ R[w].start < R[w].end /\ w \in 1 .. Len(R)
    BY <1>2, <2>2
  <2>5. ASSUME NEW j \in i .. Len(R), j < w PROVE R[j].start >= R[j].end
    <3>1. j \notin rest /\ j \in 1 .. Len(R)
      BY <1>2, <2>2, <2>4, <2>5
    <3>2. ~(R[j].start < R[j].end)
      BY <3>1
    <3> QED BY <1>2, <3>1, <3>2
  <2> HIDE DEF p, w, rest
  <2>6. p \in Positions /\ p[1] = w /\ p[2] = R[w].start /\ p[3] = 0 /\ p[4] = 0
    BY <1>2, <2>3, <2>4 DEF Positions
  <2>7. PositionIn(R, p)
    BY <1>2, <2>4, <2>6, Sizes DEF PositionIn
  <2> QED BY <2>3, <2>4, <2>5, <2>6, <2>7 DEF p
<1> QED BY <1>3, <1>4

\* Where the loops go from a position within a range.
LEMMA NextDeviceIs ==
    ASSUME NEW R \in Seq(MCFGEntry), Ranges = R, PositionIn(R, at), at[1] <= Len(R)
    PROVE  PositionIn(R, NextDevice) /\ PositionIn(R, NextFunction)
<1>1. /\ at \in Positions /\ at[1] \in 1 .. Len(R)
      /\ R[at[1]].start <= at[2] /\ at[2] < R[at[1]].end /\ at[3] < Devices /\ at[4] < Functions
      /\ at[1] \in Nat /\ at[2] \in Nat /\ at[3] \in Nat /\ at[4] \in Nat
  BY DEF PositionIn, Positions
<1>2. Len(R) \in Nat /\ \A j \in 1 .. Len(R) : R[j].start \in Nat /\ R[j].end \in Nat
  BY RangeTyped
<1>3. ASSUME NEW b \in Nat, NEW c \in Nat, NEW d \in Nat, R[at[1]].start <= b, b < R[at[1]].end,
             c < Devices, d < Functions
      PROVE  PositionIn(R, <<at[1], b, c, d>>)
  <2> DEFINE p == <<at[1], b, c, d>>
  <2>1. p \in Positions /\ p[1] = at[1] /\ p[2] = b /\ p[3] = c /\ p[4] = d
    BY <1>1 DEF Positions
  <2> HIDE DEF p
  <2>2. PositionIn(R, p)
    BY <1>1, <1>2, <1>3, <2>1 DEF PositionIn
  <2> QED BY <2>2 DEF p
<1>4. PositionIn(R, NextDevice)
  <2>1. CASE at[3] + 1 < Devices
    <3>1. NextDevice = <<at[1], at[2], at[3] + 1, 0>>
      BY <2>1 DEF NextDevice
    <3>2. at[3] + 1 \in Nat /\ 0 \in Nat /\ 0 < Functions
      BY <1>1, Sizes
    <3> QED BY <1>1, <1>3, <2>1, <3>1, <3>2
  <2>2. CASE ~(at[3] + 1 < Devices) /\ at[2] + 1 < R[at[1]].end
    <3>1. NextDevice = <<at[1], at[2] + 1, 0, 0>>
      BY <2>2 DEF NextDevice
    <3>2. R[at[1]].start <= at[2] + 1
      BY <1>1, <1>2
    <3>3. at[2] + 1 \in Nat /\ 0 \in Nat /\ 0 < Functions /\ 0 < Devices
      BY <1>1, Sizes
    <3> QED BY <1>1, <1>3, <2>2, <3>1, <3>2, <3>3
  <2>3. CASE ~(at[3] + 1 < Devices) /\ ~(at[2] + 1 < R[at[1]].end)
    <3>1. NextDevice = FirstFunction(at[1] + 1)
      BY <2>3 DEF NextDevice
    <3>2. at[1] + 1 \in 1 .. Len(R) + 1
      BY <1>1, <1>2
    <3> QED BY <3>1, <3>2, FirstFunctionIs
  <2> QED BY <2>1, <2>2, <2>3
<1>5. PositionIn(R, NextFunction)
  <2>1. CASE at[4] + 1 < Functions
    <3>1. NextFunction = [at EXCEPT ![4] = @ + 1]
      BY <2>1 DEF NextFunction
    <3>2. NextFunction \in Positions /\ NextFunction[1] = at[1] /\ NextFunction[2] = at[2]
          /\ NextFunction[3] = at[3] /\ NextFunction[4] = at[4] + 1
      BY <1>1, <3>1 DEF Positions
    <3> QED BY <1>1, <1>2, <2>1, <3>2 DEF PositionIn
  <2>2. CASE ~(at[4] + 1 < Functions)
    BY <1>4, <2>2 DEF NextFunction
  <2> QED BY <2>1, <2>2
<1> QED BY <1>4, <1>5

\* The configuration space that the position stands for.
LEMMA ConfigPageTyped ==
    ASSUME NEW R \in Seq(MCFGEntry), Ranges = R, PositionIn(R, at), at[1] <= Len(R)
    PROVE  ConfigPage \in Nat \ {0}
<1>1. at[1] \in 1 .. Len(R) /\ at[2] \in Nat /\ at[3] \in Nat /\ at[4] \in Nat
  BY DEF PositionIn, Positions
<1> DEFINE b == R[at[1]].base
<1>2. b \in Nat \ {0}
  BY <1>1, RangeTyped
<1> DEFINE k == (at[2] * Devices + at[3]) * Functions
<1>3. k \in Nat
  <2>1. at[2] * Devices \in Nat
    BY <1>1, Sizes
  <2>2. at[2] * Devices + at[3] \in Nat
    BY <1>1, <2>1
  <2> QED BY <2>2, Sizes
<1>4. ConfigPage = b + k + at[4]
  BY DEF ConfigPage
<1> HIDE DEF b, k
<1> QED BY <1>1, <1>2, <1>3, <1>4

-----------------------------------------------------------------------------
(* CoreInv is inductive, and no step takes away what is mapped.            *)

LEMMA CoreInit == Init => CoreInv
<1> SUFFICES ASSUME Init PROVE CoreInv
  OBVIOUS
<1>1. m \in Machines /\ phase \in Phases /\ BarInv
  BY DEF Init, Phases, EarlyPhases, BarInv
<1>2. MapInv
  <2>1. kmap = <<>> /\ freed = <<>>
    BY DEF Init
  <2> QED BY <2>1 DEF MapInv, MapOK, IsInjective, Range
<1>3. AcpiInv /\ TableInv
  BY DEF Init, AcpiInv, TableInv, EarlyPhases, TablePhases
<1>4. LoopInv
  BY DEF Init, LoopInv, FunctionPhases, ApicPhases, TablePhases, LocalAPIC
<1> QED BY <1>1, <1>2, <1>3, <1>4 DEF CoreInv

\* What one call of kmap_phys_range leaves.
LEMMA MappedOK ==
    ASSUME MapInv, NEW phys \in Nat \ {0}, NEW pages \in Nat, Mapped(MapPages(phys, pages))
    PROVE  MapInv' /\ KeptIn(kmap, kmap')
<1> DEFINE r == MapPages(phys, pages)
<1>1. MapOK(r.kmap, r.freed) /\ KeptIn(kmap, r.kmap)
  BY MapPagesOK
<1>2. kmap' = r.kmap /\ freed' = r.freed
  BY DEF Mapped
<1> HIDE DEF r
<1> QED BY <1>1, <1>2 DEF MapInv

\* The local variables of VisitFunction.
LEMMA VisitFacts ==
    ASSUME CoreInv, VisitFunction
    PROVE  /\ TheRanges \in Seq(MCFGEntry) /\ Ranges = TheRanges /\ PositionIn(TheRanges, at)
           /\ at[1] <= Len(TheRanges) /\ ConfigPage \in Nat \ {0}
<1>1. phase = "functions" /\ at[1] <= Len(Ranges)
  BY DEF VisitFunction
<1>2. phase \in TablePhases /\ Found("MCFG")
  BY <1>1 DEF CoreInv, LoopInv, FunctionPhases, TablePhases
<1>3. TheRanges \in Seq(MCFGEntry) /\ Ranges = TheRanges
  BY <1>2, RangesTyped DEF CoreInv
<1>4. PositionIn(TheRanges, at)
  BY <1>1 DEF CoreInv, LoopInv
<1>5. ConfigPage \in Nat \ {0}
  BY <1>1, <1>3, <1>4, ConfigPageTyped
<1> QED BY <1>1, <1>3, <1>4, <1>5

\* The entry that ParseEntry looks at.
LEMMA EntryFacts ==
    ASSUME CoreInv, ParseEntry
    PROVE  /\ Madt.madt = TheEntries /\ TheEntries \in Seq(MADTEntry)
           /\ at \in Positions /\ at[1] \in 1 .. Len(TheEntries) /\ TheEntries[at[1]] \in MADTEntry
<1>1. phase = "madt" /\ at[1] <= Len(Madt.madt)
  BY DEF ParseEntry
<1>2. phase \in TablePhases /\ Found("APIC")
  BY <1>1 DEF CoreInv, LoopInv, ApicPhases, FunctionPhases, TablePhases
<1>3. Madt.madt = TheEntries /\ TheEntries \in Seq(MADTEntry)
  BY <1>2, EntriesTyped DEF CoreInv
<1>4. at \in Positions /\ at[1] # 0 /\ at[1] \in Nat
  BY <1>1 DEF CoreInv, LoopInv, Positions
<1>5. at[1] \in 1 .. Len(TheEntries)
  BY <1>1, <1>3, <1>4
<1> QED BY <1>3, <1>4, <1>5

LEMMA MapStep == CoreInv /\ [Next]_vars => MapInv' /\ KeptIn(kmap, kmap')
<1> SUFFICES ASSUME CoreInv, [Next]_vars PROVE MapInv' /\ KeptIn(kmap, kmap')
  OBVIOUS
<1>0. MapInv /\ m \in Machines
  BY DEF CoreInv
<1>a. UNCHANGED mapVars => MapInv' /\ KeptIn(kmap, kmap')
  BY <1>0 DEF mapVars, MapInv, KeptIn
<1>1. CASE Aside \/ Advances
  BY <1>1, <1>a, AdvancesKeepMap
<1>2. CASE remap_framebuffer
  <2>1. Mapped(MapPages(m.framebuffer, FramebufferPages(m.screen, PageSize)))
    BY <1>2 DEF remap_framebuffer
  <2>2. m.framebuffer \in Nat \ {0} /\ FramebufferPages(m.screen, PageSize) \in Nat
    BY <1>0, MachineFacts, ScreenPages DEF ScreenOK
  <2> QED BY <1>0, <2>1, <2>2, MappedOK
<1>3. CASE prepare_acpi_memory
  <2> DEFINE t == FoldLeft(RemapRange, [list |-> <<>>, kmap |-> kmap], m.acpi)
  <2>1. kmap' = t.kmap /\ freed' = freed
    BY <1>3 DEF prepare_acpi_memory
  <2>2. m.acpi \in Seq(AcpiRange) /\ MapOK(kmap, freed)
    BY <1>0, AcpiRanges DEF MapInv
  <2>3. MapOK(t.kmap, freed) /\ KeptIn(kmap, t.kmap)
    BY <2>2, RemapAll
  <2> HIDE DEF t
  <2> QED BY <2>1, <2>3 DEF MapInv
<1>4. CASE setup_gdt_and_tss
  <2>1. Mapped(MapPages(TssStack, 2))
    BY <1>4 DEF setup_gdt_and_tss
  <2>2. TssStack \in Nat \ {0} /\ 2 \in Nat
    BY DEF TssStack
  <2> QED BY <1>0, <2>1, <2>2, MappedOK
<1>5. CASE VisitFunction
  <2>1. ConfigPage \in Nat \ {0} /\ 1 \in Nat
    BY <1>5, VisitFacts
  <2>2. CASE Mapped(MapPages(ConfigPage, 1))
    BY <1>0, <2>1, <2>2, MappedOK
  <2>3. CASE Mapped(Unmapped(MapPages(ConfigPage, 1)))
    <3> DEFINE u == Unmapped(MapPages(ConfigPage, 1))
    <3>1. MapOK(u.kmap, u.freed) /\ KeptIn(kmap, u.kmap)
      BY <1>0, <2>1, UnmappedOK
    <3>2. kmap' = u.kmap /\ freed' = u.freed
      BY <2>3 DEF Mapped
    <3> HIDE DEF u
    <3> QED BY <3>1, <3>2 DEF MapInv
  <2> QED BY <1>5, <2>2, <2>3 DEF VisitFunction
<1>6. CASE ParseEntry
  <2> DEFINE e == TheEntries[at[1]]
  <2>1. e \in MADTEntry /\ e = Madt.madt[at[1]]
    BY <1>6, EntryFacts
  <2>2. UNCHANGED mapVars \/ (e.type = "ioapic" /\ Mapped(MapPages(90 + e.number, 1)))
    BY <1>6, <2>1 DEF ParseEntry
  <2>3. CASE e.type = "ioapic" /\ Mapped(MapPages(90 + e.number, 1))
    <3>1. e.number \in Nat
      BY <2>1, <2>3 DEF MADTEntry
    <3>2. 90 + e.number \in Nat \ {0} /\ 1 \in Nat
      BY <3>1
    <3> HIDE DEF e
    <3> QED BY <1>0, <2>3, <3>2, MappedOK
  <2> QED BY <1>a, <2>2, <2>3
<1>7. CASE EnableLocalApic
  <2>1. Mapped(MapPages(lapic.address, 1)) /\ phase = "madt"
    BY <1>7 DEF EnableLocalApic
  <2>2. lapic.address \in Nat \ {0} /\ 1 \in Nat
    BY <2>1 DEF CoreInv, LoopInv, LocalAPIC
  <2> QED BY <1>0, <2>1, <2>2, MappedOK
<1>8. CASE MapController
  <2>1. Mapped(MapPages(AddressOf(bar) \div PageSize, Pages))
    BY <1>8 DEF MapController
  <2>2. AddressOf(bar) \div PageSize \in Nat \ {0} /\ Pages \in Nat
    BY BarFacts DEF CoreInv
  <2> QED BY <1>0, <2>1, <2>2, MappedOK
<1> QED BY <1>1, <1>2, <1>3, <1>4, <1>5, <1>6, <1>7, <1>8, NextCases DEF Maps

-----------------------------------------------------------------------------
\* Which phase follows which, and which step changes which variable.
LEMMA PhaseStep ==
    ASSUME [Next]_vars, phase \in Phases
    PROVE  /\ phase' \in Phases /\ m' = m
           /\ prepare_acpi_memory \/ (g_remap_list' = g_remap_list /\ (phase' \notin EarlyPhases => phase \notin EarlyPhases))
           /\ initialize_acpi \/ (g_xsdt' = g_xsdt /\ (phase' \in TablePhases => phase \in TablePhases))
           /\ StartEnumeration \/ (phase' \in FunctionPhases => phase \in FunctionPhases)
           /\ StartApic \/ (phase' \in ApicPhases => phase \in ApicPhases)
           /\ MapController \/ bar' = bar
           /\ phase' = "functions" => \/ StartEnumeration \/ VisitFunction
                                      \/ phase = "functions" /\ at' = at
           /\ phase' = "madt" => \/ StartApic \/ ParseEntry
                                 \/ phase = "madt" /\ at' = at /\ lapic' = lapic
           /\ StartApic \/ ParseEntry \/ EnableLocalApic \/ lapic' = lapic
<1> USE DEF Phases, EarlyPhases, TablePhases, FunctionPhases, ApicPhases
<1>1. CASE Aside
  BY <1>1 DEF Aside, bootVars, acpiVars, pciVars, apicVars
<1>2. CASE initialize_memory \/ setup_idt \/ register_exception_interrupts
           \/ free_uefi_memory_and_remove_identity_mapping
  BY <1>2 DEF initialize_memory, setup_idt, register_exception_interrupts,
       free_uefi_memory_and_remove_identity_mapping, Step, acpiVars, pciVars, apicVars
<1>3. CASE initialize_acpi \/ StartEnumeration \/ EnumerationEnds \/ StartApic
  BY <1>3 DEF initialize_acpi, StartEnumeration, EnumerationEnds, StartApic, Step, acpiVars, pciVars, apicVars
<1>4. CASE prepare_syscalls \/ WriteLower \/ WriteUpper \/ RegisterHandler
  BY <1>4 DEF prepare_syscalls, WriteLower, WriteUpper, RegisterHandler, Step, acpiVars, pciVars, apicVars
<1>5. CASE remap_framebuffer \/ prepare_acpi_memory \/ setup_gdt_and_tss
  BY <1>5 DEF remap_framebuffer, prepare_acpi_memory, setup_gdt_and_tss, Step, acpiVars, pciVars, apicVars
<1>6. CASE VisitFunction \/ ParseEntry \/ EnableLocalApic \/ MapController
  BY <1>6 DEF VisitFunction, ParseEntry, EnableLocalApic, MapController, Step, acpiVars, pciVars, apicVars
<1> QED BY <1>1, <1>2, <1>3, <1>4, <1>5, <1>6, NextCases DEF Maps, Advances

\* What a machine's tables hold does not change.
LEMMA TablesStay ==
    ASSUME m' = m
    PROVE  /\ XsdtPage' = XsdtPage /\ XsdtOK' = XsdtOK
           /\ Found("MCFG")' = Found("MCFG") /\ Found("APIC")' = Found("APIC")
           /\ TheRanges' = TheRanges /\ TheEntries' = TheEntries
BY DEF XsdtPage, XsdtOK, Found, Hits, FoundPage, EntryPages, TheRanges, TheEntries, TheTable, AcpiPages, Min

LEMMA AcpiStep == CoreInv /\ [Next]_vars => AcpiInv'
<1> SUFFICES ASSUME CoreInv, [Next]_vars, phase' \notin EarlyPhases
             PROVE  Remapped(g_remap_list', kmap', m.acpi, Len(m.acpi))
  <2>1. CoreInv /\ [Next]_vars => m' = m
    BY MachineStays
  <2> QED BY <2>1 DEF AcpiInv
<1>1. m \in Machines /\ phase \in Phases /\ m.acpi \in Seq(AcpiRange)
  BY AcpiRanges DEF CoreInv
<1>2. CASE prepare_acpi_memory
  <2> DEFINE t == FoldLeft(RemapRange, [list |-> <<>>, kmap |-> kmap], m.acpi)
  <2>1. kmap' = t.kmap /\ g_remap_list' = t.list
    BY <1>2 DEF prepare_acpi_memory
  <2>2. MapOK(kmap, freed)
    BY DEF CoreInv, MapInv
  <2>3. Remapped(t.list, t.kmap, m.acpi, Len(m.acpi))
    BY <1>1, <2>2, RemapAll
  <2> HIDE DEF t
  <2> QED BY <2>1, <2>3
<1>3. CASE ~prepare_acpi_memory
  <2>1. g_remap_list' = g_remap_list /\ phase \notin EarlyPhases
    BY <1>1, <1>3, PhaseStep
  <2>2. Remapped(g_remap_list, kmap, m.acpi, Len(m.acpi))
    BY <2>1 DEF CoreInv, AcpiInv
  <2>3. KeptIn(kmap, kmap') /\ Len(m.acpi) \in 0 .. Len(m.acpi)
    BY <1>1, MapStep
  <2> QED BY <1>1, <2>1, <2>2, <2>3, RemappedKept
<1> QED BY <1>2, <1>3

LEMMA TableStep == CoreInv /\ [Next]_vars => TableInv'
<1> SUFFICES ASSUME CoreInv, [Next]_vars, phase' \in TablePhases
             PROVE  XsdtOK' /\ g_xsdt' = get_virtual_acpi_address(XsdtPage)'
  BY DEF TableInv
<1>1. m' = m /\ XsdtPage' = XsdtPage /\ XsdtOK' = XsdtOK /\ m \in Machines /\ phase \in Phases
  BY MachineStays, TablesStay DEF CoreInv
<1>2. CASE initialize_acpi
  <2>1. phase = "acpi" /\ AcpiValid /\ g_xsdt' = Xsdt /\ g_remap_list' = g_remap_list
    BY <1>2 DEF initialize_acpi
  <2>2. Remapped(g_remap_list, kmap, m.acpi, Len(m.acpi))
    BY <2>1 DEF CoreInv, AcpiInv, EarlyPhases
  <2>3. m.rsdp \in Nat
    BY <1>1, MachineFacts DEF TablesOK
  <2>4. m.rsdp \in AcpiPages(m) /\ kmap[Rsdp] = m.rsdp
    BY <1>1, <2>1, <2>2, <2>3, VirtualAddress DEF AcpiValid, Rsdp
  <2>5. TableAt(Rsdp) = m.tables[m.rsdp]
    BY <2>4 DEF TableAt
  <2>6. m.tables[m.rsdp].signature = "RSD PTR" /\ Xsdt = get_virtual_acpi_address(XsdtPage)
    BY <2>1, <2>5 DEF AcpiValid, sdt_is_valid, Xsdt, XsdtPage
  <2>7. XsdtPage \in Nat
    <3>1. m.rsdp \in DOMAIN m.tables
      BY <1>1, <2>4, MachineFacts DEF TablesOK
    <3>2. m.tables[m.rsdp] \in RSDP
      BY <1>1, <2>6, <3>1, MachineFacts DEF TablesOK
    <3> QED BY <3>2 DEF XsdtPage, RSDP
  <2>8. XsdtPage \in AcpiPages(m) /\ kmap[Xsdt] = XsdtPage
    BY <1>1, <2>1, <2>2, <2>6, <2>7, VirtualAddress DEF AcpiValid
  <2>9. m.tables[XsdtPage].signature = "XSDT"
    BY <2>1, <2>8 DEF AcpiValid, sdt_is_valid, TableAt
  <2>10. XsdtOK
    BY <2>4, <2>6, <2>8, <2>9 DEF XsdtOK
  <2>11. get_virtual_acpi_address(XsdtPage)' = get_virtual_acpi_address(XsdtPage)
    BY <1>1, <2>1 DEF get_virtual_acpi_address, SelectInSeq, range_contains
  <2> QED BY <1>1, <2>1, <2>6, <2>10, <2>11
<1>3. CASE ~initialize_acpi
  <2>1. g_xsdt' = g_xsdt /\ phase \in TablePhases
    BY <1>1, <1>3, PhaseStep
  <2>2. g_remap_list' = g_remap_list
    <3>1. phase # "acpi memory"
      BY <2>1 DEF TablePhases
    <3>2. ~prepare_acpi_memory
      BY <3>1 DEF prepare_acpi_memory, Step
    <3> QED BY <1>1, <3>2, PhaseStep
  <2>3. get_virtual_acpi_address(XsdtPage)' = get_virtual_acpi_address(XsdtPage)
    BY <1>1, <2>2 DEF get_virtual_acpi_address, SelectInSeq, range_contains
  <2> QED BY <1>1, <2>1, <2>3 DEF CoreInv, TableInv
<1> QED BY <1>2, <1>3

LEMMA LoopStep == CoreInv /\ [Next]_vars => LoopInv'
<1> SUFFICES ASSUME CoreInv, [Next]_vars PROVE LoopInv'
  OBVIOUS
<1>1. m' = m /\ m \in Machines /\ phase \in Phases /\ AcpiInv /\ TableInv
      /\ Found("MCFG")' = Found("MCFG") /\ Found("APIC")' = Found("APIC")
      /\ TheRanges' = TheRanges
  BY MachineStays, TablesStay DEF CoreInv
<1>2. ASSUME StartEnumeration PROVE Found("MCFG") /\ PositionIn(TheRanges, at')
  <2>1. phase = "pci" /\ find_table("MCFG") > 0 /\ at' = FirstFunction(1)
    BY <1>2 DEF StartEnumeration, Step
  <2>2. phase \in TablePhases
    BY <2>1 DEF TablePhases
  <2>3. Found("MCFG")
    BY <1>1, <2>1, <2>2, FindTable
  <2>4. TheRanges \in Seq(MCFGEntry) /\ Ranges = TheRanges
    BY <1>1, <2>2, <2>3, RangesTyped
  <2>5. 1 \in 1 .. Len(TheRanges) + 1
    BY <2>4
  <2> QED BY <2>1, <2>3, <2>4, <2>5, FirstFunctionIs
<1>3. ASSUME VisitFunction PROVE PositionIn(TheRanges, at')
  BY <1>3, VisitFacts, NextDeviceIs DEF VisitFunction
<1>4. ASSUME StartApic PROVE Found("APIC") /\ at' \in Positions /\ at'[1] # 0 /\ lapic' \in LocalAPIC /\ lapic'.address # 0
  <2>1. phase = "apic" /\ find_table("APIC") > 0 /\ at' = <<1, 0, 0, 0>> /\ lapic' = [lapic EXCEPT !.address = Madt.lapic]
    BY <1>4 DEF StartApic, Step
  <2>2. phase \in TablePhases
    BY <2>1 DEF TablePhases
  <2>3. Found("APIC")
    BY <1>1, <2>1, <2>2, FindTable
  <2>4. Madt.lapic \in Nat \ {0}
    BY <1>1, <2>2, <2>3, EntriesTyped
  <2>5. lapic \in LocalAPIC
    BY DEF CoreInv, LoopInv
  <2>6. lapic' \in LocalAPIC /\ lapic'.address # 0
    BY <2>1, <2>4, <2>5 DEF LocalAPIC
  <2> QED BY <2>1, <2>3, <2>6 DEF Positions
<1>5. ASSUME ParseEntry PROVE at' \in Positions /\ at'[1] # 0 /\ lapic' \in LocalAPIC /\ lapic'.address # 0
  <2> DEFINE e == TheEntries[at[1]]
  <2>1. e \in MADTEntry /\ e = Madt.madt[at[1]] /\ at \in Positions /\ at[1] \in 1 .. Len(TheEntries)
    BY <1>5, EntryFacts
  <2>2. at' = [at EXCEPT ![1] = @ + 1] /\ phase = "madt"
        /\ (lapic' = lapic \/ (e.type = "address" /\ lapic' = [lapic EXCEPT !.address = e.address]))
    BY <1>5, <2>1 DEF ParseEntry
  <2>3. at' \in Positions /\ at'[1] = at[1] + 1
    BY <2>1, <2>2 DEF Positions
  <2>4. at'[1] # 0
    BY <2>1, <2>3
  <2>5. lapic \in LocalAPIC /\ lapic.address # 0
    BY <2>2 DEF CoreInv, LoopInv
  <2>6. e.type = "address" => e.address \in Nat \ {0}
    BY <2>1 DEF MADTEntry
  <2> HIDE DEF e
  <2>7. lapic' \in LocalAPIC /\ lapic'.address # 0
    BY <2>2, <2>5, <2>6 DEF LocalAPIC
  <2> QED BY <2>3, <2>4, <2>7
<1>6. ASSUME EnableLocalApic PROVE lapic' \in LocalAPIC
  <2>1. lapic' = [lapic EXCEPT !.enabled = TRUE] /\ lapic \in LocalAPIC
    BY <1>6 DEF EnableLocalApic, CoreInv, LoopInv
  <2> QED BY <2>1 DEF LocalAPIC
<1>7. phase' \in FunctionPhases => Found("MCFG")'
  BY <1>1, <1>2, PhaseStep DEF CoreInv, LoopInv
<1>8. phase' = "functions" => PositionIn(TheRanges, at')
  BY <1>1, <1>2, <1>3, PhaseStep DEF CoreInv, LoopInv
<1>9. phase' \in ApicPhases => Found("APIC")'
  BY <1>1, <1>4, PhaseStep DEF CoreInv, LoopInv
<1>10. phase' = "madt" => at' \in Positions /\ at'[1] # 0 /\ lapic'.address # 0
  BY <1>1, <1>4, <1>5, PhaseStep DEF CoreInv, LoopInv
<1>11. lapic' \in LocalAPIC
  BY <1>1, <1>4, <1>5, <1>6, PhaseStep DEF CoreInv, LoopInv
<1> QED BY <1>1, <1>7, <1>8, <1>9, <1>10, <1>11 DEF LoopInv, PositionIn

LEMMA BarStep == CoreInv /\ [Next]_vars => BarInv'
<1> SUFFICES ASSUME CoreInv, [Next]_vars PROVE BarInv'
  OBVIOUS
<1>1. m' = m /\ phase \in Phases /\ m \in Machines /\ BarInv
  BY MachineStays DEF CoreInv
<1>2. bar' = bar
  <2>1. CASE MapController
    <3>1. bar' = Restored(bar)
      BY <2>1 DEF MapController
    <3> QED BY <1>1, <3>1, BarFacts
  <2> QED BY <1>1, <2>1, PhaseStep
<1> QED BY <1>1, <1>2 DEF BarInv

LEMMA CoreNext == CoreInv /\ [Next]_vars => CoreInv'
<1> SUFFICES ASSUME CoreInv, [Next]_vars PROVE CoreInv'
  OBVIOUS
<1>1. phase \in Phases /\ m \in Machines
  BY DEF CoreInv
<1>2. phase' \in Phases /\ m' = m
  BY <1>1, PhaseStep
<1> QED BY <1>1, <1>2, MapStep, AcpiStep, TableStep, LoopStep, BarStep DEF CoreInv

\* Every page of the firmware's ACPI memory is found through the remap list, on
\* every machine, whatever is mapped and given back after prepare_acpi_memory.
THEOREM AcpiAlwaysReadable == Spec => []AcpiMemoryReadable
<1>1. CoreInv => AcpiMemoryReadable
  BY AcpiReadable DEF CoreInv
<1> QED BY <1>1, CoreInit, CoreNext, PTL DEF Spec

-----------------------------------------------------------------------------
(* The framebuffer and the registers of the AHCI controller.               *)

\* Pixels of a screen without padding, counted line by line.
Numbered(w, h) ==
    /\ \A x \in 0 .. w - 1, y \in 0 .. h - 1 : y * w + x \in 0 .. h * w - 1
    /\ \A x, u \in 0 .. w - 1, y, v \in 0 .. h - 1 : y * w + x = v * w + u => x = u /\ y = v
    /\ \A i \in 0 .. h * w - 1 : \E x \in 0 .. w - 1, y \in 0 .. h - 1 : i = y * w + x
LEMMA PixelNumbers == ASSUME NEW w \in Nat, NEW h \in Nat PROVE Numbered(w, h)
<1>1. ASSUME NEW x \in 0 .. w - 1, NEW y \in 0 .. h - 1 PROVE y * w + x \in 0 .. h * w - 1
  <2>1. y + 1 <= h /\ y + 1 \in Int /\ y \in Nat
    OBVIOUS
  <2>2. (y + 1) * w <= h * w
    BY <2>1, MulMonotone
  <2>3. (y + 1) * w = y * w + w /\ y * w \in Nat /\ h * w \in Nat
    BY <2>1
  <2> DEFINE a == y * w
  <2> DEFINE b == h * w
  <2>4. a + w <= b /\ a \in Nat /\ b \in Nat
    BY <2>2, <2>3
  <2> HIDE DEF a, b
  <2>5. a + x \in 0 .. b - 1
    BY <2>4
  <2> QED BY <2>5 DEF a, b
<1>2. ASSUME NEW x \in 0 .. w - 1, NEW u \in 0 .. w - 1, NEW y \in 0 .. h - 1, NEW v \in 0 .. h - 1,
             y * w + x = v * w + u
      PROVE  x = u /\ y = v
  <2>1. w \in Nat \ {0} /\ y \in Int /\ v \in Int
    OBVIOUS
  <2> QED BY <1>2, <2>1, QuotientUnique
<1>3. ASSUME NEW i \in 0 .. h * w - 1 PROVE \E x \in 0 .. w - 1, y \in 0 .. h - 1 : i = y * w + x
  <2> DEFINE b == h * w
  <2>1. w # 0 /\ i \in Nat /\ b \in Nat /\ i < b
    <3>1. b \in Nat /\ i \in 0 .. b - 1 /\ (w = 0 => b = 0)
      OBVIOUS
    <3> HIDE DEF b
    <3> QED BY <3>1
  <2> DEFINE y == i \div w
  <2> DEFINE x == i % w
  <2>2. y \in Nat /\ x \in 0 .. w - 1 /\ i = y * w + x
    BY <2>1, DivMod
  <2> HIDE DEF x, y
  <2>3. y < h
    <3> SUFFICES ASSUME h <= y PROVE FALSE
      BY <2>2
    <3>1. h * w <= y * w
      BY <2>2, MulMonotone
    <3> DEFINE c == y * w
    <3>2. c \in Nat /\ b <= c /\ i = c + x
      BY <2>2, <3>1
    <3> HIDE DEF b, c
    <3> QED BY <2>1, <2>2, <3>2
  <2> QED BY <2>2, <2>3
<1> QED BY <1>1, <1>2, <1>3 DEF Numbered

PixelMap == framebuffer # 0 =>
    \A n \in 0 .. FramebufferPages(m.screen, PageSize) - 1 :
        framebuffer + n \in DOMAIN kmap /\ kmap[framebuffer + n] = m.framebuffer + n
ControllerOK == controller # <<>> =>
    /\ controller \in Seq(Nat) /\ Len(controller) = m.bar.size \div PageSize
    /\ \A i \in 1 .. m.bar.size \div PageSize :
           controller[i] \in DOMAIN kmap /\ kmap[controller[i]] = (m.bar.base \div PageSize) + i - 1

DeviceInv ==
    /\ framebuffer \in Nat /\ (framebuffer = 0 <=> phase \in {"memory", "framebuffer"})
    /\ phase \in {"memory", "framebuffer"} => 0 \in g_pml4
    /\ phase # "memory" => KERNEL_PML4_OFFSET \in g_pml4
    /\ PixelMap /\ ControllerOK

LEMMA PixelsAre == m \in Machines /\ DeviceInv => PixelsMapped
<1> SUFFICES ASSUME m \in Machines, DeviceInv PROVE PixelsMapped
  OBVIOUS
<1> DEFINE w == m.screen.width
<1> DEFINE h == m.screen.height
<1> DEFINE pixels == (0 .. w - 1) \X (0 .. h - 1)
<1> DEFINE offset(p) == put_pixel_Offset(m.screen, p[1], p[2])
<1>1. w \in Nat /\ h \in Nat
  BY MachineFacts DEF ScreenOK, Framebuffer
<1>2. (IF framebuffer = 0 THEN 0 ELSE KERNEL_PML4_OFFSET) \in g_pml4
  BY DEF DeviceInv
<1> DEFINE inside(p) == offset(p) < w * h * 4
<1>4. ASSUME framebuffer # 0, NEW p \in pixels, inside(p)
      PROVE  /\ framebuffer + (offset(p) \div PageSize) \in DOMAIN kmap
             /\ kmap[framebuffer + (offset(p) \div PageSize)] = m.framebuffer + (offset(p) \div PageSize)
  <2> DEFINE F == FramebufferPages(m.screen, PageSize)
  <2> DEFINE n == m.screen.pixels_per_scanline
  <2> DEFINE x == p[1]
  <2> DEFINE y == p[2]
  <2>1. x \in Nat /\ y \in Nat /\ n \in Nat
    BY <1>1, MachineFacts DEF ScreenOK, Framebuffer
  <2>2. offset(p) = 4 * n * y + 4 * x
    BY DEF put_pixel_Offset
  <2> HIDE DEF n, x, y
  <2>3. 4 * n * y + 4 * x \in Nat
    BY <2>1
  <2>4. \A o \in Nat : o < w * h * 4 => o \div PageSize \in 0 .. F - 1
    BY ScreenPages
  <2>5. offset(p) \div PageSize \in 0 .. F - 1
    BY <1>4, <2>2, <2>3, <2>4
  <2> HIDE DEF offset, F
  <2> QED BY <1>4, <2>5 DEF DeviceInv, PixelMap, F
<1>3. ASSUME framebuffer # 0, m.screen.pixels_per_scanline = w
      PROVE  /\ terminal_Offsets(m.screen) = {offset(p) : p \in pixels}
             /\ \A p \in pixels : inside(p) /\ \A q \in pixels : q # p => offset(q) # offset(p)
  <2> DEFINE number(p) == p[2] * w + p[1]
  <2>1. ASSUME NEW p \in pixels PROVE offset(p) = 4 * number(p) /\ number(p) \in 0 .. h * w - 1
    <3> DEFINE x == p[1]
    <3> DEFINE y == p[2]
    <3>1. x \in 0 .. w - 1 /\ y \in 0 .. h - 1
      OBVIOUS
    <3>2. offset(p) = 4 * w * y + 4 * x
      BY <1>3 DEF put_pixel_Offset
    <3> HIDE DEF x, y, w, h
    <3>3. 4 * w * y + 4 * x = 4 * (y * w + x)
      BY <1>1, <3>1
    <3>4. y * w + x \in 0 .. h * w - 1
      BY <1>1, <3>1, PixelNumbers DEF Numbered
    <3> QED BY <3>2, <3>3, <3>4 DEF x, y
  <2>2. ASSUME NEW p \in pixels, NEW q \in pixels, number(p) = number(q) PROVE p = q
    <3> HIDE DEF w, h
    <3>1. p[1] \in 0 .. w - 1 /\ p[2] \in 0 .. h - 1 /\ q[1] \in 0 .. w - 1 /\ q[2] \in 0 .. h - 1
          /\ p = <<p[1], p[2]>> /\ q = <<q[1], q[2]>>
      OBVIOUS
    <3>2. p[1] = q[1] /\ p[2] = q[2]
      <4>1. Numbered(w, h)
        BY <1>1, PixelNumbers
      <4>2. p[2] * w + p[1] = q[2] * w + q[1]
        BY <2>2
      <4> DEFINE x == p[1]
      <4> DEFINE y == p[2]
      <4> DEFINE u == q[1]
      <4> DEFINE v == q[2]
      <4>3. x \in 0 .. w - 1 /\ y \in 0 .. h - 1 /\ u \in 0 .. w - 1 /\ v \in 0 .. h - 1
            /\ y * w + x = v * w + u
        BY <3>1, <4>2
      <4> HIDE DEF x, y, u, v
      <4>4. x = u /\ y = v
        BY <4>1, <4>3, Zenon DEF Numbered
      <4> QED BY <4>4 DEF x, y, u, v
    <3> QED BY <3>1, <3>2
  <2>3. ASSUME NEW i \in 0 .. h * w - 1 PROVE \E p \in pixels : i = number(p)
    <3> HIDE DEF w, h
    <3>1. PICK x \in 0 .. w - 1, y \in 0 .. h - 1 : i = y * w + x
      <4>1. Numbered(w, h)
        BY <1>1, PixelNumbers
      <4> QED BY <4>1, Zenon DEF Numbered
    <3>2. <<x, y>> \in pixels /\ number(<<x, y>>) = i
      BY <3>1
    <3> QED BY <3>2
  <2>4. terminal_Offsets(m.screen) = {4 * i : i \in 0 .. h * w - 1}
    BY DEF terminal_Offsets
  <2> DEFINE b == h * w
  <2>b. b \in Nat /\ w * h * 4 = 4 * b
    <3> HIDE DEF w, h
    <3> QED BY <1>1
  <2> HIDE DEF pixels, offset, number, w, h
  <2>5. terminal_Offsets(m.screen) = {offset(p) : p \in pixels}
    <3>1. \A i \in 0 .. h * w - 1 : \E p \in pixels : 4 * i = offset(p)
      BY <2>1, <2>3
    <3>2. \A p \in pixels : \E i \in 0 .. h * w - 1 : offset(p) = 4 * i
      BY <2>1
    <3> QED BY <2>4, <3>1, <3>2
  <2>6. ASSUME NEW p \in pixels PROVE inside(p)
    <3> DEFINE n == number(p)
    <3>1. n \in 0 .. b - 1 /\ offset(p) = 4 * n
      BY <2>1
    <3> HIDE DEF b, n
    <3>2. 4 * n \in Nat /\ 4 * n < 4 * b
      BY <2>b, <3>1
    <3> QED BY <2>b, <3>1, <3>2
  <2>7. ASSUME NEW p \in pixels, NEW q \in pixels, offset(p) = offset(q) PROVE p = q
    <3> DEFINE a == number(p)
    <3> DEFINE c == number(q)
    <3>1. a \in 0 .. b - 1 /\ c \in 0 .. b - 1 /\ 4 * a = 4 * c
      BY <2>1, <2>7
    <3> HIDE DEF a, b, c
    <3>2. a = c
      BY <2>b, <3>1
    <3> QED BY <2>2, <3>2 DEF a, c
  <2> QED BY <2>5, <2>6, <2>7 DEF offset, w, pixels, h
<1> QED BY <1>2, <1>3, <1>4 DEF PixelsMapped

LEMMA ControllerIs == m \in Machines /\ BarInv /\ DeviceInv => ControllerMapped
<1> SUFFICES ASSUME m \in Machines, BarInv, DeviceInv, controller # <<>>
             PROVE  /\ bar = m.bar.base + m.bar.flags
                    /\ [i \in DOMAIN controller |-> kmap[controller[i]]] =
                           [i \in 1 .. m.bar.size \div PageSize |-> (m.bar.base \div PageSize) + i - 1]
  BY DEF ControllerMapped
<1> DEFINE n == m.bar.size \div PageSize
<1>1. n \in Nat
  BY BarFacts
<1>2. controller \in Seq(Nat) /\ Len(controller) = n
      /\ \A i \in 1 .. n : kmap[controller[i]] = (m.bar.base \div PageSize) + i - 1
  BY DEF DeviceInv, ControllerOK
<1> HIDE DEF n
<1>3. DOMAIN controller = 1 .. n
  BY <1>1, <1>2
<1>4. [i \in DOMAIN controller |-> kmap[controller[i]]] = [i \in 1 .. n |-> (m.bar.base \div PageSize) + i - 1]
  BY <1>2, <1>3
<1> QED BY <1>4 DEF BarInv, n

LEMMA DeviceInit == Init => DeviceInv
<1> SUFFICES ASSUME Init PROVE DeviceInv
  OBVIOUS
<1>1. m \in Machines /\ phase = "memory" /\ framebuffer = 0 /\ controller = <<>> /\ g_pml4 = m.pml4
  BY DEF Init
<1>2. 0 \in m.pml4
  BY <1>1, MachineFacts DEF ScreenOK
<1> QED BY <1>1, <1>2 DEF DeviceInv, PixelMap, ControllerOK

\* Which step changes which variable.
LEMMA DeviceFrame ==
    ASSUME [Next]_vars, phase \in Phases
    PROVE  /\ remap_framebuffer \/ (framebuffer' = framebuffer
                  /\ (phase' \in {"memory", "framebuffer"} <=> phase \in {"memory", "framebuffer"}))
           /\ MapController \/ controller' = controller
           /\ \/ initialize_memory
              \/ free_uefi_memory_and_remove_identity_mapping
              \/ g_pml4' = g_pml4 /\ (phase' = "memory" <=> phase = "memory")
<1>1. CASE Aside
  BY <1>1 DEF Aside, bootVars, acpiVars, pciVars, apicVars
<1>2. CASE initialize_memory \/ setup_idt \/ register_exception_interrupts
           \/ free_uefi_memory_and_remove_identity_mapping
  BY <1>2 DEF initialize_memory, setup_idt, register_exception_interrupts,
       free_uefi_memory_and_remove_identity_mapping, Step, pciVars
<1>3. CASE initialize_acpi \/ StartEnumeration \/ EnumerationEnds \/ StartApic
  BY <1>3 DEF initialize_acpi, StartEnumeration, EnumerationEnds, StartApic, Step, bootVars, pciVars
<1>4. CASE prepare_syscalls \/ WriteLower \/ WriteUpper \/ RegisterHandler
  BY <1>4 DEF prepare_syscalls, WriteLower, WriteUpper, RegisterHandler, Step, bootVars, pciVars
<1>5. CASE remap_framebuffer \/ prepare_acpi_memory \/ setup_gdt_and_tss
  BY <1>5 DEF remap_framebuffer, prepare_acpi_memory, setup_gdt_and_tss, Step, bootVars, pciVars
<1>6. CASE VisitFunction \/ ParseEntry \/ EnableLocalApic \/ MapController
  BY <1>6 DEF VisitFunction, ParseEntry, EnableLocalApic, MapController, Step, bootVars, pciVars
<1> QED BY <1>1, <1>2, <1>3, <1>4, <1>5, <1>6, NextCases DEF Maps, Advances

LEMMA DeviceNext == CoreInv /\ DeviceInv /\ [Next]_vars => DeviceInv'
<1> SUFFICES ASSUME CoreInv, DeviceInv, [Next]_vars PROVE DeviceInv'
  OBVIOUS
<1>1. /\ m' = m /\ m \in Machines /\ phase \in Phases /\ MapInv /\ MapInv' /\ BarInv
      /\ KeptIn(kmap, kmap')
  BY MachineStays, MapStep DEF CoreInv
<1>2. m.framebuffer \in Nat \ {0} /\ FramebufferPages(m.screen, PageSize) \in Nat
  BY <1>1, MachineFacts, ScreenPages DEF ScreenOK
<1> DEFINE F == FramebufferPages(m.screen, PageSize)
<1>3. framebuffer' \in Nat /\ (framebuffer' = 0 <=> phase' \in {"memory", "framebuffer"}) /\ PixelMap'
  <2>1. CASE remap_framebuffer
    <3> DEFINE r == MapPages(m.framebuffer, F)
    <3>1. framebuffer' = r.virt /\ kmap' = r.kmap /\ phase' = "acpi memory"
      BY <2>1 DEF remap_framebuffer, Mapped, Step
    <3>2. r.virt \in Nat \ {0} /\ \A n \in 0 .. F - 1 : r.virt + n \in DOMAIN r.kmap /\ r.kmap[r.virt + n] = m.framebuffer + n
      BY <1>1, <1>2, MapPagesOK
    <3> HIDE DEF r, F
    <3>3. \A n \in 0 .. F - 1 : framebuffer' + n \in DOMAIN kmap' /\ kmap'[framebuffer' + n] = m.framebuffer + n
      BY <3>1, <3>2
    <3>4. framebuffer' \in Nat \ {0}
      BY <3>1, <3>2
    <3> QED BY <1>1, <3>1, <3>3, <3>4 DEF PixelMap, F
  <2>2. CASE ~remap_framebuffer
    <3>1. framebuffer' = framebuffer /\ (phase' \in {"memory", "framebuffer"} <=> phase \in {"memory", "framebuffer"})
      BY <1>1, <2>2, DeviceFrame
    <3>2. ASSUME framebuffer # 0, NEW n \in 0 .. F - 1
          PROVE  framebuffer + n \in DOMAIN kmap' /\ kmap'[framebuffer + n] = m.framebuffer + n
      <4>1. framebuffer + n \in DOMAIN kmap /\ kmap[framebuffer + n] = m.framebuffer + n
        BY <3>2 DEF DeviceInv, PixelMap
      <4>2. m.framebuffer + n # 0
        BY <1>2
      <4> QED BY <1>1, <4>1, <4>2 DEF KeptIn
    <3>3. PixelMap'
      BY <1>1, <3>1, <3>2 DEF PixelMap
    <3> QED BY <3>1, <3>3 DEF DeviceInv
  <2> QED BY <2>1, <2>2
<1>4. ControllerOK'
  <2> DEFINE N == m.bar.size \div PageSize
  <2> DEFINE B == m.bar.base \div PageSize
  <2>0. N \in Nat /\ B \in Nat \ {0}
    BY <1>1, BarFacts
  <2>1. CASE MapController
    <3> DEFINE r == MapPages(B, N)
    <3>1. controller' = [i \in 1 .. N |-> r.virt + i - 1] /\ kmap' = r.kmap
      BY <1>1, <2>1, BarFacts DEF MapController, Mapped
    <3>2. r.virt \in Nat \ {0} /\ \A n \in 0 .. N - 1 : r.virt + n \in DOMAIN r.kmap /\ r.kmap[r.virt + n] = B + n
      BY <1>1, <2>0, MapPagesOK
    <3> HIDE DEF r, N, B
    <3> DEFINE v == r.virt
    <3>3. v \in Nat \ {0}
      BY <3>2
    <3> HIDE DEF v
    <3>4. \A i \in 1 .. N : v + i - 1 \in Nat /\ i - 1 \in 0 .. N - 1 /\ v + (i - 1) = v + i - 1 /\ B + (i - 1) = B + i - 1
      BY <2>0, <3>3
    <3>5. controller' \in Seq(Nat) /\ Len(controller') = N /\ \A i \in 1 .. N : controller'[i] = v + i - 1
      BY <2>0, <3>1, <3>4 DEF v
    <3>6. \A n \in 0 .. N - 1 : v + n \in DOMAIN kmap' /\ kmap'[v + n] = B + n
      BY <3>1, <3>2 DEF v
    <3>7. \A i \in 1 .. N : controller'[i] \in DOMAIN kmap' /\ kmap'[controller'[i]] = B + i - 1
      BY <3>4, <3>5, <3>6
    <3> QED BY <1>1, <3>5, <3>7 DEF ControllerOK, N, B
  <2>2. CASE ~MapController
    <3>1. controller' = controller
      BY <1>1, <2>2, DeviceFrame
    <3>2. ASSUME controller # <<>>, NEW i \in 1 .. N
          PROVE  controller[i] \in DOMAIN kmap' /\ kmap'[controller[i]] = B + i - 1
      <4>1. controller[i] \in DOMAIN kmap /\ kmap[controller[i]] = B + i - 1
        BY <3>2 DEF DeviceInv, ControllerOK
      <4> HIDE DEF B, N
      <4>2. B + i - 1 # 0
        BY <2>0
      <4> QED BY <1>1, <4>1, <4>2 DEF KeptIn
    <3>3. controller # <<>> => controller \in Seq(Nat) /\ Len(controller) = N
      BY DEF DeviceInv, ControllerOK
    <3> QED BY <1>1, <3>1, <3>2, <3>3 DEF ControllerOK
  <2> QED BY <2>1, <2>2
<1>5. /\ phase' \in {"memory", "framebuffer"} => 0 \in g_pml4'
      /\ phase' # "memory" => KERNEL_PML4_OFFSET \in g_pml4'
  <2>1. CASE initialize_memory
    BY <2>1 DEF initialize_memory, Step, Retained, DeviceInv
  <2>2. CASE free_uefi_memory_and_remove_identity_mapping
    <3>1. g_pml4' = {i \in g_pml4 : i >= KERNEL_PML4_OFFSET} /\ phase = "reclaim" /\ phase' = "acpi"
      BY <2>2 DEF free_uefi_memory_and_remove_identity_mapping, Step
    <3>2. KERNEL_PML4_OFFSET >= KERNEL_PML4_OFFSET
      BY DEF KERNEL_PML4_OFFSET
    <3> QED BY <3>1, <3>2 DEF DeviceInv
  <2>3. CASE ~initialize_memory /\ ~free_uefi_memory_and_remove_identity_mapping
    <3>1. g_pml4' = g_pml4 /\ (phase' = "memory" <=> phase = "memory")
      BY <1>1, <2>3, DeviceFrame
    <3>2. phase' \in {"memory", "framebuffer"} => phase \in {"memory", "framebuffer"}
      <4>1. CASE remap_framebuffer
        BY <4>1 DEF remap_framebuffer, Step
      <4> QED BY <1>1, <4>1, DeviceFrame
    <3> QED BY <3>1, <3>2 DEF DeviceInv
  <2> QED BY <2>1, <2>2, <2>3
<1> QED BY <1>3, <1>4, <1>5 DEF DeviceInv

\* The kernel reaches the memory of its devices where it believes it to be, on
\* every machine: the pixels of the screen from the first on, and the registers
\* of the controller, whose size is found and whose address is put back.
THEOREM DeviceMemoryAlwaysMapped == Spec => []DeviceMemoryMapped
<1> DEFINE Inv == CoreInv /\ DeviceInv
<1>1. Init => Inv
  BY CoreInit, DeviceInit
<1>2. Inv /\ [Next]_vars => Inv'
  BY CoreNext, DeviceNext
<1>3. Inv => DeviceMemoryMapped
  BY PixelsAre, ControllerIs DEF CoreInv, DeviceMemoryMapped
<1> HIDE DEF Inv
<1> QED BY <1>1, <1>2, <1>3, PTL DEF Spec

-----------------------------------------------------------------------------
(* The way of the keyboard's interrupt: the overrides and I/O APICs that   *)
(* the MADT lists, and the redirection entry.                              *)

\* What the entries before the n-th leave of interrupt 1.
OverridesBefore(n) == {i \in 1 .. n - 1 : TheEntries[i].type = "override" /\ TheEntries[i].irq = 1}
GsiBefore(n) == IF OverridesBefore(n) = {} THEN 1 ELSE TheEntries[Max(OverridesBefore(n))].gsi

\* An I/O APIC of the array is one of the MADT, with all its pins.
Listed(io) ==
    \E i \in DOMAIN TheEntries :
        /\ TheEntries[i].type = "ioapic"
        /\ io.number = TheEntries[i].number /\ io.gsi_offset = TheEntries[i].base
        /\ io.used_irqs = m.ioapics[io.number].irqs

ApicInv ==
    /\ g_found_ioapics \in Seq(IOAPICInfo)
    /\ phase \notin ApicPhases => g_found_ioapics = <<>>
    /\ phase \in ApicPhases =>
           /\ g_gsi_override_table \in [0 .. 15 -> Nat]
           /\ g_gsi_override_table[1] = GsiBefore(IF phase = "madt" THEN at[1] ELSE Len(TheEntries) + 1)
           /\ \A j \in DOMAIN g_found_ioapics : Listed(g_found_ioapics[j])
    /\ phase = "madt" => at[1] <= Len(TheEntries) + 1

LEMMA ApicInit == Init => ApicInv
BY DEF Init, ApicInv, ApicPhases, FunctionPhases, TablePhases

LEMMA ApicFrame ==
    ASSUME [Next]_vars, phase \in Phases
    PROVE  /\ ParseEntry \/ g_found_ioapics' = g_found_ioapics
           /\ ParseEntry \/ StartApic \/ g_gsi_override_table' = g_gsi_override_table
           /\ StartApic \/ (phase' \in ApicPhases => phase \in ApicPhases)
           /\ phase' \notin ApicPhases => phase \notin ApicPhases
           /\ StartApic \/ ParseEntry \/ EnableLocalApic \/ (phase' = "madt" <=> phase = "madt")
           /\ StartApic \/ ParseEntry \/ EnableLocalApic \/ (phase = "madt" => at' = at)
           /\ WriteLower \/ WriteUpper \/ redtable' = redtable
           /\ WriteLower \/ (phase' \in {"destination", "handler", "idle"} <=> phase \in {"destination", "handler", "idle"})
<1> USE DEF Phases, EarlyPhases, TablePhases, FunctionPhases, ApicPhases
<1>1. CASE Aside
  BY <1>1 DEF Aside, bootVars, acpiVars, pciVars, apicVars
<1>2. CASE initialize_memory \/ setup_idt \/ register_exception_interrupts
           \/ free_uefi_memory_and_remove_identity_mapping
  BY <1>2 DEF initialize_memory, setup_idt, register_exception_interrupts,
       free_uefi_memory_and_remove_identity_mapping, Step, apicVars
<1>3. CASE initialize_acpi \/ StartEnumeration \/ EnumerationEnds \/ StartApic
  BY <1>3 DEF initialize_acpi, StartEnumeration, EnumerationEnds, StartApic, Step, apicVars
<1>4. CASE prepare_syscalls \/ WriteLower \/ WriteUpper \/ RegisterHandler
  BY <1>4 DEF prepare_syscalls, WriteLower, WriteUpper, RegisterHandler, Step, apicVars
<1>5. CASE remap_framebuffer \/ prepare_acpi_memory \/ setup_gdt_and_tss
  BY <1>5 DEF remap_framebuffer, prepare_acpi_memory, setup_gdt_and_tss, Step, apicVars
<1>6. CASE VisitFunction \/ ParseEntry \/ EnableLocalApic \/ MapController
  BY <1>6 DEF VisitFunction, ParseEntry, EnableLocalApic, MapController, Step, apicVars
<1> QED BY <1>1, <1>2, <1>3, <1>4, <1>5, <1>6, NextCases DEF Maps, Advances

\* One more entry: only an override of interrupt 1 changes what is left of it.
LEMMA GsiStep ==
    ASSUME NEW n \in Nat \ {0}
    PROVE  IF TheEntries[n].type = "override" /\ TheEntries[n].irq = 1
           THEN GsiBefore(n + 1) = TheEntries[n].gsi
           ELSE GsiBefore(n + 1) = GsiBefore(n)
<1> DEFINE hit(i) == TheEntries[i].type = "override" /\ TheEntries[i].irq = 1
<1>1. \A i : i \in 1 .. (n + 1) - 1 <=> i \in 1 .. n - 1 \/ i = n
  OBVIOUS
<1>2. CASE hit(n)
  <2> DEFINE s == OverridesBefore(n + 1)
  <2>1. n \in s /\ \A x \in s : x \in Int /\ x <= n
    BY <1>1, <1>2 DEF OverridesBefore
  <2> HIDE DEF s
  <2>2. Max(s) = n
    BY <2>1, MaxIs
  <2> QED BY <1>2, <2>1, <2>2 DEF GsiBefore, s
<1>3. CASE ~hit(n)
  <2>1. OverridesBefore(n + 1) = OverridesBefore(n)
    BY <1>1, <1>3 DEF OverridesBefore
  <2> QED BY <1>3, <2>1 DEF GsiBefore
<1> QED BY <1>2, <1>3

\* The entries do not change, nor what follows from them.
LEMMA GsiStays ==
    ASSUME m' = m
    PROVE  /\ \A n : GsiBefore(n)' = GsiBefore(n)
           /\ \A io : Listed(io)' = Listed(io)
<1>1. TheEntries' = TheEntries
  BY TablesStay
<1>2. \A n : GsiBefore(n)' = GsiBefore(n)
  BY <1>1 DEF GsiBefore, OverridesBefore
<1>3. \A io : Listed(io)' = Listed(io)
  BY <1>1 DEF Listed
<1> QED BY <1>2, <1>3

LEMMA ApicNext == CoreInv /\ ApicInv /\ [Next]_vars => ApicInv'
<1> SUFFICES ASSUME CoreInv, ApicInv, [Next]_vars PROVE ApicInv'
  OBVIOUS
<1>1. /\ m' = m /\ m \in Machines /\ phase \in Phases /\ AcpiInv /\ TableInv
      /\ TheEntries' = TheEntries
  BY MachineStays, TablesStay DEF CoreInv
<1> DEFINE Upto(ph, n) == IF ph = "madt" THEN n ELSE Len(TheEntries) + 1
<1> DEFINE OK(ph, n, found, table) ==
             /\ found \in Seq(IOAPICInfo)
             /\ ph \notin ApicPhases => found = <<>>
             /\ ph \in ApicPhases =>
                    /\ table \in [0 .. 15 -> Nat]
                    /\ table[1] = GsiBefore(Upto(ph, n))
                    /\ \A j \in DOMAIN found : Listed(found[j])
             /\ ph = "madt" => n <= Len(TheEntries) + 1
<1>2. OK(phase, at[1], g_found_ioapics, g_gsi_override_table)
  BY DEF ApicInv
<1>3. SUFFICES OK(phase', at'[1], g_found_ioapics', g_gsi_override_table')
  <2>1. \A io : Listed(io)' = Listed(io)
    BY <1>1, GsiStays
  <2>2. ASSUME NEW j \in DOMAIN g_found_ioapics' PROVE Listed(g_found_ioapics[j])' <=> Listed(g_found_ioapics'[j])
    BY <1>1 DEF Listed
  <2>3. GsiBefore(IF phase = "madt" THEN at[1] ELSE Len(TheEntries) + 1)' = GsiBefore(Upto(phase', at'[1]))
    BY <1>1 DEF GsiBefore, OverridesBefore
  <2> QED BY <1>1, <2>2, <2>3 DEF ApicInv
<1>4. CASE StartApic
  <2>1. phase = "apic" /\ phase' = "madt" /\ at' = <<1, 0, 0, 0>> /\ g_gsi_override_table' = [n \in 0 .. 15 |-> n]
        /\ g_found_ioapics' = g_found_ioapics /\ find_table("APIC") > 0
    BY <1>4 DEF StartApic, Step
  <2>2. g_found_ioapics' = <<>> /\ phase' \in ApicPhases
    BY <1>2, <2>1 DEF ApicPhases, FunctionPhases, TablePhases
  <2>3. g_gsi_override_table' \in [0 .. 15 -> Nat] /\ g_gsi_override_table'[1] = 1 /\ at'[1] = 1
    BY <2>1
  <2>4. OverridesBefore(1) = {}
    BY DEF OverridesBefore
  <2>5. GsiBefore(1) = 1
    BY <2>4 DEF GsiBefore
  <2>6. 1 <= Len(TheEntries) + 1
    <3>1. phase \in TablePhases
      BY <2>1 DEF TablePhases
    <3>2. Found("APIC")
      BY <1>1, <2>1, <3>1, FindTable
    <3>3. TheEntries \in Seq(MADTEntry)
      BY <1>1, <3>1, <3>2, EntriesTyped
    <3> QED BY <3>3
  <2> QED BY <2>1, <2>2, <2>3, <2>5, <2>6
<1>5. CASE ParseEntry
  <2> DEFINE n == at[1]
  <2> DEFINE e == TheEntries[n]
  <2>1. /\ e \in MADTEntry /\ e = Madt.madt[n] /\ at \in Positions /\ n \in 1 .. Len(TheEntries)
        /\ TheEntries \in Seq(MADTEntry)
    BY <1>5, EntryFacts
  <2>2. phase = "madt" /\ phase' = "madt" /\ at'[1] = n + 1 /\ phase' \in ApicPhases
    <3>1. phase = "madt" /\ phase' = "madt" /\ at' = [at EXCEPT ![1] = @ + 1]
      BY <1>5 DEF ParseEntry, Step
    <3> QED BY <2>1, <3>1 DEF ApicPhases, FunctionPhases, TablePhases, Positions
  <2>3. n + 1 <= Len(TheEntries) + 1 /\ n \in Nat \ {0}
    BY <2>1
  <2>4. g_gsi_override_table \in [0 .. 15 -> Nat] /\ g_gsi_override_table[1] = GsiBefore(n)
    BY <1>2, <2>2
  <2>5. g_gsi_override_table' \in [0 .. 15 -> Nat] /\ g_gsi_override_table'[1] = GsiBefore(n + 1)
    <3>1. CASE e.type = "override"
      <4>1. g_gsi_override_table' = [g_gsi_override_table EXCEPT ![e.irq] = e.gsi]
        BY <1>5, <2>1, <3>1 DEF ParseEntry
      <4>2. e.irq \in 0 .. 15 /\ e.gsi \in Nat
        BY <2>1, <3>1 DEF MADTEntry
      <4>3. IF e.irq = 1 THEN GsiBefore(n + 1) = e.gsi ELSE GsiBefore(n + 1) = GsiBefore(n)
        BY <2>3, <3>1, GsiStep
      <4> QED BY <2>4, <4>1, <4>2, <4>3
    <3>2. CASE e.type # "override"
      <4>1. g_gsi_override_table' = g_gsi_override_table
        BY <1>5, <2>1, <3>2 DEF ParseEntry
      <4>2. GsiBefore(n + 1) = GsiBefore(n)
        BY <2>3, <3>2, GsiStep
      <4> QED BY <2>4, <4>1, <4>2
    <3> QED BY <3>1, <3>2
  <2>6. g_found_ioapics' \in Seq(IOAPICInfo) /\ \A j \in DOMAIN g_found_ioapics' : Listed(g_found_ioapics'[j])
    <3>0. g_found_ioapics \in Seq(IOAPICInfo) /\ \A j \in DOMAIN g_found_ioapics : Listed(g_found_ioapics[j])
      BY <1>2, <2>2
    <3>1. CASE e.type = "ioapic"
      <4> DEFINE io == [number |-> e.number, gsi_offset |-> e.base,
                        used_irqs |-> 1 + read_ioapic_mre(m.ioapics[e.number])]
      <4>1. g_found_ioapics' = Append(g_found_ioapics, io)
        BY <1>5, <2>1, <3>1 DEF ParseEntry
      <4>2. e.number \in Nat /\ e.base \in Nat
        BY <2>1, <3>1 DEF MADTEntry
      <4>3. e.number \in DOMAIN m.ioapics /\ m.ioapics \in Seq([irqs : 1 .. 256, hardware_id : Nat])
        <5>1. Found("APIC") /\ phase \in TablePhases
          BY <2>2 DEF CoreInv, LoopInv, ApicPhases, FunctionPhases, TablePhases
        <5>2. FoundPage("APIC") \in DOMAIN m.tables /\ m.tables[FoundPage("APIC")].signature = "APIC"
          BY <1>1, <5>1, EntriesTyped
        <5>3. m.tables[FoundPage("APIC")].madt = TheEntries /\ n \in DOMAIN TheEntries
          BY <2>1 DEF TheEntries, TheTable
        <5> QED BY <1>1, <3>1, <5>2, <5>3, MachineFacts DEF KeyboardOK
      <4> DEFINE q == m.ioapics[e.number].irqs
      <4>4. q \in 1 .. 256
        <5>1. m.ioapics[e.number] \in [irqs : 1 .. 256, hardware_id : Nat]
          <6> DEFINE k == e.number
          <6> DEFINE T == [irqs : 1 .. 256, hardware_id : Nat]
          <6>1. k \in DOMAIN m.ioapics /\ m.ioapics \in Seq(T)
            BY <4>3
          <6> HIDE DEF k, T
          <6>2. m.ioapics[k] \in T
            BY <6>1
          <6> QED BY <6>2 DEF k, T
        <5> QED BY <5>1
      <4>5. 1 + read_ioapic_mre(m.ioapics[e.number]) = 1 + ((q - 1) % 256)
        BY DEF read_ioapic_mre
      <4> HIDE DEF q
      <4>6. 1 + ((q - 1) % 256) = q
        BY <4>4
      <4>7. io.number = e.number /\ io.gsi_offset = e.base /\ io.used_irqs = q /\ io \in IOAPICInfo
        BY <4>2, <4>4, <4>5, <4>6 DEF IOAPICInfo
      <4> HIDE DEF io
      <4>8. Listed(io)
        <5>1. n \in DOMAIN TheEntries
          BY <2>1
        <5> QED BY <3>1, <4>7, <5>1 DEF Listed, q
      <4>9. g_found_ioapics' \in Seq(IOAPICInfo) /\ Len(g_found_ioapics') = Len(g_found_ioapics) + 1
            /\ (\A j \in 1 .. Len(g_found_ioapics) : g_found_ioapics'[j] = g_found_ioapics[j])
            /\ g_found_ioapics'[Len(g_found_ioapics) + 1] = io
        BY <3>0, <4>1, <4>7
      <4>10. DOMAIN g_found_ioapics' = 1 .. Len(g_found_ioapics) + 1 /\ DOMAIN g_found_ioapics = 1 .. Len(g_found_ioapics)
             /\ Len(g_found_ioapics) \in Nat
        BY <3>0, <4>9
      <4>11. \A j \in 1 .. Len(g_found_ioapics) + 1 : j \in 1 .. Len(g_found_ioapics) \/ j = Len(g_found_ioapics) + 1
        BY <4>10
      <4> QED BY <3>0, <4>8, <4>9, <4>10, <4>11
    <3>2. CASE e.type # "ioapic"
      <4>1. g_found_ioapics' = g_found_ioapics
        BY <1>5, <2>1, <3>2 DEF ParseEntry
      <4> QED BY <3>0, <4>1
    <3> QED BY <3>1, <3>2
  <2> HIDE DEF n, e
  <2> QED BY <2>2, <2>3, <2>5, <2>6
<1>6. CASE EnableLocalApic
  <2>1. phase = "madt" /\ phase' = "ahci" /\ at[1] > Len(Madt.madt) /\ g_found_ioapics' = g_found_ioapics
        /\ g_gsi_override_table' = g_gsi_override_table
    BY <1>6 DEF EnableLocalApic, Step
  <2>2. phase \in TablePhases /\ phase \in ApicPhases /\ phase' \in ApicPhases
    BY <2>1 DEF ApicPhases, FunctionPhases, TablePhases
  <2>3. Madt.madt = TheEntries /\ TheEntries \in Seq(MADTEntry)
    BY <1>1, <2>2, EntriesTyped DEF CoreInv, LoopInv
  <2>4. at[1] \in Nat
    BY <2>1 DEF CoreInv, LoopInv, Positions
  <2>5. at[1] = Len(TheEntries) + 1
    BY <1>2, <2>1, <2>3, <2>4
  <2> QED BY <1>2, <2>1, <2>2, <2>5
<1>7. CASE ~StartApic /\ ~ParseEntry /\ ~EnableLocalApic
  <2>1. /\ g_found_ioapics' = g_found_ioapics /\ g_gsi_override_table' = g_gsi_override_table
        /\ phase' \in ApicPhases <=> phase \in ApicPhases
        /\ phase' = "madt" <=> phase = "madt"
        /\ phase = "madt" => at' = at
    BY <1>1, <1>7, ApicFrame
  <2> QED BY <1>2, <2>1
<1> QED BY <1>4, <1>5, <1>6, <1>7

-----------------------------------------------------------------------------
\* The pins that are open.
RedTyped ==
    /\ DOMAIN redtable = DOMAIN m.ioapics
    /\ \A i \in DOMAIN redtable : redtable[i] \in [0 .. m.ioapics[i].irqs - 1 -> IOREDTBLEntry]
RoutedPhases == {"destination", "handler", "idle"}
RouteInv ==
    /\ RedTyped
    /\ phase \notin RoutedPhases =>
           \A i \in DOMAIN redtable : \A pin \in DOMAIN redtable[i] : redtable[i][pin].masked
    /\ phase \in RoutedPhases =>
           \A i \in DOMAIN redtable : \A pin \in DOMAIN redtable[i] :
               /\ ~redtable[i][pin].masked <=> i = m.keyboard.ioapic /\ pin = m.keyboard.pin
               /\ ~redtable[i][pin].masked => redtable[i][pin].vector = KB_VECTOR
    /\ phase = "destination" => get_responsible_ioapic(KbGsi) # 0

LEMMA RouteInit == Init => RouteInv
<1> SUFFICES ASSUME Init PROVE RouteInv
  OBVIOUS
<1> DEFINE closed == [masked |-> TRUE, vector |-> 0, destination |-> 0]
<1>1. redtable = [i \in DOMAIN m.ioapics |-> [n \in 0 .. m.ioapics[i].irqs - 1 |-> closed]] /\ phase = "memory"
  BY DEF Init
<1>2. closed \in IOREDTBLEntry /\ closed.masked
  BY DEF IOREDTBLEntry
<1> HIDE DEF closed
<1>3. RedTyped
  BY <1>1, <1>2 DEF RedTyped
<1>4. \A i \in DOMAIN redtable : \A pin \in DOMAIN redtable[i] : redtable[i][pin].masked
  BY <1>1, <1>2
<1> QED BY <1>1, <1>3, <1>4 DEF RouteInv, RoutedPhases

\* One entry is written.
LEMMA EntryWritten ==
    ASSUME RedTyped, m' = m, NEW a, NEW b, NEW e \in IOREDTBLEntry, redtable' = [redtable EXCEPT ![a][b] = e]
    PROVE  /\ RedTyped' /\ DOMAIN redtable' = DOMAIN redtable
           /\ \A i \in DOMAIN redtable :
                 /\ DOMAIN redtable'[i] = DOMAIN redtable[i]
                 /\ \A pin \in DOMAIN redtable[i] :
                       redtable'[i][pin] = IF i = a /\ pin = b THEN e ELSE redtable[i][pin]
<1>1. DOMAIN redtable' = DOMAIN redtable
  OBVIOUS
<1>2. ASSUME NEW i \in DOMAIN redtable
      PROVE  redtable'[i] = IF i = a THEN [redtable[i] EXCEPT ![b] = e] ELSE redtable[i]
  OBVIOUS
<1>3. ASSUME NEW i \in DOMAIN redtable
      PROVE  /\ redtable'[i] \in [0 .. m.ioapics[i].irqs - 1 -> IOREDTBLEntry]
             /\ DOMAIN redtable'[i] = DOMAIN redtable[i]
             /\ \A pin \in DOMAIN redtable[i] :
                       redtable'[i][pin] = IF i = a /\ pin = b THEN e ELSE redtable[i][pin]
  <2>1. redtable[i] \in [0 .. m.ioapics[i].irqs - 1 -> IOREDTBLEntry]
    BY DEF RedTyped
  <2> QED BY <1>2, <2>1
<1> QED BY <1>1, <1>3 DEF RedTyped

\* The I/O APIC and the pin that register_ps2_interrupt finds are the keyboard's.
LEMMA KeyboardPin ==
    ASSUME CoreInv, ApicInv, phase \in {"keyboard", "destination"}, get_responsible_ioapic(KbGsi) # 0
    PROVE  /\ KbIoapic.number = m.keyboard.ioapic /\ KbPin = m.keyboard.pin
           /\ KbIoapic.number \in DOMAIN m.ioapics
           /\ KbPin \in 0 .. m.ioapics[KbIoapic.number].irqs - 1
<1>1. phase \in ApicPhases /\ phase \in TablePhases
  BY DEF ApicPhases, FunctionPhases, TablePhases
<1>2. Found("APIC") /\ m \in Machines
  BY <1>1 DEF CoreInv, LoopInv
<1>3. /\ TheEntries \in Seq(MADTEntry) /\ FoundPage("APIC") \in DOMAIN m.tables
      /\ m.tables[FoundPage("APIC")].signature = "APIC" /\ m.tables[FoundPage("APIC")].madt = TheEntries
  BY <1>1, <1>2, EntriesTyped DEF CoreInv, TheEntries, TheTable
<1>4. KbGsi \in Nat /\ KbGsi = GsiBefore(Len(TheEntries) + 1)
  <2>1. phase # "madt"
    OBVIOUS
  <2>2. g_gsi_override_table \in [0 .. 15 -> Nat] /\ g_gsi_override_table[1] = GsiBefore(Len(TheEntries) + 1)
    BY <1>1, <2>1 DEF ApicInv
  <2> QED BY <2>2 DEF KbGsi
<1>5. GsiBefore(Len(TheEntries) + 1) = KeyboardGsi(TheEntries)
  <2>1. (Len(TheEntries) + 1) - 1 = Len(TheEntries) /\ DOMAIN TheEntries = 1 .. Len(TheEntries)
    BY <1>3
  <2> QED BY <2>1 DEF GsiBefore, OverridesBefore, KeyboardGsi
<1> DEFINE I == {j \in 1 .. Len(g_found_ioapics) :
                    g_found_ioapics[j].gsi_offset <= KbGsi /\ KbGsi < g_found_ioapics[j].gsi_offset + g_found_ioapics[j].used_irqs}
<1>6. get_responsible_ioapic(KbGsi) = IF I # {} THEN Min(I) ELSE 0
  BY DEF get_responsible_ioapic, SelectInSeq
<1>7. I # {} /\ I \in SUBSET Nat
  <2>1. g_found_ioapics \in Seq(IOAPICInfo)
    BY DEF ApicInv
  <2>2. I \in SUBSET Nat
    BY <2>1
  <2> HIDE DEF I
  <2> QED BY <1>6, <2>2
<1> DEFINE j == Min(I)
<1>8. j \in I
  BY <1>7, MinOf
<1>9. KbIoapic = g_found_ioapics[j]
  BY <1>6, <1>7 DEF KbIoapic
<1> DEFINE io == g_found_ioapics[j]
<1>10. io.gsi_offset <= KbGsi /\ KbGsi < io.gsi_offset + io.used_irqs /\ j \in 1 .. Len(g_found_ioapics)
  BY <1>8
<1> HIDE DEF I, j
<1>11. io \in IOAPICInfo /\ Listed(io)
  <2>1. g_found_ioapics \in Seq(IOAPICInfo) /\ \A k \in DOMAIN g_found_ioapics : Listed(g_found_ioapics[k])
    BY <1>1 DEF ApicInv
  <2>2. j \in DOMAIN g_found_ioapics
    BY <1>10, <2>1
  <2> QED BY <2>1, <2>2
<1> HIDE DEF io
<1>12. PICK i \in DOMAIN TheEntries :
          /\ TheEntries[i].type = "ioapic"
          /\ io.number = TheEntries[i].number /\ io.gsi_offset = TheEntries[i].base
          /\ io.used_irqs = m.ioapics[io.number].irqs
  BY <1>11 DEF Listed
<1> DEFINE g == KbGsi
<1> DEFINE o == io.gsi_offset
<1> DEFINE u == io.used_irqs
<1>13. g \in Nat /\ o \in Nat /\ u \in Nat /\ o <= g /\ g < o + u
  BY <1>4, <1>10, <1>11 DEF IOAPICInfo, io
<1> HIDE DEF g, o, u
<1>14. g - o \in 0 .. u - 1
  BY <1>13
<1>15. KbPin = g - o /\ KbIoapic.number = io.number
  BY <1>9 DEF KbPin, g, o, io
<1>16. KeyboardGsi(TheEntries) - TheEntries[i].base \in 0 .. m.ioapics[TheEntries[i].number].irqs - 1
  BY <1>4, <1>5, <1>12, <1>14 DEF g, o, u
<1>17. /\ TheEntries[i].number \in DOMAIN m.ioapics /\ TheEntries[i].number = m.keyboard.ioapic
       /\ KeyboardGsi(TheEntries) - TheEntries[i].base = m.keyboard.pin
  BY <1>2, <1>3, <1>12, <1>16, MachineFacts DEF KeyboardOK
<1> QED BY <1>4, <1>5, <1>12, <1>14, <1>15, <1>17 DEF g, o, u

LEMMA DestinationStays ==
    ASSUME [Next]_vars, ~WriteLower, phase' = "destination", phase \in RoutedPhases PROVE phase = "destination"
<1>1. CASE Aside
  BY <1>1 DEF Aside
<1>2. CASE Maps
  BY <1>2 DEF Maps, remap_framebuffer, prepare_acpi_memory, setup_gdt_and_tss, VisitFunction, ParseEntry,
              EnableLocalApic, MapController, Step
<1>3. CASE Advances
  BY <1>3 DEF Advances, initialize_memory, setup_idt, register_exception_interrupts,
       free_uefi_memory_and_remove_identity_mapping, initialize_acpi, StartEnumeration, EnumerationEnds,
       StartApic, prepare_syscalls, WriteUpper, RegisterHandler, Step
<1> QED BY <1>1, <1>2, <1>3, NextCases

LEMMA RouteNext == CoreInv /\ ApicInv /\ RouteInv /\ [Next]_vars => RouteInv'
<1> SUFFICES ASSUME CoreInv, ApicInv, RouteInv, [Next]_vars PROVE RouteInv'
  OBVIOUS
<1>1. m' = m /\ phase \in Phases /\ RedTyped
  BY MachineStays DEF CoreInv, RouteInv
<1> DEFINE a == KbIoapic.number
<1> DEFINE b == KbPin
<1>2. CASE WriteLower
  <2> DEFINE old == redtable[a][b]
  <2> DEFINE e == [masked |-> FALSE, vector |-> KB_VECTOR, destination |-> old.destination]
  <2>1. phase = "keyboard" /\ phase' = "destination" /\ get_responsible_ioapic(KbGsi) # 0
        /\ redtable' = [redtable EXCEPT ![a][b] = e]
    BY <1>2 DEF WriteLower, Step, SetEntry, KbEntry
  <2>2. /\ a = m.keyboard.ioapic /\ b = m.keyboard.pin
        /\ a \in DOMAIN m.ioapics /\ b \in 0 .. m.ioapics[a].irqs - 1
    BY <2>1, KeyboardPin
  <2> HIDE DEF a, b
  <2>3. old \in IOREDTBLEntry
    BY <1>1, <2>2 DEF RedTyped
  <2>5. old.destination \in Nat
    BY <2>3 DEF IOREDTBLEntry
  <2> HIDE DEF old
  <2>6. e \in IOREDTBLEntry /\ ~e.masked /\ e.vector = KB_VECTOR
    BY <2>5 DEF IOREDTBLEntry, KB_VECTOR
  <2> HIDE DEF e
  <2>7. /\ RedTyped' /\ DOMAIN redtable' = DOMAIN redtable
        /\ \A i \in DOMAIN redtable :
                 /\ DOMAIN redtable'[i] = DOMAIN redtable[i]
                 /\ \A pin \in DOMAIN redtable[i] :
                       redtable'[i][pin] = IF i = a /\ pin = b THEN e ELSE redtable[i][pin]
    BY <1>1, <2>1, <2>6, EntryWritten
  <2>8. \A i \in DOMAIN redtable : \A pin \in DOMAIN redtable[i] : redtable[i][pin].masked
    BY <2>1 DEF RouteInv, RoutedPhases
  <2>9. ASSUME NEW i \in DOMAIN redtable', NEW pin \in DOMAIN redtable'[i]
        PROVE  /\ ~redtable'[i][pin].masked <=> i = a /\ pin = b
               /\ ~redtable'[i][pin].masked => redtable'[i][pin].vector = KB_VECTOR
    BY <2>6, <2>7, <2>8
  <2>10. get_responsible_ioapic(KbGsi)' = get_responsible_ioapic(KbGsi)
    <3>1. g_found_ioapics' = g_found_ioapics /\ g_gsi_override_table' = g_gsi_override_table
      BY <1>2 DEF WriteLower
    <3> QED BY <3>1 DEF get_responsible_ioapic, SelectInSeq, KbGsi
  <2> QED BY <1>1, <2>1, <2>2, <2>7, <2>9, <2>10 DEF RouteInv, RoutedPhases
<1>3. CASE WriteUpper
  <2> DEFINE old == redtable[a][b]
  <2> DEFINE e == [old EXCEPT !.destination = 0]
  <2>1. phase = "destination" /\ phase' = "handler" /\ redtable' = [redtable EXCEPT ![a][b] = e]
    BY <1>3 DEF WriteUpper, Step, SetEntry, KbEntry
  <2>2. a \in DOMAIN redtable /\ b \in DOMAIN redtable[a]
    <3>1. get_responsible_ioapic(KbGsi) # 0
      BY <2>1 DEF RouteInv
    <3>2. a \in DOMAIN m.ioapics /\ b \in 0 .. m.ioapics[a].irqs - 1
      BY <2>1, <3>1, KeyboardPin
    <3> HIDE DEF a, b
    <3> QED BY <1>1, <3>2 DEF RedTyped
  <2> HIDE DEF a, b
  <2> QED
    <3>1. old \in IOREDTBLEntry
      BY <1>1, <2>2 DEF RedTyped
    <3>2. e = [masked |-> old.masked, vector |-> old.vector, destination |-> 0]
      <4> HIDE DEF old
      <4> QED BY <3>1 DEF IOREDTBLEntry
    <3>3. old.masked \in BOOLEAN /\ old.vector \in Nat
      BY <3>1 DEF IOREDTBLEntry
    <3>4. e \in IOREDTBLEntry /\ e.masked = old.masked /\ e.vector = old.vector
      <4> HIDE DEF old
      <4>1. e \in IOREDTBLEntry /\ e.vector = old.vector
        BY <3>2, <3>3 DEF IOREDTBLEntry
      <4>2. e.masked = old.masked
        BY <3>2, Zenon
      <4> QED BY <4>1, <4>2
    <3> HIDE DEF e
    <3>5. /\ RedTyped' /\ DOMAIN redtable' = DOMAIN redtable
          /\ \A i \in DOMAIN redtable :
                 /\ DOMAIN redtable'[i] = DOMAIN redtable[i]
                 /\ \A pin \in DOMAIN redtable[i] :
                       redtable'[i][pin] = IF i = a /\ pin = b THEN e ELSE redtable[i][pin]
      BY <1>1, <2>1, <3>4, EntryWritten
    <3>6. \A i \in DOMAIN redtable : \A pin \in DOMAIN redtable[i] :
              redtable'[i][pin].masked = redtable[i][pin].masked /\ redtable'[i][pin].vector = redtable[i][pin].vector
      <4> SUFFICES ASSUME NEW i \in DOMAIN redtable, NEW pin \in DOMAIN redtable[i]
                   PROVE  redtable'[i][pin].masked = redtable[i][pin].masked
                          /\ redtable'[i][pin].vector = redtable[i][pin].vector
        OBVIOUS
      <4>1. CASE i = a /\ pin = b
        BY <3>4, <3>5, <4>1, Zenon DEF old
      <4>2. CASE ~(i = a /\ pin = b)
        BY <3>5, <4>2
      <4> QED BY <4>1, <4>2
    <3> QED BY <1>1, <2>1, <3>5, <3>6 DEF RouteInv, RoutedPhases
<1>4. CASE ~WriteLower /\ ~WriteUpper
  <2>1. redtable' = redtable /\ (phase' \in RoutedPhases <=> phase \in RoutedPhases)
    BY <1>1, <1>4, ApicFrame DEF RoutedPhases
  <2>2. ASSUME phase' = "destination" PROVE get_responsible_ioapic(KbGsi)' # 0
    <3>1. phase = "destination" /\ g_found_ioapics' = g_found_ioapics /\ g_gsi_override_table' = g_gsi_override_table
      <4>1. phase \in RoutedPhases
        BY <2>1, <2>2 DEF RoutedPhases
      <4>2. ~StartApic /\ ~ParseEntry
        BY <4>1 DEF StartApic, ParseEntry, Step, RoutedPhases
      <4>3. phase = "destination"
        BY <1>4, <2>2, <4>1, DestinationStays
      <4> QED BY <1>1, <4>2, <4>3, ApicFrame
    <3>2. get_responsible_ioapic(KbGsi) # 0
      BY <3>1 DEF RouteInv
    <3> QED BY <3>1, <3>2 DEF get_responsible_ioapic, SelectInSeq, KbGsi
  <2> QED BY <1>1, <2>1, <2>2 DEF RouteInv, RedTyped
<1> QED BY <1>2, <1>3, <1>4

\* On every machine whose MADT tells the truth about the keyboard, the pin that
\* the keyboard is wired to raises its vector once boot is through, and no other
\* pin was unmasked, however overrides and I/O APICs are ordered in the table.
THEOREM KeyboardAlwaysRouted == Spec => []KeyboardRouted
<1> DEFINE Inv == CoreInv /\ ApicInv /\ RouteInv
<1>1. Init => Inv
  BY CoreInit, ApicInit, RouteInit
<1>2. Inv /\ [Next]_vars => Inv'
  BY CoreNext, ApicNext, RouteNext
<1>3. Inv => KeyboardRouted
  BY DEF RouteInv, RoutedPhases, KeyboardRouted
<1> HIDE DEF Inv
<1> QED BY <1>1, <1>2, <1>3, PTL DEF Spec

-----------------------------------------------------------------------------
(* The segments, the gates and the stack of the interrupt stack table.     *)

\* What the places of an address are worth.
LEMMA Places ==
    ASSUME NEW b \in Nat \ {0}
    PROVE  /\ Place(b, 2) = b * b /\ Place(b, 3) = Place(b, 2) * b
           /\ Place(b, 4) = Place(b, 2) * Place(b, 2) /\ Place(b, 6) = Place(b, 4) * Place(b, 2)
           /\ Place(b, 8) = Place(b, 4) * Place(b, 4)
BY DEF Place

LEMMA Positive == ASSUME NEW a \in Nat \ {0}, NEW b \in Nat \ {0} PROVE a * b \in Nat \ {0}
OBVIOUS

LEMMA Products == ASSUME NEW a \in Int, NEW b \in Int PROVE (a * b) * b = a * (b * b)
OBVIOUS

LEMMA PlacesPositive ==
    ASSUME NEW b \in Nat \ {0}
    PROVE  /\ Place(b, 2) \in Nat \ {0} /\ Place(b, 3) \in Nat \ {0} /\ Place(b, 4) \in Nat \ {0}
           /\ Place(b, 6) \in Nat \ {0} /\ Place(b, 8) \in Nat \ {0}
<1> DEFINE P2 == Place(b, 2)
           P4 == Place(b, 4)
<1>1. P2 = b * b /\ Place(b, 3) = P2 * b /\ P4 = P2 * P2 /\ Place(b, 6) = P4 * P2 /\ Place(b, 8) = P4 * P4
  BY Places, Zenon
<1> HIDE DEF P2, P4
<1>2. P2 \in Nat \ {0}
  BY <1>1
<1>3. P4 \in Nat \ {0}
  BY <1>1, <1>2
<1>4. P2 * b \in Nat \ {0} /\ P4 * P2 \in Nat \ {0} /\ P4 * P4 \in Nat \ {0}
  BY <1>2, <1>3
<1> QED BY <1>1, <1>2, <1>3, <1>4, Zenon DEF P2, P4

\* The five parts into which the descriptor splits an address add up to it.
LEMMA AddressParts ==
    ASSUME NEW b \in Nat \ {0}, NEW a \in 0 .. Place(b, 8) - 1
    PROVE  (a % Place(b, 2)) + ((a \div Place(b, 2)) % b) * Place(b, 2) + ((a \div Place(b, 3)) % b) * Place(b, 3)
            + ((a \div Place(b, 4)) % Place(b, 2)) * Place(b, 4)
            + ((a \div Place(b, 6)) % Place(b, 2)) * Place(b, 6) = a
<1> DEFINE P2 == Place(b, 2)
           P3 == Place(b, 3)
           P4 == Place(b, 4)
           P6 == Place(b, 6)
           P8 == Place(b, 8)
<1>1. P2 = b * b /\ P3 = P2 * b /\ P4 = P2 * P2 /\ P6 = P4 * P2 /\ P8 = P4 * P4
  BY Places, Zenon
<1> HIDE DEF P2, P3, P4, P6, P8
<1>2. P2 \in Nat \ {0} /\ P3 \in Nat \ {0} /\ P4 \in Nat \ {0} /\ P6 \in Nat \ {0} /\ P8 \in Nat \ {0}
  BY PlacesPositive DEF P2, P3, P4, P6, P8
<1>5. P4 = P3 * b /\ P8 = P6 * P2
  <2>1. P3 * b = P2 * (b * b)
    <3>1. P2 \in Int /\ b \in Int
      BY <1>2
    <3>2. (P2 * b) * b = P2 * (b * b)
      BY <3>1, Products, Zenon
    <3> QED BY <3>2, <1>1, Zenon
  <2>2. P6 * P2 = P4 * (P2 * P2)
    <3>1. P4 \in Int /\ P2 \in Int
      BY <1>2
    <3>2. (P4 * P2) * P2 = P4 * (P2 * P2)
      BY <3>1, Products, Zenon
    <3> QED BY <3>2, <1>1, Zenon
  <2> QED BY <2>1, <2>2, <1>1, Zenon
<1>6. a \in Nat /\ a < P8
  <2>1. a \in 0 .. P8 - 1
    BY DEF P8
  <2> QED BY <1>2, <2>1
<1> DEFINE e2 == a % P2
           e3 == ((a \div P2) % b) * P2
           e4 == ((a \div P3) % b) * P3
           e6 == ((a \div P4) % P2) * P4
           e8 == ((a \div P6) % P2) * P6
<1>7. a % P3 = e2 + e3
  BY <1>1, <1>2, <1>6, DivTwice, Zenon
<1>8. a % P4 = (a % P3) + e4
  BY <1>2, <1>5, <1>6, DivTwice, Zenon
<1>9. a % P6 = (a % P4) + e6
  <2>1. a % (P4 * P2) = (a % P4) + ((a \div P4) % P2) * P4
    BY <1>2, <1>6, DivTwice, Zenon
  <2>2. P4 * P2 = P6
    BY <1>1, Zenon
  <2> QED BY <2>1, <2>2, Zenon
<1>10. a % P8 = (a % P6) + e8
  <2>1. a % (P6 * P2) = (a % P6) + ((a \div P6) % P2) * P6
    BY <1>2, <1>6, DivTwice, Zenon
  <2> QED BY <2>1, <1>5, Zenon
<1>11. a % P8 = a
  BY <1>2, <1>6
<1>12. e2 \in Int /\ e3 \in Int /\ e4 \in Int /\ e6 \in Int /\ e8 \in Int
  BY <1>2, <1>6
<1> HIDE DEF e2, e3, e4, e6, e8
<1>13. e2 + e3 + e4 + e6 + e8 = a
  BY <1>7, <1>8, <1>9, <1>10, <1>11, <1>12
<1> QED BY <1>13 DEF P2, P3, P4, P6, e2, e3, e4, e6, e8

\* Where the loaded table has which segment, and where it says the TSS is.
LoadedRight(gdt, address) ==
    /\ AreSegments(gdt, Loaded(gdt), 0) /\ AreSegments(gdt, StartFrame, 3)
    /\ IsSegment(gdt, GDT_KERNEL_CODE_SEGMENT, 1, 0)
    /\ AreSegments(gdt, OnSyscall(Star), 0) /\ AreSegments(gdt, OnSysret(Star), 3)
    /\ TssAddress(gdt, GDT_TSS_SEGMENT) = address
    /\ gdt \in Seq(GDTEntry) /\ gdt # <<>>

LEMMA SequenceOf == ASSUME NEW S, NEW n \in Nat, NEW f \in [1 .. n -> S] PROVE f \in Seq(S) /\ Len(f) = n
OBVIOUS

\* What a table holds with five fields written.
Written(g, a, b, c, d, e) ==
    [g EXCEPT ![7].base_0_15 = a, ![7].base_16_23 = b, ![7].base_24_31 = c,
              ![8].limit_0_15 = d, ![8].base_0_15 = e]
FieldsAre(h, g, a, b, c, d, e) ==
    /\ h \in [1 .. 8 -> GDTEntry]
    /\ \A i \in 1 .. 8 : h[i].access = g[i].access
    /\ h[7].base_0_15 = a /\ h[7].base_16_23 = b /\ h[7].base_24_31 = c
    /\ h[8].limit_0_15 = d /\ h[8].base_0_15 = e

LEMMA FieldsWritten ==
    ASSUME NEW g \in [1 .. 8 -> GDTEntry],
           NEW a \in Nat, NEW b \in Nat, NEW c \in Nat, NEW d \in Nat, NEW e \in Nat,
           NEW h, h = Written(g, a, b, c, d, e)
    PROVE  FieldsAre(h, g, a, b, c, d, e)
<1> DEFINE g1 == [g EXCEPT ![7].base_0_15 = a]
<1>1. g1 \in [1 .. 8 -> GDTEntry] /\ g1[7].base_0_15 = a /\ \A i \in 1 .. 8 : g1[i].access = g[i].access
  BY DEF GDTEntry
<1> DEFINE g2 == [g1 EXCEPT ![7].base_16_23 = b]
<1> HIDE DEF g1
<1>2. /\ g2 \in [1 .. 8 -> GDTEntry] /\ g2[7].base_0_15 = a /\ g2[7].base_16_23 = b
      /\ \A i \in 1 .. 8 : g2[i].access = g[i].access
  BY <1>1 DEF GDTEntry
<1> DEFINE g3 == [g2 EXCEPT ![7].base_24_31 = c]
<1> HIDE DEF g2
<1>3. /\ g3 \in [1 .. 8 -> GDTEntry]
      /\ g3[7].base_0_15 = a /\ g3[7].base_16_23 = b /\ g3[7].base_24_31 = c
      /\ \A i \in 1 .. 8 : g3[i].access = g[i].access
  BY <1>2 DEF GDTEntry
<1> DEFINE g4 == [g3 EXCEPT ![8].limit_0_15 = d]
<1> HIDE DEF g3
<1>4. /\ g4 \in [1 .. 8 -> GDTEntry]
      /\ g4[7].base_0_15 = a /\ g4[7].base_16_23 = b /\ g4[7].base_24_31 = c /\ g4[8].limit_0_15 = d
      /\ \A i \in 1 .. 8 : g4[i].access = g[i].access
  BY <1>3 DEF GDTEntry
<1> DEFINE g5 == [g4 EXCEPT ![8].base_0_15 = e]
<1> HIDE DEF g4
<1>5. /\ g5 \in [1 .. 8 -> GDTEntry]
      /\ g5[7].base_0_15 = a /\ g5[7].base_16_23 = b /\ g5[7].base_24_31 = c
      /\ g5[8].limit_0_15 = d /\ g5[8].base_0_15 = e
      /\ \A i \in 1 .. 8 : g5[i].access = g[i].access
  BY <1>4 DEF GDTEntry
<1>6. h = g5
  BY DEF g1, g2, g3, g4, g5, Written
<1> QED BY <1>5, <1>6 DEF FieldsAre

LEMMA SegmentsLoaded ==
    ASSUME NEW address \in 0 .. Place(Byte, 8) - 1
    PROVE  LoadedRight(WithTss(g_gdt, address), address)
<1> DEFINE gdt == WithTss(g_gdt, address)
           P2 == Place(Byte, 2)
           a == address % P2
           b == (address \div P2) % Byte
           c == (address \div Place(Byte, 3)) % Byte
           d == (address \div Place(Byte, 4)) % P2
           e == (address \div Place(Byte, 6)) % P2
<1>1. g_gdt \in [1 .. 8 -> GDTEntry] /\ g_gdt[2].access = 154 /\ g_gdt[3].access = 146
      /\ g_gdt[5].access = 242 /\ g_gdt[6].access = 250
  BY DEF g_gdt, Access, GDTEntry
<1>2. Byte \in Nat \ {0}
  BY Sizes
<1>3. /\ Place(Byte, 2) \in Nat \ {0} /\ Place(Byte, 3) \in Nat \ {0} /\ Place(Byte, 4) \in Nat \ {0}
      /\ Place(Byte, 6) \in Nat \ {0} /\ Place(Byte, 8) \in Nat \ {0}
  BY <1>2, PlacesPositive
<1>4. address \in Nat
  BY <1>3
<1>5. a \in Nat /\ b \in Nat /\ c \in Nat /\ d \in Nat /\ e \in Nat
  BY <1>2, <1>3, <1>4
<1>6. gdt = Written(g_gdt, a, b, c, d, e)
  BY Zenon DEF WithTss, Written
<1> HIDE DEF gdt, a, b, c, d, e
<1>7. /\ gdt \in [1 .. 8 -> GDTEntry]
      /\ \A i \in 1 .. 8 : gdt[i].access = g_gdt[i].access
      /\ gdt[7].base_0_15 = a /\ gdt[7].base_16_23 = b /\ gdt[7].base_24_31 = c
      /\ gdt[8].limit_0_15 = d /\ gdt[8].base_0_15 = e
  <2>1. FieldsAre(gdt, g_gdt, a, b, c, d, e)
    BY <1>1, <1>5, <1>6, FieldsWritten, Zenon
  <2> QED BY <2>1, Zenon DEF FieldsAre
<1>8. /\ IsSegment(gdt, 8, 1, 0) /\ IsSegment(gdt, 16, 0, 0) /\ IsSegment(gdt, 43, 1, 3) /\ IsSegment(gdt, 35, 0, 3)
  BY <1>1, <1>7 DEF IsSegment, Selected, Bit
<1>9. /\ AreSegments(gdt, Loaded(gdt), 0) /\ AreSegments(gdt, StartFrame, 3)
      /\ AreSegments(gdt, OnSyscall(Star), 0) /\ AreSegments(gdt, OnSysret(Star), 3)
  BY <1>8 DEF AreSegments, Loaded, StartFrame, OnSyscall, OnSysret, Star, GDT_KERNEL_CODE_SEGMENT,
              GDT_KERNEL_DATA_SEGMENT, GDT_USER_DATA_SEGMENT, GDT_USER_CODE_SEGMENT
<1>10. TssAddress(gdt, GDT_TSS_SEGMENT) = address
  <2>1. Selected(gdt, GDT_TSS_SEGMENT) = gdt[7] /\ Selected(gdt, GDT_TSS_SEGMENT + 8) = gdt[8]
    BY DEF Selected, GDT_TSS_SEGMENT
  <2> QED BY <1>2, <1>7, <2>1, AddressParts, Zenon DEF TssAddress, a, b, c, d, e
<1>11. gdt \in Seq(GDTEntry) /\ gdt # <<>>
  <2> DEFINE n == 8
  <2>1. gdt \in [1 .. n -> GDTEntry] /\ n \in Nat /\ n # 0
    BY <1>7
  <2> HIDE DEF n
  <2>2. gdt \in Seq(GDTEntry) /\ Len(gdt) = n
    BY <2>1, SequenceOf, Zenon
  <2> QED BY <2>1, <2>2
<1> QED BY <1>8, <1>9, <1>10, <1>11 DEF LoadedRight, gdt, GDT_KERNEL_CODE_SEGMENT

FirmwarePhases == EarlyPhases \cup {"gdt"}
GatePhases == {"reclaim", "acpi"} \cup TablePhases
ExceptionHandlers == {"unimplemented exception", "page fault", "general protection fault"}

GateOK(g) == g \in IDTEntry /\ g.selector = GDT_KERNEL_CODE_SEGMENT /\ g.type_attr = 142
\* The gates that a table has; only the last step registers the keyboard's.
GatesOK(t, last) ==
    /\ GENERAL_PROTECTION_FAULT \in DOMAIN t /\ PAGE_FAULT \in DOMAIN t
    /\ \A v \in DOMAIN t : GateOK(t[v]) /\ (t[v].handler \in ExceptionHandlers \/ (last /\ v = KB_VECTOR))

GateInv ==
    /\ phase \in FirmwarePhases \cup {"idt"} => idt = FirmwareIdt
    /\ phase = "exceptions" => idt = <<>>
    /\ phase \in GatePhases => GatesOK(idt, phase = "idle")

StackOK == \A page \in tss.interrupt_stack_table - 2 .. tss.interrupt_stack_table - 1 :
               page \in DOMAIN kmap /\ kmap[page] # 0

SegmentInv ==
    /\ cpu = [segments |-> cpu.segments, star |-> cpu.star]
    /\ phase \in FirmwarePhases => cpu.segments = FirmwareSegments
    /\ phase \notin FirmwarePhases => cpu.segments = Loaded(WithTss(g_gdt, m.tss)) /\ StackOK
    /\ cpu.star = <<>> \/ cpu.star = Star
    /\ tss = [interrupt_stack_table |-> tss.interrupt_stack_table] /\ tss.interrupt_stack_table \in Nat

LEMMA SegmentsAre == m \in Machines /\ phase \in Phases /\ GateInv /\ SegmentInv => SegmentsExact
<1> SUFFICES ASSUME m \in Machines, phase \in Phases, GateInv, SegmentInv, cpu.segments.gdt # <<>>
             PROVE  SegmentsExact
  BY DEF SegmentsExact
<1> DEFINE gdt == WithTss(g_gdt, m.tss)
<1>1. LoadedRight(gdt, m.tss)
  BY MachineFacts, SegmentsLoaded
<1> HIDE DEF gdt
<1>2. phase \notin FirmwarePhases
  BY DEF SegmentInv, FirmwareSegments
<1>3. cpu.segments = Loaded(gdt) /\ StackOK
  BY <1>2 DEF SegmentInv, gdt
<1>4. cpu.segments.gdt = gdt /\ cpu.segments.tr = GDT_TSS_SEGMENT
  BY <1>3 DEF Loaded
<1>5. /\ AreSegments(gdt, cpu.segments, 0) /\ AreSegments(gdt, StartFrame, 3)
      /\ TssAddress(gdt, cpu.segments.tr) = m.tss
  BY <1>1, <1>3, <1>4, Zenon DEF LoadedRight
<1>6. cpu.star # <<>> => AreSegments(gdt, OnSyscall(cpu.star), 0) /\ AreSegments(gdt, OnSysret(cpu.star), 3)
  BY <1>1, Zenon DEF LoadedRight, SegmentInv
<1>7. ASSUME idt # FirmwareIdt, NEW v \in DOMAIN idt
      PROVE  /\ IsSegment(gdt, idt[v].selector, 1, 0)
             /\ Bit(idt[v].type_attr, 128) = 1 /\ (idt[v].type_attr \div 32) % 4 = 0
  <2>1. phase \in GatePhases
    <3>1. idt # <<>>
      BY <1>7
    <3> QED BY <1>2, <1>7, <3>1 DEF GateInv, Phases, GatePhases, FirmwarePhases
  <2>2. idt[v].selector = GDT_KERNEL_CODE_SEGMENT /\ idt[v].type_attr = 142
    BY <1>7, <2>1 DEF GateInv, GatesOK, GateOK
  <2>3. IsSegment(gdt, idt[v].selector, 1, 0)
    BY <1>1, <2>2, Zenon DEF LoadedRight
  <2>4. Bit(142, 128) = 1 /\ (142 \div 32) % 4 = 0
    BY DEF Bit
  <2> QED BY <2>2, <2>3, <2>4
<1> QED BY <1>3, <1>4, <1>5, <1>6, <1>7, Zenon DEF SegmentsExact, StackOK

LEMMA SegmentInit == Init => GateInv /\ SegmentInv
<1> SUFFICES ASSUME Init PROVE GateInv /\ SegmentInv
  OBVIOUS
<1>1. phase = "memory" /\ idt = FirmwareIdt /\ cpu = [segments |-> FirmwareSegments, star |-> <<>>] /\ tss = g_tss
  BY DEF Init
<1>2. GateInv
  BY <1>1 DEF GateInv, FirmwarePhases, EarlyPhases, GatePhases, TablePhases
<1>3. SegmentInv
  BY <1>1 DEF SegmentInv, FirmwarePhases, EarlyPhases, g_tss
<1> QED BY <1>2, <1>3

\* Which step changes which variable.
LEMMA SegmentFrame ==
    ASSUME [Next]_vars, phase \in Phases
    PROVE  /\ setup_gdt_and_tss \/ (tss' = tss /\ (phase' \in FirmwarePhases <=> phase \in FirmwarePhases))
           /\ setup_gdt_and_tss \/ prepare_syscalls \/ cpu' = cpu
           /\ \/ setup_idt \/ register_exception_interrupts \/ RegisterHandler
              \/ /\ idt' = idt /\ (phase' = "exceptions" <=> phase = "exceptions")
                 /\ phase' \in FirmwarePhases \cup {"idt"} <=> phase \in FirmwarePhases \cup {"idt"}
                 /\ phase' \in GatePhases <=> phase \in GatePhases
                 /\ phase' = "idle" <=> phase = "idle"
<1> USE DEF Phases, FirmwarePhases, GatePhases, EarlyPhases, TablePhases
<1>1. CASE Aside
  BY <1>1 DEF Aside, bootVars, segmentVars
<1>2. CASE initialize_memory \/ setup_idt \/ register_exception_interrupts
           \/ free_uefi_memory_and_remove_identity_mapping
  BY <1>2 DEF initialize_memory, setup_idt, register_exception_interrupts,
       free_uefi_memory_and_remove_identity_mapping, Step, segmentVars
<1>3. CASE initialize_acpi \/ StartEnumeration \/ EnumerationEnds \/ StartApic
  BY <1>3 DEF initialize_acpi, StartEnumeration, EnumerationEnds, StartApic, Step, bootVars, segmentVars
<1>4. CASE prepare_syscalls \/ WriteLower \/ WriteUpper \/ RegisterHandler
  BY <1>4 DEF prepare_syscalls, WriteLower, WriteUpper, RegisterHandler, Step, bootVars, segmentVars
<1>5. CASE remap_framebuffer \/ prepare_acpi_memory \/ setup_gdt_and_tss
  BY <1>5 DEF remap_framebuffer, prepare_acpi_memory, setup_gdt_and_tss, Step, bootVars, segmentVars
<1>6. CASE VisitFunction \/ ParseEntry \/ EnableLocalApic \/ MapController
  BY <1>6 DEF VisitFunction, ParseEntry, EnableLocalApic, MapController, Step, bootVars, segmentVars
<1> QED BY <1>1, <1>2, <1>3, <1>4, <1>5, <1>6, NextCases DEF Maps, Advances

LEMMA Names == /\ "unimplemented exception" \in Handlers /\ "page fault" \in Handlers
               /\ "general protection fault" \in Handlers /\ "kb_handler" \in Handlers
BY DEF Handlers

\* A table with one more gate.
OneMore(u, t, i, name) ==
    /\ DOMAIN u = {i} \cup DOMAIN t
    /\ GateOK(u[i]) /\ u[i].handler = name
    /\ \A v \in DOMAIN t : v # i => u[v] = t[v]
LEMMA GateSet ==
    ASSUME NEW t, NEW i, NEW name \in Handlers
    PROVE  OneMore(register_interrupt(t, i, INTERRUPT_GATE, FALSE, name), t, i, name)
BY DEF OneMore, register_interrupt, set_idt_gate, GateOK, IDTEntry, INTERRUPT_GATE, GDT_KERNEL_CODE_SEGMENT

LEMMA GateStep == phase \in Phases /\ GateInv /\ [Next]_vars => GateInv'
<1> SUFFICES ASSUME phase \in Phases, GateInv, [Next]_vars PROVE GateInv'
  OBVIOUS
<1>1. CASE setup_idt
  BY <1>1 DEF setup_idt, Step, GateInv, FirmwarePhases, EarlyPhases, GatePhases, TablePhases
<1>2. CASE register_exception_interrupts
  <2> DEFINE all == [v \in (0 .. 31) \cup DOMAIN idt |->
                      IF v \in 0 .. 31
                      THEN register_interrupt(idt, v, INTERRUPT_GATE, FALSE, "unimplemented exception")[v]
                      ELSE idt[v]]
             one == register_interrupt(all, PAGE_FAULT, INTERRUPT_GATE, FALSE, "page fault")
             two == register_interrupt(one, GENERAL_PROTECTION_FAULT, INTERRUPT_GATE, FALSE, "general protection fault")
  <2>1. idt' = two /\ phase = "exceptions" /\ phase' = "reclaim"
    BY <1>2, Zenon DEF register_exception_interrupts, Step
  <2>2. DOMAIN idt = {}
    <3>1. idt = <<>>
      BY <2>1 DEF GateInv
    <3> QED BY <3>1
  <2>3. DOMAIN all = 0 .. 31
    BY <2>2
  <2>4. ASSUME NEW v \in 0 .. 31 PROVE GateOK(all[v]) /\ all[v].handler = "unimplemented exception"
    <3>1. all[v] = register_interrupt(idt, v, INTERRUPT_GATE, FALSE, "unimplemented exception")[v]
      OBVIOUS
    <3>2. OneMore(register_interrupt(idt, v, INTERRUPT_GATE, FALSE, "unimplemented exception"), idt, v,
                  "unimplemented exception")
      BY Names, GateSet, Zenon
    <3> QED BY <3>1, <3>2, Zenon DEF OneMore
  <2> HIDE DEF all
  <2>5. /\ DOMAIN one = {PAGE_FAULT} \cup DOMAIN all
        /\ GateOK(one[PAGE_FAULT]) /\ one[PAGE_FAULT].handler = "page fault"
        /\ \A v \in DOMAIN all : v # PAGE_FAULT => one[v] = all[v]
    <3>1. OneMore(one, all, PAGE_FAULT, "page fault")
      BY Names, GateSet, Zenon
    <3> QED BY <3>1, Zenon DEF OneMore
  <2> HIDE DEF one
  <2>6. /\ DOMAIN two = {GENERAL_PROTECTION_FAULT} \cup DOMAIN one
        /\ GateOK(two[GENERAL_PROTECTION_FAULT])
        /\ two[GENERAL_PROTECTION_FAULT].handler = "general protection fault"
        /\ \A v \in DOMAIN one : v # GENERAL_PROTECTION_FAULT => two[v] = one[v]
    <3>1. OneMore(two, one, GENERAL_PROTECTION_FAULT, "general protection fault")
      BY Names, GateSet, Zenon
    <3> QED BY <3>1, Zenon DEF OneMore
  <2> HIDE DEF two
  <2>7. GatesOK(two, FALSE)
    BY <2>3, <2>4, <2>5, <2>6 DEF GatesOK, ExceptionHandlers
  <2>8. GatesOK(idt', phase' = "idle")
    BY <2>1, <2>7 DEF GatesOK
  <2> QED BY <2>1, <2>8 DEF GateInv, FirmwarePhases, EarlyPhases
<1>3. CASE RegisterHandler
  <2>1. /\ idt' = register_interrupt(idt, KB_VECTOR, INTERRUPT_GATE, FALSE, "kb_handler")
        /\ phase = "handler" /\ phase' = "idle"
    BY <1>3 DEF RegisterHandler, Step
  <2>2. GatesOK(idt, FALSE)
    BY <2>1 DEF GateInv, GatePhases, TablePhases, GatesOK
  <2>3. /\ DOMAIN idt' = {KB_VECTOR} \cup DOMAIN idt /\ GateOK(idt'[KB_VECTOR])
        /\ \A v \in DOMAIN idt : v # KB_VECTOR => idt'[v] = idt[v]
    <3>1. OneMore(idt', idt, KB_VECTOR, "kb_handler")
      BY <2>1, Names, GateSet, Zenon
    <3> QED BY <3>1, Zenon DEF OneMore
  <2>4. GatesOK(idt', TRUE)
    BY <2>2, <2>3 DEF GatesOK
  <2>5. GatesOK(idt', phase' = "idle")
    BY <2>1, <2>4 DEF GatesOK
  <2> QED BY <2>1, <2>5 DEF GateInv, FirmwarePhases, EarlyPhases
<1>4. CASE ~setup_idt /\ ~register_exception_interrupts /\ ~RegisterHandler
  <2>1. /\ idt' = idt /\ (phase' = "exceptions" <=> phase = "exceptions")
        /\ phase' \in FirmwarePhases \cup {"idt"} <=> phase \in FirmwarePhases \cup {"idt"}
        /\ phase' \in GatePhases <=> phase \in GatePhases
        /\ phase' = "idle" <=> phase = "idle"
    BY <1>4, SegmentFrame
  <2> QED BY <2>1, Zenon DEF GateInv, GatesOK
<1> QED BY <1>1, <1>2, <1>3, <1>4

LEMMA SegmentStep == CoreInv /\ SegmentInv /\ [Next]_vars => SegmentInv'
<1> SUFFICES ASSUME CoreInv, SegmentInv, [Next]_vars PROVE SegmentInv'
  OBVIOUS
<1>1. m' = m /\ m \in Machines /\ phase \in Phases /\ MapInv /\ MapInv' /\ KeptIn(kmap, kmap')
  BY MachineStays, MapStep DEF CoreInv
<1>2. CASE setup_gdt_and_tss
  <2> DEFINE r == MapPages(TssStack, 2)
             s == Loaded(WithTss(g_gdt, m.tss))
  <2>1. /\ kmap' = r.kmap /\ tss' = [tss EXCEPT !.interrupt_stack_table = r.virt + 2]
        /\ cpu' = [cpu EXCEPT !.segments = s] /\ phase' = "idt"
    BY <1>2 DEF setup_gdt_and_tss, Step, Mapped
  <2>2. r.virt \in Nat \ {0} /\ \A n \in 0 .. 2 - 1 : r.virt + n \in DOMAIN r.kmap /\ r.kmap[r.virt + n] = TssStack + n
    <3>1. TssStack \in Nat \ {0} /\ 2 \in Nat
      BY DEF TssStack
    <3> QED BY <1>1, <3>1, MapPagesOK
  <2> HIDE DEF r, s
  <2>3. tss' = [interrupt_stack_table |-> r.virt + 2]
    <3>1. tss = [interrupt_stack_table |-> tss.interrupt_stack_table]
      BY DEF SegmentInv
    <3> QED BY <2>1, <3>1
  <2>4. StackOK'
    <3>1. tss'.interrupt_stack_table = r.virt + 2
      BY <2>3
    <3> DEFINE t == r.virt
    <3>2. t \in Nat /\ \A n \in 0 .. 1 : t + n \in DOMAIN kmap' /\ kmap'[t + n] = 30 + n
      BY <2>1, <2>2 DEF TssStack
    <3> HIDE DEF t
    <3>3. \A page \in (t + 2) - 2 .. (t + 2) - 1 : page \in DOMAIN kmap' /\ kmap'[page] # 0
      <4> TAKE page \in (t + 2) - 2 .. (t + 2) - 1
      <4>1. page - t \in 0 .. 1 /\ t + (page - t) = page
        BY <3>2
      <4> QED BY <3>2, <4>1
    <3> QED BY <3>1, <3>3 DEF StackOK, t
  <2>5. cpu' = [segments |-> s, star |-> cpu.star]
    <3>1. cpu = [segments |-> cpu.segments, star |-> cpu.star]
      BY DEF SegmentInv
    <3> QED BY <2>1, <3>1
  <2>6. phase' \notin FirmwarePhases
    BY <2>1 DEF FirmwarePhases, EarlyPhases
  <2> QED BY <1>1, <2>2, <2>3, <2>4, <2>5, <2>6 DEF SegmentInv, s
<1>3. CASE ~setup_gdt_and_tss
  <2>1. tss' = tss /\ (phase' \in FirmwarePhases <=> phase \in FirmwarePhases)
    BY <1>1, <1>3, SegmentFrame
  <2>2. StackOK => StackOK'
    BY <1>1, <2>1 DEF StackOK, KeptIn
  <2>3. cpu'.segments = cpu.segments /\ (cpu'.star = cpu.star \/ cpu'.star = Star)
        /\ cpu' = [segments |-> cpu'.segments, star |-> cpu'.star]
    <3>1. cpu = [segments |-> cpu.segments, star |-> cpu.star]
      BY DEF SegmentInv
    <3>2. CASE prepare_syscalls
      BY <3>1, <3>2 DEF prepare_syscalls
    <3>3. CASE ~prepare_syscalls
      BY <1>1, <1>3, <3>1, <3>3, SegmentFrame
    <3> QED BY <3>2, <3>3
  <2> QED BY <1>1, <2>1, <2>2, <2>3 DEF SegmentInv
<1> QED BY <1>2, <1>3

\* On every machine, and wherever its TSS lies, the segments that the kernel
\* loads, names in its gates and leaves to syscall, sysretq and iretq are the
\* ones they are meant to be; the processor finds the TSS from the five parts
\* of its address; and nothing that is mapped later takes the stack away.
THEOREM SegmentsAlwaysExact == Spec => []SegmentsExact
<1> DEFINE Inv == CoreInv /\ GateInv /\ SegmentInv
<1>1. Init => Inv
  BY CoreInit, SegmentInit
<1>2. Inv /\ [Next]_vars => Inv'
  BY CoreNext, GateStep, SegmentStep DEF CoreInv
<1>3. Inv => SegmentsExact
  BY SegmentsAre DEF CoreInv
<1> HIDE DEF Inv
<1> QED BY <1>1, <1>2, <1>3, PTL DEF Spec

-----------------------------------------------------------------------------
(* The loops of enumerate_pci_devices.  A position stands for the pages    *)
(* of the ranges before its own and for those before its page in its own.  *)

PageOf(R, p) == R[p[1]].base + (p[2] * Devices + p[3]) * Functions + p[4]
\* The pages of the ranges before the i-th, and those before e of the i-th.
Reached(R, i, e) ==
    {x \in Nat : \E j \in 1 .. Len(R) : x \in RangePages(R[j]) /\ (j < i \/ (j = i /\ x < e))}

\* The device of a position is the q-th from bus 0 on; it ends where the next begins.
DeviceOf(p) == p[2] * Devices + p[3]
DeviceEnd(R, p) == R[p[1]].base + (DeviceOf(p) + 1) * Functions

\* The arithmetic of buses, devices and functions.
Counted(b, c, s, e) ==
    /\ b * Devices + c \in Nat /\ s * Devices \in Nat /\ e * Devices \in Nat
    /\ s * Devices <= b * Devices + c /\ b * Devices + c + 1 <= e * Devices
    /\ c + 1 = Devices => b * Devices + c + 1 = (b + 1) * Devices + 0
    /\ c + 1 = Devices /\ b + 1 = e => b * Devices + c + 1 = e * Devices
LEMMA Counting ==
    ASSUME NEW b \in Nat, NEW c \in Nat, NEW s \in Nat, NEW e \in Nat, s <= b, b < e, c < Devices
    PROVE  Counted(b, c, s, e)
<1> DEFINE D == Devices
<1>1. D \in Nat \ {0}
  BY Sizes
<1> HIDE DEF D
<1>2. s * D <= b * D
  BY <1>1, MulMonotone
<1>3. (b + 1) * D <= e * D
  <2>1. b + 1 \in Int /\ e \in Int /\ b + 1 <= e
    OBVIOUS
  <2> QED BY <1>1, <2>1, MulMonotone
<1>4. (b + 1) * D = b * D + D
  BY <1>1
<1>5. b * D \in Nat /\ s * D \in Nat /\ e * D \in Nat
  BY <1>1
<1> DEFINE B == b * D
           S == s * D
           E == e * D
           N == (b + 1) * D
<1>6. b + 1 = e => N = E
  OBVIOUS
<1> HIDE DEF B, S, E, N
<1>7. /\ B \in Nat /\ S \in Nat /\ E \in Nat /\ S <= B /\ N <= E /\ N = B + D /\ c + 1 <= D
  BY <1>1, <1>2, <1>3, <1>4, <1>5 DEF B, S, E, N, D
<1>8. /\ B + c \in Nat /\ S \in Nat /\ E \in Nat /\ S <= B + c /\ B + c + 1 <= E
      /\ c + 1 = D => B + c + 1 = N + 0
      /\ c + 1 = D /\ b + 1 = e => B + c + 1 = E
  BY <1>1, <1>6, <1>7
<1> QED BY <1>8 DEF Counted, B, S, E, N, D

\* The page of a position lies in its range, and in its device.
Placed(R, p) ==
    LET r == R[p[1]] x == PageOf(R, p)
    IN  /\ x \in Nat \ {0} /\ DeviceEnd(R, p) \in Nat
        /\ r.base + r.start * Devices * Functions <= x
        /\ x + 1 <= DeviceEnd(R, p) /\ DeviceEnd(R, p) <= r.base + r.end * Devices * Functions
        /\ p[4] + 1 = Functions => x + 1 = DeviceEnd(R, p)
        /\ r.base + r.end * Devices * Functions \in Nat
LEMMA PagePlaced ==
    ASSUME NEW R \in Seq(MCFGEntry), NEW p, PositionIn(R, p), p[1] <= Len(R)
    PROVE  Placed(R, p)
<1>1. p[1] \in 1 .. Len(R) /\ p[2] \in Nat /\ p[3] \in Nat /\ p[4] \in Nat /\ p[4] < Functions /\ p[3] < Devices
      /\ R[p[1]].start <= p[2] /\ p[2] < R[p[1]].end
  BY DEF PositionIn, Positions
<1> DEFINE a == R[p[1]].base
           s == R[p[1]].start
           e == R[p[1]].end
           F == Functions
           d == p[4]
<1>2. a \in Nat \ {0} /\ s \in Nat /\ e \in Nat /\ F \in Nat \ {0}
  BY <1>1, RangeTyped, Sizes
<1>3. Counted(p[2], p[3], s, e)
  BY <1>1, <1>2, Counting
<1> DEFINE q == p[2] * Devices + p[3]
           S == s * Devices
           E == e * Devices
<1>4. q \in Nat /\ S \in Nat /\ E \in Nat /\ S <= q /\ q + 1 <= E
  BY <1>3 DEF Counted
<1> HIDE DEF a, s, e, F, d, q, S, E
<1>5. S * F <= q * F /\ (q + 1) * F <= E * F
  <2>1. S \in Int /\ q \in Int /\ q + 1 \in Int /\ E \in Int /\ F \in Nat
    BY <1>2, <1>4
  <2> QED BY <1>4, <2>1, MulMonotone
<1>6. (q + 1) * F = q * F + F /\ q * F \in Nat /\ S * F \in Nat /\ E * F \in Nat
  BY <1>2, <1>4
<1> DEFINE qF == q * F
           nF == (q + 1) * F
           sF == S * F
           eF == E * F
<1> HIDE DEF qF, nF, sF, eF
<1>7. qF \in Nat /\ sF \in Nat /\ eF \in Nat /\ nF = qF + F /\ sF <= qF /\ nF <= eF
  BY <1>5, <1>6 DEF qF, nF, sF, eF
<1>8. d \in Nat /\ d < F
  BY <1>1 DEF d, F
<1>9. /\ a + qF + d \in Nat \ {0} /\ a + nF \in Nat /\ a + sF <= a + qF + d
      /\ (a + qF + d) + 1 <= a + nF /\ a + nF <= a + eF
      /\ d + 1 = F => (a + qF + d) + 1 = a + nF
      /\ a + eF \in Nat
  BY <1>2, <1>7, <1>8
<1>10. PageOf(R, p) = a + qF + d /\ DeviceEnd(R, p) = a + nF
  BY DEF PageOf, DeviceEnd, DeviceOf, a, qF, nF, d, q, F
<1>11. R[p[1]].base + R[p[1]].start * Devices * Functions = a + sF
       /\ R[p[1]].base + R[p[1]].end * Devices * Functions = a + eF
  BY DEF a, sF, eF, S, E, s, e, F
<1> QED BY <1>9, <1>10, <1>11, Zenon DEF Placed, d, F

LEMMA NoPages ==
    ASSUME NEW r, r.start \in Nat, r.end \in Nat, r.base \in Nat, r.start >= r.end
    PROVE  RangePages(r) = {}
<1> DEFINE S == r.start * Devices * Functions
           E == r.end * Devices * Functions
<1>1. Devices \in Nat /\ Functions \in Nat
  BY Sizes
<1>2. r.end * Devices <= r.start * Devices /\ r.end * Devices \in Nat /\ r.start * Devices \in Nat
  BY <1>1, MulMonotone
<1>3. E <= S /\ E \in Nat /\ S \in Nat
  <2> DEFINE s == r.start * Devices
             e == r.end * Devices
  <2>1. s \in Int /\ e \in Int /\ e <= s /\ s \in Nat /\ e \in Nat
    BY <1>2
  <2> HIDE DEF s, e
  <2>2. e * Functions <= s * Functions
    BY <1>1, <2>1, MulMonotone
  <2>3. e * Functions \in Nat /\ s * Functions \in Nat
    BY <1>1, <2>1
  <2> QED BY <2>2, <2>3 DEF s, e
<1> HIDE DEF S, E
<1>4. RangePages(r) = r.base + S .. r.base + E - 1
  BY DEF RangePages, S, E
<1> QED BY <1>3, <1>4

LEMMA RangeIs ==
    ASSUME NEW r, NEW u, NEW v, r.base \in Nat, r.end \in Nat,
           u = r.base + r.start * Devices * Functions, v = r.base + r.end * Devices * Functions
    PROVE  RangePages(r) = u .. v - 1
<1> DEFINE E == r.end * Devices * Functions
<1>1. E \in Nat
  <2>1. r.end * Devices \in Nat
    BY Sizes
  <2> QED BY <2>1, Sizes
<1>2. RangePages(r) = u .. r.base + (E - 1)
  BY DEF RangePages
<1> HIDE DEF E
<1>3. v = r.base + E
  BY DEF E
<1>4. r.base + (E - 1) = v - 1
  BY <1>1, <1>3
<1> QED BY <1>2, <1>4

\* No page of a range lies before the page of its first function.
LEMMA FirstPage ==
    ASSUME NEW R, NEW p, R[p[1]].start \in Nat, R[p[1]].base \in Nat \ {0}, R[p[1]].end \in Nat,
           p = <<p[1], R[p[1]].start, 0, 0>>
    PROVE  PageOf(R, p) \in Nat /\ \A y \in RangePages(R[p[1]]) : ~(y < PageOf(R, p))
<1> DEFINE t == p[1]
           x1 == PageOf(R, p)
<1>1. Devices \in Nat \ {0} /\ Functions \in Nat \ {0}
  BY Sizes
<1>2. p[2] = R[t].start /\ p[3] = 0 /\ p[4] = 0
  OBVIOUS
<1>3. x1 = R[t].base + (R[t].start * Devices + 0) * Functions + 0
  BY <1>2, Zenon DEF PageOf
<1> HIDE DEF t, x1
<1>4. x1 = R[t].base + R[t].start * Devices * Functions /\ x1 \in Nat
  <2> DEFINE S == R[t].start * Devices
  <2>1. S \in Nat /\ R[t].base \in Nat
    BY <1>1 DEF t
  <2>2. S + 0 = S
    BY <2>1
  <2> HIDE DEF S
  <2>3. S * Functions \in Nat
    BY <1>1, <2>1
  <2>4. x1 = R[t].base + S * Functions + 0
    BY <1>3, <2>2 DEF S
  <2> DEFINE T == S * Functions
  <2> HIDE DEF T
  <2>5. x1 = R[t].base + T /\ x1 \in Nat
    BY <2>1, <2>3, <2>4 DEF T
  <2> QED BY <2>5 DEF T, S
<1> DEFINE v == R[t].base + R[t].end * Devices * Functions
<1>5. RangePages(R[t]) = x1 .. v - 1
  <2>1. R[t].base \in Nat /\ R[t].end \in Nat
    BY DEF t
  <2> QED BY <1>4, <2>1, RangeIs
<1> HIDE DEF v
<1>6. \A y \in RangePages(R[t]) : ~(y < x1)
  BY <1>4, <1>5
<1> QED BY <1>4, <1>6 DEF t, x1

\* What is reached where a device ends: nothing of the next is.
LEMMA DevicePassed ==
    ASSUME NEW R \in Seq(MCFGEntry), Ranges = R, PositionIn(R, at), at[1] <= Len(R)
    PROVE  Reached(R, NextDevice[1], PageOf(R, NextDevice)) = Reached(R, at[1], DeviceEnd(R, at))
<1>1. at[1] \in 1 .. Len(R) /\ at[2] \in Nat /\ at[3] \in Nat /\ at[4] \in Nat /\ at[4] < Functions /\ at[3] < Devices
      /\ R[at[1]].start <= at[2] /\ at[2] < R[at[1]].end
  BY DEF PositionIn, Positions
<1>2. Len(R) \in Nat /\ \A j \in 1 .. Len(R) : R[j].start \in Nat /\ R[j].end \in Nat /\ R[j].base \in Nat \ {0}
  BY RangeTyped
<1> DEFINE a == R[at[1]].base
           s == R[at[1]].start
           e == R[at[1]].end
<1>3. a \in Nat \ {0} /\ s \in Nat /\ e \in Nat /\ Functions \in Nat \ {0} /\ Devices \in Nat \ {0}
  BY <1>1, <1>2, Sizes
<1>4. Counted(at[2], at[3], s, e)
  BY <1>1, <1>3, Counting
<1>5. CASE at[3] + 1 < Devices
  <2>1. NextDevice = <<at[1], at[2], at[3] + 1, 0>>
    BY <1>5 DEF NextDevice
  <2>2. PageOf(R, NextDevice) = a + (at[2] * Devices + (at[3] + 1)) * Functions + 0 /\ NextDevice[1] = at[1]
    BY <2>1 DEF PageOf
  <2>3. at[2] * Devices + (at[3] + 1) = DeviceOf(at) + 1
    <3> DEFINE B == at[2] * Devices
    <3>1. B \in Nat
      BY <1>1, <1>3
    <3> HIDE DEF B
    <3>2. B + (at[3] + 1) = B + at[3] + 1
      BY <1>1, <3>1
    <3> QED BY <3>2 DEF B, DeviceOf
  <2>4. DeviceEnd(R, at) \in Nat
    BY PagePlaced DEF Placed
  <2>5. PageOf(R, NextDevice) = DeviceEnd(R, at)
    <3> DEFINE E == DeviceEnd(R, at)
    <3>1. PageOf(R, NextDevice) = E + 0
      BY <2>2, <2>3, Zenon DEF DeviceEnd
    <3>2. E + 0 = E
      <4> HIDE DEF E
      <4>1. E \in Nat
        BY <2>4 DEF E
      <4> QED BY <4>1
    <3> QED BY <3>1, <3>2
  <2> QED BY <2>2, <2>5
<1>6. CASE ~(at[3] + 1 < Devices) /\ at[2] + 1 < e
  <2>1. NextDevice = <<at[1], at[2] + 1, 0, 0>>
    BY <1>6 DEF NextDevice
  <2>2. PageOf(R, NextDevice) = a + ((at[2] + 1) * Devices + 0) * Functions + 0 /\ NextDevice[1] = at[1]
    BY <2>1 DEF PageOf
  <2>3. (at[2] + 1) * Devices + 0 = DeviceOf(at) + 1
    <3>1. at[3] + 1 = Devices
      BY <1>1, <1>3, <1>6
    <3> QED BY <1>4, <3>1, Zenon DEF Counted, DeviceOf
  <2>4. DeviceEnd(R, at) \in Nat
    BY PagePlaced DEF Placed
  <2>5. PageOf(R, NextDevice) = DeviceEnd(R, at)
    <3> DEFINE E == DeviceEnd(R, at)
    <3>1. PageOf(R, NextDevice) = E + 0
      BY <2>2, <2>3, Zenon DEF DeviceEnd
    <3>2. E + 0 = E
      <4> HIDE DEF E
      <4>1. E \in Nat
        BY <2>4 DEF E
      <4> QED BY <4>1
    <3> QED BY <3>1, <3>2
  <2> QED BY <2>2, <2>5
<1>7. CASE ~(at[3] + 1 < Devices) /\ ~(at[2] + 1 < e)
  <2> DEFINE p == NextDevice
             i == at[1]
             x1 == PageOf(R, p)
             z == DeviceEnd(R, at)
  <2>1. p = FirstFunction(i + 1) /\ i + 1 \in 1 .. Len(R) + 1
    BY <1>1, <1>2, <1>7 DEF NextDevice
  <2>2. /\ PositionIn(R, p) /\ p[1] >= i + 1
        /\ \A j \in i + 1 .. Len(R) : j < p[1] => R[j].start >= R[j].end
        /\ p[1] <= Len(R) => p = <<p[1], R[p[1]].start, 0, 0>>
    BY <2>1, FirstFunctionIs
  <2>3. p[1] \in 1 .. Len(R) + 1
    BY <2>2 DEF PositionIn
  <2>4. z = a + e * Devices * Functions
    <3>1. at[3] + 1 = Devices /\ at[2] + 1 = e
      <4>1. at[2] < e /\ e \in Nat /\ ~(at[2] + 1 < e)
        BY <1>1, <1>3, <1>7
      <4>2. at[2] \in Nat /\ at[3] \in Nat /\ Devices \in Nat /\ at[3] < Devices /\ ~(at[3] + 1 < Devices)
        BY <1>1, <1>3, <1>7
      <4> HIDE DEF e
      <4> QED BY <4>1, <4>2
    <3>2. DeviceOf(at) + 1 = e * Devices
      BY <1>4, <3>1, Zenon DEF Counted, DeviceOf
    <3> QED BY <3>2, Zenon DEF DeviceEnd
  <2>5. z \in Nat
    BY PagePlaced DEF Placed
  <2>6. ASSUME NEW j \in i + 1 .. Len(R), j < p[1] PROVE RangePages(R[j]) = {}
    <3>1. R[j].start >= R[j].end /\ R[j].start \in Nat /\ R[j].end \in Nat /\ R[j].base \in Nat
      BY <1>1, <1>2, <2>2, <2>6
    <3> QED BY <1>3, <3>1, NoPages
  <2>7. ASSUME p[1] <= Len(R) PROVE \A y \in RangePages(R[p[1]]) : ~(y < x1)
    BY <1>2, <2>2, <2>3, <2>7, FirstPage
  <2>8. \A y \in RangePages(R[i]) : y < z
    <3> HIDE DEF z, i
    <3> DEFINE u == R[i].base + R[i].start * Devices * Functions
               v == R[i].base + R[i].end * Devices * Functions
    <3>1. RangePages(R[i]) = u .. v - 1
      <4>1. R[i].base \in Nat /\ R[i].end \in Nat
        BY <1>3 DEF i
      <4> QED BY <4>1, RangeIs
    <3>2. z = v
      BY <2>4 DEF i
    <3> HIDE DEF u, v
    <3> QED BY <2>5, <3>1, <3>2
  <2>9. i \in 1 .. Len(R) /\ p[1] \in Nat /\ i \in Nat
    BY <1>1, <1>2, <2>3
  <2> HIDE DEF p, i, z, x1
  <2>10. ASSUME NEW x \in Nat, NEW j \in 1 .. Len(R), x \in RangePages(R[j])
         PROVE  (j < p[1] \/ (j = p[1] /\ x < x1)) <=> (j < i \/ (j = i /\ x < z))
    <3>1. j = i => x < z
      BY <2>8, <2>10
    <3>2. j > i => j >= p[1]
      <4> SUFFICES ASSUME j > i, j < p[1] PROVE FALSE
        BY <2>9
      <4>1. j \in i + 1 .. Len(R)
        BY <2>9
      <4> QED BY <2>6, <2>10, <4>1
    <3>3. j = p[1] => ~(x < x1)
      <4> SUFFICES ASSUME j = p[1], x < x1 PROVE FALSE
        OBVIOUS
      <4>1. p[1] <= Len(R)
        BY <1>2
      <4> QED BY <2>7, <2>10, <4>1
    <3> QED BY <2>2, <2>9, <3>1, <3>2, <3>3
  <2>11. Reached(R, p[1], x1) = Reached(R, i, z)
    BY <2>10 DEF Reached
  <2> QED BY <2>11 DEF p, i, x1, z
<1> QED BY <1>5, <1>6, <1>7

\* What is reached where the next function begins.
LEMMA FunctionPassed ==
    ASSUME NEW R \in Seq(MCFGEntry), Ranges = R, PositionIn(R, at), at[1] <= Len(R)
    PROVE  Reached(R, NextFunction[1], PageOf(R, NextFunction)) = Reached(R, at[1], PageOf(R, at) + 1)
<1>1. at \in Positions /\ at[4] \in Nat /\ at[4] < Functions
  BY DEF PositionIn, Positions
<1>2. Placed(R, at)
  BY PagePlaced
<1>3. CASE at[4] + 1 < Functions
  <2>1. NextFunction = [at EXCEPT ![4] = @ + 1]
    BY <1>3 DEF NextFunction
  <2>2. NextFunction[1] = at[1] /\ NextFunction[2] = at[2] /\ NextFunction[3] = at[3] /\ NextFunction[4] = at[4] + 1
    BY <1>1, <2>1 DEF Positions
  <2> DEFINE b == R[at[1]].base + (at[2] * Devices + at[3]) * Functions
  <2>3. PageOf(R, NextFunction) = b + (at[4] + 1) /\ PageOf(R, at) = b + at[4]
    BY <2>2, Zenon DEF PageOf
  <2>4. b \in Int
    <3>1. R[at[1]].base \in Nat /\ at[2] \in Nat /\ at[3] \in Nat
      BY RangeTyped DEF PositionIn, Positions
    <3>2. at[2] * Devices + at[3] \in Nat
      BY <3>1, Sizes
    <3> DEFINE q == at[2] * Devices + at[3]
    <3> HIDE DEF q
    <3>3. q * Functions \in Nat
      BY <3>2, Sizes DEF q
    <3>4. R[at[1]].base + q * Functions \in Int
      BY <3>1, <3>3
    <3> QED BY <3>4 DEF q
  <2> HIDE DEF b
  <2>5. PageOf(R, NextFunction) = PageOf(R, at) + 1
    BY <1>1, <2>3, <2>4
  <2> QED BY <2>2, <2>5
<1>4. CASE ~(at[4] + 1 < Functions)
  <2>1. at[4] + 1 = Functions
    BY <1>1, <1>4, Sizes
  <2>2. PageOf(R, at) + 1 = DeviceEnd(R, at)
    BY <1>2, <2>1 DEF Placed
  <2>3. NextFunction = NextDevice
    BY <1>4 DEF NextFunction
  <2> QED BY <2>2, <2>3, DevicePassed
<1> QED BY <1>3, <1>4

\* The ranges of a machine, and the function that a page is.
RangesApart(R) ==
    /\ \A i \in 1 .. Len(R) : R[i].base % Functions = 0
    /\ \A i, j \in 1 .. Len(R) : i # j => RangePages(R[i]) \cap RangePages(R[j]) = {}
LEMMA RangesOK ==
    ASSUME m \in Machines, AcpiInv, TableInv, phase \in TablePhases, Found("MCFG")
    PROVE  RangesApart(TheRanges)
<1>1. /\ TheRanges \in Seq(MCFGEntry) /\ FoundPage("MCFG") \in DOMAIN m.tables
      /\ m.tables[FoundPage("MCFG")].signature = "MCFG"
  BY RangesTyped
<1>2. TheRanges = m.tables[FoundPage("MCFG")].ranges
  BY DEF TheRanges, TheTable
<1>3. FunctionsOK(m)
  BY MachineFacts
<1>4. DOMAIN TheRanges = 1 .. Len(TheRanges)
  BY <1>1
<1> QED BY <1>1, <1>2, <1>3, <1>4, Zenon DEF FunctionsOK, RangesApart

LEMMA FunctionNumber ==
    ASSUME NEW R \in Seq(MCFGEntry), RangesApart(R), NEW p, PositionIn(R, p), p[1] <= Len(R)
    PROVE  PageOf(R, p) % Functions = p[4]
<1>1. p[1] \in 1 .. Len(R) /\ p[2] \in Nat /\ p[3] \in Nat /\ p[4] \in Nat /\ p[4] < Functions
  BY DEF PositionIn, Positions
<1> DEFINE a == R[p[1]].base
           F == Functions
           q == p[2] * Devices + p[3]
           k == a \div F
           d == p[4]
<1>2. a \in Nat /\ F \in Nat \ {0} /\ a % F = 0 /\ q \in Nat /\ d \in 0 .. F - 1
  <2>1. a \in Nat /\ F \in Nat \ {0} /\ Devices \in Nat
    BY <1>1, RangeTyped, Sizes
  <2>2. a % F = 0
    BY <1>1, Zenon DEF RangesApart
  <2>3. q \in Nat
    <3> HIDE DEF a, F, d
    <3>1. p[2] * Devices \in Nat
      BY <1>1, Sizes
    <3> QED BY <1>1, <3>1
  <2>4. d \in 0 .. F - 1
    BY <1>1, <2>1
  <2> QED BY <2>1, <2>2, <2>3, <2>4
<1>3. PageOf(R, p) = a + q * F + d
  BY DEF PageOf
<1> HIDE DEF a, F, q, d
<1>4. k \in Nat /\ a = k * F
  BY <1>2, AlignedMultiple
<1> HIDE DEF k
<1>5. k * F + q * F = (k + q) * F
  BY <1>2, <1>4
<1>6. ((k + q) * F + d) % F = d
  <2>1. k + q \in Nat
    BY <1>2, <1>4
  <2> QED BY <1>2, <2>1, DivIs
<1>7. PageOf(R, p) = (k + q) * F + d
  BY <1>3, <1>4, <1>5, Zenon
<1> QED BY <1>6, <1>7 DEF F, d

\* The pages up to the end of a position's device belong to that device.
LEMMA SameDevice ==
    ASSUME NEW R \in Seq(MCFGEntry), RangesApart(R), NEW p, PositionIn(R, p), p[1] <= Len(R),
           NEW y \in Nat, PageOf(R, p) <= y, y < DeviceEnd(R, p)
    PROVE  y \div Functions = PageOf(R, p) \div Functions
<1>1. p[1] \in 1 .. Len(R) /\ p[2] \in Nat /\ p[3] \in Nat /\ p[4] \in Nat /\ p[4] < Functions
  BY DEF PositionIn, Positions
<1> DEFINE a == R[p[1]].base
           F == Functions
           q == p[2] * Devices + p[3]
           k == a \div F
           d == p[4]
<1>2. a \in Nat /\ F \in Nat \ {0} /\ a % F = 0 /\ q \in Nat /\ d \in 0 .. F - 1
  <2>1. a \in Nat /\ F \in Nat \ {0} /\ Devices \in Nat
    BY <1>1, RangeTyped, Sizes
  <2>2. a % F = 0
    BY <1>1, Zenon DEF RangesApart
  <2>3. q \in Nat
    <3> HIDE DEF a, F, d
    <3>1. p[2] * Devices \in Nat
      BY <1>1, Sizes
    <3> QED BY <1>1, <3>1
  <2>4. d \in 0 .. F - 1
    BY <1>1, <2>1
  <2> QED BY <2>1, <2>2, <2>3, <2>4
<1>3. PageOf(R, p) = a + q * F + d /\ DeviceEnd(R, p) = a + (q + 1) * F
  BY DEF PageOf, DeviceEnd, DeviceOf
<1> HIDE DEF a, F, q, d
<1>4. k \in Nat /\ a = k * F
  BY <1>2, AlignedMultiple
<1> HIDE DEF k
<1> DEFINE t == k + q
           b == t * F
<1>5. b = k * F + q * F /\ (q + 1) * F = q * F + F /\ t \in Nat /\ b \in Nat
  BY <1>2, <1>4
<1> DEFINE qF == q * F
           nF == (q + 1) * F
<1>6. b = a + qF /\ nF = qF + F /\ b \in Nat /\ qF \in Nat
  BY <1>2, <1>4, <1>5
<1>7. PageOf(R, p) = a + qF + d /\ DeviceEnd(R, p) = a + nF
  BY <1>3
<1> HIDE DEF b, qF, nF
<1>8. PageOf(R, p) = b + d /\ y - b \in 0 .. F - 1 /\ y = b + (y - b)
  BY <1>2, <1>6, <1>7
<1> HIDE DEF t
<1> DEFINE c == y - b
<1>9. c \in 0 .. F - 1 /\ y = b + c
  BY <1>8
<1> HIDE DEF c
<1>10. (t * F + c) \div F = t /\ (t * F + d) \div F = t
  BY <1>2, <1>5, <1>9, DivIs
<1> QED BY <1>8, <1>9, <1>10 DEF b, F

\* What is reached grows.
LEMMA ReachedMore ==
    ASSUME NEW R, NEW i, NEW x \in Nat, NEW z \in Nat, x <= z
    PROVE  Reached(R, i, x) \subseteq Reached(R, i, z)
<1> SUFFICES ASSUME NEW y \in Reached(R, i, x) PROVE y \in Reached(R, i, z)
  OBVIOUS
<1>1. y \in Nat
  BY DEF Reached
<1>2. PICK j \in 1 .. Len(R) : y \in RangePages(R[j]) /\ (j < i \/ (j = i /\ y < x))
  BY DEF Reached
<1>3. y < x => y < z
  BY <1>1
<1> QED BY <1>1, <1>2, <1>3 DEF Reached

\* One page more is reached, which was not yet.
LEMMA PageReached ==
    ASSUME NEW R \in Seq(MCFGEntry), RangesApart(R), NEW i \in 1 .. Len(R), NEW x \in Nat, x \in RangePages(R[i])
    PROVE  /\ Reached(R, i, x + 1) = Reached(R, i, x) \cup {x}
           /\ x \notin Reached(R, i, x)
<1>1. \A j \in 1 .. Len(R) : x \in RangePages(R[j]) => j = i
  BY DEF RangesApart
<1>2. x \notin Reached(R, i, x)
  BY <1>1 DEF Reached
<1>3. ASSUME NEW y \in Reached(R, i, x + 1) PROVE y \in Reached(R, i, x) \cup {x}
  <2>1. y \in Nat
    BY <1>3 DEF Reached
  <2>2. PICK j \in 1 .. Len(R) : y \in RangePages(R[j]) /\ (j < i \/ (j = i /\ y < x + 1))
    BY <1>3 DEF Reached
  <2>3. j < i \/ (j = i /\ y < x) \/ y = x
    BY <2>1, <2>2
  <2> QED BY <2>1, <2>2, <2>3 DEF Reached
<1>4. ASSUME NEW y \in Reached(R, i, x) \cup {x} PROVE y \in Reached(R, i, x + 1)
  <2>1. CASE y = x
    <3>1. x < x + 1
      OBVIOUS
    <3> QED BY <2>1, <3>1 DEF Reached
  <2>2. CASE y \in Reached(R, i, x)
    <3>1. x + 1 \in Nat /\ x <= x + 1
      OBVIOUS
    <3> QED BY <2>2, <3>1, ReachedMore
  <2> QED BY <1>4, <2>1, <2>2
<1> QED BY <1>2, <1>3, <1>4

-----------------------------------------------------------------------------
(* The list of devices, against the pages that are reached.                *)

Known(l, k, P) ==
    /\ l \in Seq(PCIDeviceEntry)
    /\ \A i \in 1 .. Len(l) : /\ l[i].config_space \in DOMAIN k /\ k[l[i].config_space] # 0
                              /\ k[l[i].config_space] \in P /\ k[l[i].config_space] \in DOMAIN m.functions
                              /\ m.functions[k[l[i].config_space]].class = l[i].class
    /\ \A i, j \in 1 .. Len(l) : k[l[i].config_space] = k[l[j].config_space] => i = j
    /\ \A x \in P : x \in DOMAIN m.functions /\ ~Hidden(x) => \E i \in 1 .. Len(l) : k[l[i].config_space] = x

LEMMA KnownKept ==
    ASSUME NEW l, NEW j, NEW k, NEW P, Known(l, j, P), KeptIn(j, k)
    PROVE  Known(l, k, P)
<1>1. \A i \in 1 .. Len(l) : l[i].config_space \in DOMAIN k /\ k[l[i].config_space] = j[l[i].config_space]
  BY DEF Known, KeptIn
<1>2. \A i \in 1 .. Len(l) : /\ l[i].config_space \in DOMAIN k /\ k[l[i].config_space] # 0
                            /\ k[l[i].config_space] \in P /\ k[l[i].config_space] \in DOMAIN m.functions
                            /\ m.functions[k[l[i].config_space]].class = l[i].class
  <2> TAKE i \in 1 .. Len(l)
  <2>1. k[l[i].config_space] = j[l[i].config_space] /\ l[i].config_space \in DOMAIN k
    BY <1>1
  <2>2. /\ j[l[i].config_space] # 0 /\ j[l[i].config_space] \in P /\ j[l[i].config_space] \in DOMAIN m.functions
        /\ m.functions[j[l[i].config_space]].class = l[i].class
    BY Zenon DEF Known
  <2> QED BY <2>1, <2>2, Zenon
<1>3. \A i, h \in 1 .. Len(l) : k[l[i].config_space] = k[l[h].config_space] => i = h
  <2> TAKE i, h \in 1 .. Len(l)
  <2>1. k[l[i].config_space] = j[l[i].config_space] /\ k[l[h].config_space] = j[l[h].config_space]
    BY <1>1
  <2>2. j[l[i].config_space] = j[l[h].config_space] => i = h
    BY Zenon DEF Known
  <2> QED BY <2>1, <2>2, Zenon
<1>4. \A x \in P : x \in DOMAIN m.functions /\ ~Hidden(x) => \E i \in 1 .. Len(l) : k[l[i].config_space] = x
  <2> SUFFICES ASSUME NEW x \in P, x \in DOMAIN m.functions, ~Hidden(x)
               PROVE  \E i \in 1 .. Len(l) : k[l[i].config_space] = x
    OBVIOUS
  <2>1. PICK i \in 1 .. Len(l) : j[l[i].config_space] = x
    BY Zenon DEF Known
  <2> QED BY <1>1, <2>1
<1>5. l \in Seq(PCIDeviceEntry)
  BY DEF Known
<1> QED BY <1>2, <1>3, <1>4, <1>5, Zenon DEF Known

LEMMA KnownOver ==
    ASSUME NEW l, NEW k, NEW P, NEW Q, Known(l, k, P), P \subseteq Q,
           \A x \in Q : x \in DOMAIN m.functions /\ ~Hidden(x) => x \in P
    PROVE  Known(l, k, Q)
BY Zenon DEF Known

LEMMA KnownMore ==
    ASSUME NEW l, NEW k, NEW P, Known(l, k, P), NEW d \in PCIDeviceEntry, NEW x,
           d.config_space \in DOMAIN k, k[d.config_space] = x, x # 0, x \notin P, x \in DOMAIN m.functions,
           m.functions[x].class = d.class
    PROVE  Known(<<d>> \o l, k, P \cup {x})
<1> DEFINE n == <<d>> \o l
<1>1. l \in Seq(PCIDeviceEntry)
  BY DEF Known
<1>2. n \in Seq(PCIDeviceEntry) /\ Len(n) = Len(l) + 1 /\ n[1] = d /\ \A i \in 1 .. Len(l) : n[i + 1] = l[i]
  <2> DEFINE S == PCIDeviceEntry
  <2>1. d \in S /\ l \in Seq(S)
    BY <1>1
  <2> HIDE DEF S
  <2>2. n \in Seq(S) /\ Len(n) = Len(l) + 1 /\ n[1] = d /\ \A i \in 1 .. Len(l) : n[i + 1] = l[i]
    BY <2>1
  <2> QED BY <2>2 DEF S
<1>3. Len(l) \in Nat
  BY <1>1
<1> HIDE DEF n
<1>4. \A i \in 1 .. Len(n) : i = 1 \/ (i - 1 \in 1 .. Len(l) /\ n[i] = l[i - 1])
  BY <1>2, <1>3
<1>5. ASSUME NEW i \in 1 .. Len(n)
      PROVE  /\ n[i].config_space \in DOMAIN k /\ k[n[i].config_space] # 0
             /\ k[n[i].config_space] \in P \cup {x} /\ k[n[i].config_space] \in DOMAIN m.functions
             /\ m.functions[k[n[i].config_space]].class = n[i].class
  <2>1. CASE i = 1
    BY <1>2, <2>1
  <2>2. CASE i # 1
    <3>1. i - 1 \in 1 .. Len(l) /\ n[i] = l[i - 1]
      BY <1>4, <2>2
    <3> DEFINE j == i - 1
    <3> HIDE DEF j
    <3>2. j \in 1 .. Len(l) /\ n[i] = l[j]
      BY <3>1 DEF j
    <3>3. /\ l[j].config_space \in DOMAIN k /\ k[l[j].config_space] # 0
          /\ k[l[j].config_space] \in P /\ k[l[j].config_space] \in DOMAIN m.functions
          /\ m.functions[k[l[j].config_space]].class = l[j].class
      BY <3>2, Zenon DEF Known
    <3> QED BY <3>2, <3>3
  <2> QED BY <2>1, <2>2
<1>6. ASSUME NEW i \in 1 .. Len(n), NEW j \in 1 .. Len(n), k[n[i].config_space] = k[n[j].config_space]
      PROVE  i = j
  <2>1. CASE i = 1 /\ j = 1
    BY <2>1
  <2>2. CASE i = 1 /\ j # 1
    <3> DEFINE h == j - 1
    <3> HIDE DEF h
    <3>0. h \in 1 .. Len(l) /\ n[j] = l[h]
      BY <1>4, <2>2 DEF h
    <3>3. k[l[h].config_space] \in P
      BY <3>0, Zenon DEF Known
    <3>1. k[n[i].config_space] = x /\ k[n[j].config_space] \in P
      BY <1>2, <3>0, <3>3, <2>2
    <3> QED BY <1>6, <3>1
  <2>3. CASE i # 1 /\ j = 1
    <3> DEFINE h == i - 1
    <3> HIDE DEF h
    <3>0. h \in 1 .. Len(l) /\ n[i] = l[h]
      BY <1>4, <2>3 DEF h
    <3>3. k[l[h].config_space] \in P
      BY <3>0, Zenon DEF Known
    <3>1. k[n[j].config_space] = x /\ k[n[i].config_space] \in P
      BY <1>2, <3>0, <3>3, <2>3
    <3> QED BY <1>6, <3>1
  <2>4. CASE i # 1 /\ j # 1
    <3>1. i - 1 \in 1 .. Len(l) /\ j - 1 \in 1 .. Len(l) /\ n[i] = l[i - 1] /\ n[j] = l[j - 1]
      BY <1>4, <2>4
    <3>2. i - 1 = j - 1
      <4> DEFINE u == i - 1
                 v == j - 1
      <4> HIDE DEF u, v
      <4>1. u \in 1 .. Len(l) /\ v \in 1 .. Len(l) /\ n[i] = l[u] /\ n[j] = l[v]
        BY <3>1 DEF u, v
      <4>2. k[l[u].config_space] = k[l[v].config_space]
        BY <1>6, <4>1, Zenon
      <4>3. u = v
        BY <4>1, <4>2, Zenon DEF Known
      <4> QED BY <4>3 DEF u, v
    <3> QED BY <3>2
  <2> QED BY <2>1, <2>2, <2>3, <2>4
<1>7. ASSUME NEW y \in P \cup {x}, y \in DOMAIN m.functions, ~Hidden(y)
      PROVE  \E i \in 1 .. Len(n) : k[n[i].config_space] = y
  <2>1. CASE y = x
    <3>1. 1 \in 1 .. Len(n) /\ k[n[1].config_space] = y
      BY <1>2, <1>3, <2>1
    <3> QED BY <3>1
  <2>2. CASE y \in P
    <3>1. PICK i \in 1 .. Len(l) : k[l[i].config_space] = y
      BY <1>7, <2>2 DEF Known
    <3>2. i + 1 \in 1 .. Len(n) /\ n[i + 1] = l[i]
      BY <1>2, <1>3
    <3> QED BY <3>1, <3>2
  <2> QED BY <1>7, <2>1, <2>2
<1>8. Known(n, k, P \cup {x})
  BY <1>2, <1>5, <1>6, <1>7, Zenon DEF Known
<1> QED BY <1>8 DEF n

ListedPhases == FunctionPhases \ {"functions"}
ListInv ==
    /\ phase \notin FunctionPhases => g_pci_device_list = <<>>
    /\ phase = "functions" => Known(g_pci_device_list, kmap, Reached(TheRanges, at[1], PageOf(TheRanges, at)))
    /\ phase \in ListedPhases => Known(g_pci_device_list, kmap, Reached(TheRanges, Len(TheRanges) + 1, 0))

\* Which step changes which variable.
LEMMA ListFrame ==
    ASSUME [Next]_vars, phase \in Phases
    PROVE  /\ VisitFunction \/ g_pci_device_list' = g_pci_device_list
           /\ phase' \notin FunctionPhases => phase \notin FunctionPhases
           /\ phase' \in ListedPhases => EnumerationEnds \/ phase \in ListedPhases
<1> USE DEF Phases, EarlyPhases, TablePhases, FunctionPhases, ListedPhases
<1>1. CASE Aside
  BY <1>1 DEF Aside, pciVars
<1>2. CASE initialize_memory \/ setup_idt \/ register_exception_interrupts
           \/ free_uefi_memory_and_remove_identity_mapping
  BY <1>2 DEF initialize_memory, setup_idt, register_exception_interrupts,
       free_uefi_memory_and_remove_identity_mapping, Step, pciVars
<1>3. CASE initialize_acpi \/ StartEnumeration \/ EnumerationEnds \/ StartApic
  BY <1>3 DEF initialize_acpi, StartEnumeration, EnumerationEnds, StartApic, Step, pciVars
<1>4. CASE prepare_syscalls \/ WriteLower \/ WriteUpper \/ RegisterHandler
  BY <1>4 DEF prepare_syscalls, WriteLower, WriteUpper, RegisterHandler, Step, pciVars
<1>5. CASE remap_framebuffer \/ prepare_acpi_memory \/ setup_gdt_and_tss
  BY <1>5 DEF remap_framebuffer, prepare_acpi_memory, setup_gdt_and_tss, Step, pciVars
<1>6. CASE VisitFunction \/ ParseEntry \/ EnableLocalApic \/ MapController
  BY <1>6 DEF VisitFunction, ParseEntry, EnableLocalApic, MapController, Step, pciVars
<1> QED BY <1>1, <1>2, <1>3, <1>4, <1>5, <1>6, NextCases DEF Maps, Advances

\* Nothing is reached where the loops begin.
LEMMA NothingReached ==
    ASSUME NEW R \in Seq(MCFGEntry), Ranges = R
    PROVE  Reached(R, FirstFunction(1)[1], PageOf(R, FirstFunction(1))) = {}
<1> DEFINE p == FirstFunction(1)
           x1 == PageOf(R, p)
<1>1. Len(R) \in Nat /\ \A j \in 1 .. Len(R) : R[j].start \in Nat /\ R[j].end \in Nat /\ R[j].base \in Nat \ {0}
  BY RangeTyped
<1>2. 1 \in 1 .. Len(R) + 1
  BY <1>1
<1>3. /\ PositionIn(R, p)
      /\ \A j \in 1 .. Len(R) : j < p[1] => R[j].start >= R[j].end
      /\ p[1] <= Len(R) => p = <<p[1], R[p[1]].start, 0, 0>>
  BY <1>2, FirstFunctionIs
<1>4. p[1] \in 1 .. Len(R) + 1
  BY <1>3 DEF PositionIn
<1>5. ASSUME NEW j \in 1 .. Len(R), j < p[1] PROVE RangePages(R[j]) = {}
  BY <1>1, <1>3, <1>5, NoPages
<1>6. ASSUME p[1] <= Len(R) PROVE \A y \in RangePages(R[p[1]]) : ~(y < x1)
  BY <1>1, <1>3, <1>4, <1>6, FirstPage
<1> HIDE DEF p, x1
<1>7. ASSUME NEW y \in Reached(R, p[1], x1) PROVE FALSE
  <2>1. PICK j \in 1 .. Len(R) : y \in RangePages(R[j]) /\ (j < p[1] \/ (j = p[1] /\ y < x1))
    BY <1>7 DEF Reached
  <2>2. j = p[1] /\ y < x1
    BY <1>5, <2>1
  <2> QED BY <1>1, <1>6, <2>1, <2>2
<1> QED BY <1>7 DEF p, x1

\* A function that is visited: what was known stays known, and one is added
\* or some are passed.
LEMMA ListVisit ==
    ASSUME CoreInv, ListInv, VisitFunction, KeptIn(kmap, kmap')
    PROVE  Known(g_pci_device_list', kmap', Reached(TheRanges, at'[1], PageOf(TheRanges, at')))
<1> DEFINE R == TheRanges
           x == ConfigPage
           i == at[1]
           P == Reached(R, i, x)
           l == g_pci_device_list
<1>1. /\ R \in Seq(MCFGEntry) /\ Ranges = R /\ PositionIn(R, at) /\ at[1] <= Len(R) /\ x \in Nat \ {0}
  BY VisitFacts
<1>2. phase = "functions" /\ m \in Machines /\ MapInv
  BY DEF VisitFunction, CoreInv
<1>3. RangesApart(R)
  <2>1. phase \in TablePhases /\ Found("MCFG")
    BY <1>2 DEF CoreInv, LoopInv, FunctionPhases, TablePhases
  <2> QED BY <2>1, RangesOK DEF CoreInv
<1>4. x = PageOf(R, at)
  BY <1>1 DEF ConfigPage, PageOf
<1>5. Known(l, kmap', P)
  <2>1. Known(l, kmap, P)
    BY <1>2, <1>4 DEF ListInv
  <2> HIDE DEF l, P
  <2> QED BY <2>1, KnownKept
<1>6. Placed(R, at)
  BY <1>1, PagePlaced
<1>7. i \in 1 .. Len(R) /\ at[4] \in Nat
  BY <1>1 DEF PositionIn, Positions
<1>8. x \in RangePages(R[i])
  <2> DEFINE u == R[i].base + R[i].start * Devices * Functions
             v == R[i].base + R[i].end * Devices * Functions
  <2>1. R[i].base \in Nat /\ R[i].end \in Nat
    BY <1>1, <1>7, RangeTyped
  <2>2. RangePages(R[i]) = u .. v - 1
    BY <2>1, RangeIs
  <2>3. u <= x /\ x + 1 <= DeviceEnd(R, at) /\ DeviceEnd(R, at) <= v /\ DeviceEnd(R, at) \in Nat /\ v \in Nat
    BY <1>4, <1>6, Zenon DEF Placed
  <2> HIDE DEF u, v, x
  <2>4. x \in u .. v - 1
    BY <1>1, <2>3
  <2> QED BY <2>2, <2>4
<1>9. Reached(R, i, x + 1) = P \cup {x} /\ x \notin P
  <2> HIDE DEF R, x, i
  <2> QED BY <1>1, <1>3, <1>7, <1>8, PageReached
<1>10. Reached(R, NextFunction[1], PageOf(R, NextFunction)) = P \cup {x}
  BY <1>1, <1>4, <1>9, FunctionPassed
<1>11. CASE at[4] > 0 /\ ~IsMultiFunction /\ at' = NextDevice /\ g_pci_device_list' = l
  <2>1. Reached(R, at'[1], PageOf(R, at')) = Reached(R, i, DeviceEnd(R, at))
    BY <1>1, <1>11, DevicePassed
  <2>2. P \subseteq Reached(R, i, DeviceEnd(R, at))
    <3>1. x \in Nat /\ DeviceEnd(R, at) \in Nat /\ x + 1 <= DeviceEnd(R, at)
      BY <1>1, <1>4, <1>6 DEF Placed
    <3> HIDE DEF x, R, i
    <3>2. x <= DeviceEnd(R, at)
      BY <3>1
    <3> QED BY <3>1, <3>2, ReachedMore
  <2> DEFINE z == DeviceEnd(R, at)
             Q == Reached(R, i, z)
  <2>3. ASSUME NEW y \in Q, y \in DOMAIN m.functions, ~Hidden(y) PROVE y \in P
    <3>1. Exists /\ ~m.functions[x].multi /\ x \in DOMAIN m.functions
      BY <1>11 DEF IsMultiFunction, Exists
    <3>2. x % Functions = at[4]
      BY <1>1, <1>3, <1>4, FunctionNumber
    <3>3. x % Functions # 0
      BY <1>7, <1>11, <3>2
    <3>4. y \in Nat /\ x \in Nat
      BY <1>1, <2>3 DEF Reached
    <3>5. CASE y < x
      <4>1. PICK j \in 1 .. Len(R) : y \in RangePages(R[j]) /\ (j < i \/ (j = i /\ y < z))
        BY <2>3 DEF Reached
      <4> HIDE DEF R, x, i, z
      <4> QED BY <3>4, <3>5, <4>1 DEF Reached
    <3>6. CASE ~(y < x) /\ y < z
      <4>1. x <= y
        <5> HIDE DEF x
        <5> QED BY <3>4, <3>6
      <4>2. y \div Functions = x \div Functions
        BY <1>1, <1>3, <1>4, <3>4, <3>6, <4>1, SameDevice
      <4> QED BY <2>3, <3>1, <3>3, <4>1, <4>2, Zenon DEF Hidden
    <3>7. CASE ~(y < x) /\ ~(y < z)
      <4>1. PICK j \in 1 .. Len(R) : y \in RangePages(R[j]) /\ (j < i \/ (j = i /\ y < z))
        BY <2>3 DEF Reached
      <4> HIDE DEF R, x, i, z
      <4> QED BY <3>4, <3>7, <4>1 DEF Reached
    <3> QED BY <3>5, <3>6, <3>7
  <2> HIDE DEF P, Q, l, z
  <2>4. Known(l, kmap', Q)
    BY <1>5, <2>2, <2>3, KnownOver DEF Q, z
  <2> QED BY <1>11, <2>1, <2>4 DEF Q, z
<1>12. CASE ~Exists /\ at' = NextFunction /\ g_pci_device_list' = l
  <2>1. x \notin DOMAIN m.functions
    BY <1>12 DEF Exists
  <2> HIDE DEF P, x, l, R
  <2>2. Known(l, kmap', P \cup {x})
    BY <1>5, <2>1, KnownOver
  <2> QED BY <1>10, <1>12, <2>2 DEF R
<1>13. CASE /\ Exists /\ Mapped(MapPages(x, 1)) /\ at' = NextFunction
            /\ g_pci_device_list' =
                   <<[class |-> m.functions[x].class, config_space |-> MapPages(x, 1).virt]>> \o l
  <2> DEFINE r == MapPages(x, 1)
             d == [class |-> m.functions[x].class, config_space |-> r.virt]
  <2>1. x \in DOMAIN m.functions
    BY <1>13 DEF Exists
  <2>2. m.functions[x] \in PCIConfigSpace0
    BY <1>2, <2>1, MachineFacts DEF FunctionsOK
  <2>3. r.virt \in Nat \ {0} /\ r.virt \in DOMAIN r.kmap /\ r.kmap[r.virt] = x
    <3>1. 0 \in 0 .. 1 - 1 /\ 1 \in Nat
      OBVIOUS
    <3>2. r.virt \in Nat \ {0} /\ \A n \in 0 .. 1 - 1 : r.virt + n \in DOMAIN r.kmap /\ r.kmap[r.virt + n] = x + n
      BY <1>1, <1>2, <3>1, MapPagesOK
    <3> HIDE DEF r, x
    <3>3. r.virt + 0 \in DOMAIN r.kmap /\ r.kmap[r.virt + 0] = x + 0
      BY <3>1, <3>2
    <3> QED BY <1>1, <3>2, <3>3
  <2>4. kmap' = r.kmap
    BY <1>13 DEF Mapped
  <2> HIDE DEF r
  <2>5. d \in PCIDeviceEntry /\ d.config_space = r.virt /\ d.class = m.functions[x].class
    BY <2>2, <2>3 DEF PCIDeviceEntry, PCIConfigSpace0
  <2>6. g_pci_device_list' = <<d>> \o l
    BY <1>13 DEF r
  <2> HIDE DEF d, x, P, l, R
  <2>7. Known(<<d>> \o l, kmap', P \cup {x})
    BY <1>1, <1>5, <1>9, <2>1, <2>3, <2>4, <2>5, KnownMore
  <2> QED BY <1>10, <1>13, <2>6, <2>7 DEF R
<1> QED BY <1>11, <1>12, <1>13 DEF VisitFunction

LEMMA ListStep == CoreInv /\ ListInv /\ [Next]_vars => ListInv'
<1> SUFFICES ASSUME CoreInv, ListInv, [Next]_vars PROVE ListInv'
  OBVIOUS
<1>1. m' = m /\ m \in Machines /\ phase \in Phases /\ MapInv /\ KeptIn(kmap, kmap') /\ TheRanges' = TheRanges
  BY MachineStays, MapStep, TablesStay DEF CoreInv
<1> DEFINE l == g_pci_device_list
<1>2. ASSUME NEW P PROVE Known(l, kmap, P) => Known(l, kmap', P)
  <2> HIDE DEF l
  <2> QED BY <1>1, KnownKept
<1>3. phase' \notin FunctionPhases => l' = <<>>
  <2> SUFFICES ASSUME phase' \notin FunctionPhases PROVE l' = <<>>
    OBVIOUS
  <2>1. phase \notin FunctionPhases
    BY <1>1, ListFrame
  <2>2. ~VisitFunction
    BY <2>1 DEF VisitFunction, FunctionPhases, TablePhases
  <2> QED BY <1>1, <2>1, <2>2, ListFrame DEF ListInv
<1>4. ASSUME phase' = "functions" PROVE Known(l', kmap', Reached(TheRanges, at'[1], PageOf(TheRanges, at')))
  <2>1. CASE VisitFunction
    BY <1>1, <2>1, ListVisit
  <2>2. CASE StartEnumeration
    <3>1. phase = "pci" /\ at' = FirstFunction(1) /\ find_table("MCFG") > 0 /\ l' = l
      BY <2>2 DEF StartEnumeration, Step, pciVars
    <3>2. phase \in TablePhases /\ l = <<>>
      BY <3>1 DEF TablePhases, FunctionPhases, ListInv
    <3>3. Found("MCFG")
      BY <1>1, <3>1, <3>2, FindTable DEF CoreInv
    <3>4. TheRanges \in Seq(MCFGEntry) /\ Ranges = TheRanges
      BY <1>1, <3>2, <3>3, RangesTyped DEF CoreInv
    <3>5. Reached(TheRanges, at'[1], PageOf(TheRanges, at')) = {}
      BY <3>1, <3>4, NothingReached
    <3>6. Known(<<>>, kmap', {})
      BY DEF Known
    <3> QED BY <3>1, <3>2, <3>5, <3>6
  <2>3. CASE ~VisitFunction /\ ~StartEnumeration
    <3>1. phase = "functions" /\ at' = at /\ l' = l
      BY <1>1, <1>4, <2>3, PhaseStep, ListFrame
    <3> QED BY <1>2, <3>1 DEF ListInv
  <2> QED BY <2>1, <2>2, <2>3
<1>5. ASSUME phase' \in ListedPhases PROVE Known(l', kmap', Reached(TheRanges, Len(TheRanges) + 1, 0))
  <2>1. CASE EnumerationEnds
    <3>1. phase = "functions" /\ at[1] > Len(Ranges) /\ l' = l
      BY <2>1 DEF EnumerationEnds, pciVars
    <3>2. phase \in TablePhases /\ Found("MCFG") /\ PositionIn(TheRanges, at)
      BY <3>1 DEF CoreInv, LoopInv, FunctionPhases, TablePhases
    <3>3. TheRanges \in Seq(MCFGEntry) /\ Ranges = TheRanges
      BY <1>1, <3>2, RangesTyped DEF CoreInv
    <3> DEFINE n == Len(TheRanges)
    <3>4. at[1] = n + 1 /\ n \in Nat
      BY <3>1, <3>2, <3>3 DEF PositionIn
    <3>5. Reached(TheRanges, at[1], PageOf(TheRanges, at)) = Reached(TheRanges, n + 1, 0)
      <4>1. \A j \in 1 .. n : j < n + 1 /\ j # n + 1
        BY <3>4
      <4> QED BY <3>4, <4>1 DEF Reached
    <3>6. Known(l, kmap, Reached(TheRanges, n + 1, 0))
      BY <3>1, <3>5 DEF ListInv
    <3> QED BY <1>2, <3>1, <3>6
  <2>2. CASE ~EnumerationEnds
    <3>1. phase \in ListedPhases
      BY <1>1, <1>5, <2>2, ListFrame
    <3>2. ~VisitFunction
      BY <3>1 DEF VisitFunction, ListedPhases
    <3>3. l' = l
      BY <1>1, <3>2, ListFrame
    <3> QED BY <1>2, <3>1, <3>3 DEF ListInv
  <2> QED BY <2>1, <2>2
<1> QED BY <1>1, <1>3, <1>4, <1>5 DEF ListInv, Known, Hidden, PageOf, Reached

-----------------------------------------------------------------------------
(* Why the kernel may stop, and what else TypeOK is about.                 *)

Reasons == {"running", "triple fault", "unimplemented exception", "invalid ACPI tables",
            "table not found", "page fault", "invalid MADT", "written behind the array",
            "ID mismatch", "AHCI controller not found", "no 64-bit addressing", "no I/O APIC for the keyboard",
            "general protection fault"}
StopInv == kernel \in Reasons /\ fault \in InterruptFrame
CountInv ==
    /\ g_lapic_count \in 0 .. MAX_LAPIC_COUNT
    /\ Len(g_found_ioapics) <= MAX_IOAPIC_COUNT
\* No interrupt comes from the 8259 once it is masked, nor from a local APIC
\* that is not enabled yet.
DeliveryInv ==
    /\ phase \in ApicPhases => pic = FALSE
    /\ phase \notin ApicPhases => lapic.enabled = FALSE

\* Whatever is raised ends in one of the handlers of exceptions; the keyboard's
\* is not among them.
LEMMA RaiseStops ==
    ASSUME phase \in Phases, GateInv, StopInv, NEW vector, Raise(vector), phase \in GatePhases \cup {"exceptions"},
           phase # "idle" \/ vector \notin DOMAIN idt
    PROVE  StopInv'
<1>1. CASE idt = <<>>
  BY <1>1 DEF Raise, Stop, StopInv, Reasons, faultVars
<1>2. CASE idt # <<>>
  <2> DEFINE gate == IF vector \in DOMAIN idt THEN vector ELSE GENERAL_PROTECTION_FAULT
  <2>1. kernel' = idt[gate].handler /\ fault' \in Frames
    BY <1>2 DEF Raise
  <2>2. phase \in GatePhases
    BY <1>2 DEF GateInv
  <2>3. GatesOK(idt, phase = "idle")
    BY <2>2 DEF GateInv
  <2>4. gate \in DOMAIN idt /\ (phase = "idle" => gate = GENERAL_PROTECTION_FAULT)
    BY <2>3, Zenon DEF GatesOK
  <2>5. idt[gate].handler \in ExceptionHandlers \/ (phase = "idle" /\ gate = KB_VECTOR)
    BY <2>3, <2>4, Zenon DEF GatesOK
  <2>6. idt[gate].handler \in ExceptionHandlers
    BY <2>4, <2>5 DEF KB_VECTOR, GENERAL_PROTECTION_FAULT
  <2>7. fault' \in InterruptFrame
    BY <2>1, MachineAssumption
  <2> QED BY <2>1, <2>6, <2>7 DEF StopInv, Reasons, ExceptionHandlers
<1> QED BY <1>1, <1>2

LEMMA StopStep == phase \in Phases /\ GateInv /\ StopInv /\ DeliveryInv /\ [Next]_vars => StopInv'
<1> SUFFICES ASSUME phase \in Phases, GateInv, StopInv, DeliveryInv, [Next]_vars PROVE StopInv'
  OBVIOUS
<1>1. ASSUME NEW from, NEW to, Step(from, to) PROVE StopInv'
  BY <1>1 DEF Step, faultVars, StopInv
<1>2. ASSUME NEW reason \in Reasons, Stop(reason) PROVE StopInv'
  BY <1>2 DEF Stop, faultVars, StopInv
<1>3. ASSUME TableMissing("MCFG") \/ TableMissing("APIC") PROVE StopInv'
  <2>1. phase \in GatePhases \cup {"exceptions"} /\ phase # "idle"
    BY <1>3 DEF TableMissing, GatePhases, TablePhases
  <2>2. "table not found" \in Reasons
    BY DEF Reasons
  <2>3. Stop("table not found") \/ Raise(PAGE_FAULT)
    BY <1>3 DEF TableMissing
  <2>4. CASE Stop("table not found")
    BY <1>2, <2>2, <2>4
  <2>5. CASE Raise(PAGE_FAULT)
    BY <2>1, <2>5, RaiseStops
  <2> QED BY <2>3, <2>4, <2>5
<1>4. ASSUME AcpiRefused \/ MadtInvalid \/ EntryRefused \/ NoController \/ NoIoapic PROVE StopInv'
  <2>1. PICK reason \in Reasons : Stop(reason)
    BY <1>4 DEF AcpiRefused, MadtInvalid, EntryRefused, NoController, NoIoapic, Reasons
  <2> QED BY <1>2, <2>1
<1>5. ASSUME Maps \/ Advances PROVE StopInv'
  <2>1. PICK from, to : Step(from, to)
    <3>1. CASE Maps
      BY <3>1 DEF Maps, remap_framebuffer, prepare_acpi_memory, setup_gdt_and_tss, VisitFunction, ParseEntry,
              EnableLocalApic, MapController
    <3>2. CASE Advances
      BY <3>2 DEF Advances, initialize_memory, setup_idt, register_exception_interrupts,
       free_uefi_memory_and_remove_identity_mapping, initialize_acpi, StartEnumeration, EnumerationEnds,
       StartApic, prepare_syscalls, WriteLower, WriteUpper, RegisterHandler
    <3> QED BY <1>5, <3>1, <3>2
  <2> QED BY <1>1, <2>1
<1>6. CASE PicInterrupt
  <2>1. PICK vector : Raise(vector)
    BY <1>6 DEF PicInterrupt
  <2>2. phase \notin ApicPhases /\ idt # FirmwareIdt
    BY <1>6, Zenon DEF PicInterrupt, DeliveryInv
  <2>3. phase \in GatePhases \cup {"exceptions"} /\ phase # "idle"
    BY <2>2 DEF GateInv, Phases, GatePhases, FirmwarePhases, EarlyPhases, TablePhases, ApicPhases, FunctionPhases
  <2> QED BY <2>1, <2>3, RaiseStops
<1>7. CASE NoHandler
  <2>1. lapic.enabled /\ Wired.vector \notin DOMAIN idt /\ Raise(Wired.vector)
    BY <1>7 DEF NoHandler, Delivered
  <2>2. phase \in ApicPhases
    BY <2>1, Zenon DEF DeliveryInv
  <2>3. phase \in GatePhases \cup {"exceptions"}
    BY <2>2 DEF GatePhases, ApicPhases, FunctionPhases
  <2> QED BY <2>1, <2>3, RaiseStops
<1>8. CASE KeyboardInterrupt \/ SpuriousEdge \/ Getch \/ Halted \/ UNCHANGED vars
  BY <1>8 DEF KeyboardInterrupt, SpuriousEdge, Getch, Halted, vars, StopInv, faultVars
<1>9. CASE \E key \in Keys : Press(key)
  BY <1>9 DEF Press, StopInv, faultVars
<1> QED BY <1>3, <1>4, <1>5, <1>6, <1>7, <1>8, <1>9 DEF Next, Boot, Maps, Advances

\* Which step changes which variable.
LEMMA TypeFrame ==
    ASSUME [Next]_vars, phase \in Phases
    PROVE  /\ ParseEntry \/ UNCHANGED <<g_lapic_count, g_found_ioapics>>
           /\ StartApic \/ pic' = pic
           /\ phase' \notin ApicPhases => phase \notin ApicPhases
<1> USE DEF Phases, EarlyPhases, TablePhases, FunctionPhases, ApicPhases
<1>1. CASE Aside
  BY <1>1 DEF Aside, bootVars, apicVars
<1>2. CASE initialize_memory \/ setup_idt \/ register_exception_interrupts
           \/ free_uefi_memory_and_remove_identity_mapping
  BY <1>2 DEF initialize_memory, setup_idt, register_exception_interrupts,
       free_uefi_memory_and_remove_identity_mapping, Step, apicVars
<1>3. CASE initialize_acpi \/ StartEnumeration \/ EnumerationEnds \/ StartApic
  BY <1>3 DEF initialize_acpi, StartEnumeration, EnumerationEnds, StartApic, Step, bootVars, apicVars
<1>4. CASE prepare_syscalls \/ WriteLower \/ WriteUpper \/ RegisterHandler
  BY <1>4 DEF prepare_syscalls, WriteLower, WriteUpper, RegisterHandler, Step, bootVars, apicVars
<1>5. CASE remap_framebuffer \/ prepare_acpi_memory \/ setup_gdt_and_tss
  BY <1>5 DEF remap_framebuffer, prepare_acpi_memory, setup_gdt_and_tss, Step, bootVars, apicVars
<1>6. CASE VisitFunction \/ ParseEntry \/ EnableLocalApic \/ MapController
  BY <1>6 DEF VisitFunction, ParseEntry, EnableLocalApic, MapController, Step, bootVars, apicVars
<1> QED BY <1>1, <1>2, <1>3, <1>4, <1>5, <1>6, NextCases DEF Maps, Advances

LEMMA DeliveryStep == CoreInv /\ DeliveryInv /\ [Next]_vars => DeliveryInv'
<1> SUFFICES ASSUME CoreInv, DeliveryInv, [Next]_vars PROVE DeliveryInv'
  OBVIOUS
<1>1. phase \in Phases
  BY DEF CoreInv
<1>2. ASSUME phase' \in ApicPhases PROVE pic' = FALSE
  <2>1. CASE StartApic
    BY <2>1 DEF StartApic
  <2>2. CASE ~StartApic
    <3>1. phase \in ApicPhases /\ pic' = pic
      BY <1>1, <1>2, <2>2, PhaseStep, TypeFrame
    <3> QED BY <3>1 DEF DeliveryInv
  <2> QED BY <2>1, <2>2
<1>3. ASSUME phase' \notin ApicPhases PROVE lapic'.enabled = FALSE
  <2>1. phase \notin ApicPhases
    BY <1>1, <1>3, TypeFrame
  <2>2. ~StartApic /\ ~ParseEntry /\ ~EnableLocalApic
    BY <1>3, <2>1 DEF StartApic, ParseEntry, EnableLocalApic, Step, ApicPhases, FunctionPhases, TablePhases
  <2>3. lapic' = lapic
    BY <1>1, <2>2, PhaseStep
  <2> QED BY <2>1, <2>3 DEF DeliveryInv
<1> QED BY <1>2, <1>3 DEF DeliveryInv

LEMMA CountStep == CoreInv /\ ApicInv /\ CountInv /\ [Next]_vars => CountInv'
<1> SUFFICES ASSUME CoreInv, ApicInv, CountInv, [Next]_vars PROVE CountInv'
  OBVIOUS
<1>1. phase \in Phases /\ g_found_ioapics \in Seq(IOAPICInfo)
  BY DEF CoreInv, ApicInv
<1>2. MAX_LAPIC_COUNT \in Nat /\ MAX_IOAPIC_COUNT \in Nat
  BY MachineAssumption
<1>3. CASE ParseEntry
  <2>1. g_lapic_count' \in 0 .. MAX_LAPIC_COUNT
    <3>1. \/ g_lapic_count' = g_lapic_count
          \/ g_lapic_count < MAX_LAPIC_COUNT /\ g_lapic_count' = g_lapic_count + 1
      BY <1>3 DEF ParseEntry
    <3> QED BY <1>2, <3>1 DEF CountInv
  <2>2. Len(g_found_ioapics') <= MAX_IOAPIC_COUNT
    <3>1. \/ g_found_ioapics' = g_found_ioapics
          \/ /\ Len(g_found_ioapics) < MAX_IOAPIC_COUNT
             /\ \E e : g_found_ioapics' = Append(g_found_ioapics, e)
      BY <1>3 DEF ParseEntry
    <3>2. CASE g_found_ioapics' = g_found_ioapics
      BY <3>2 DEF CountInv
    <3>3. CASE /\ Len(g_found_ioapics) < MAX_IOAPIC_COUNT
               /\ \E e : g_found_ioapics' = Append(g_found_ioapics, e)
      <4>1. Len(g_found_ioapics') = Len(g_found_ioapics) + 1 /\ Len(g_found_ioapics) \in Nat
        BY <1>1, <3>3
      <4> QED BY <1>2, <3>3, <4>1
    <3> QED BY <3>1, <3>2, <3>3
  <2> QED BY <2>1, <2>2 DEF CountInv
<1>4. CASE ~ParseEntry
  BY <1>1, <1>4, TypeFrame DEF CountInv
<1> QED BY <1>3, <1>4

\* All that DevicesExact follows from.
MachineInv ==
    /\ CoreInv /\ ApicInv /\ RouteInv /\ GateInv /\ SegmentInv /\ ListInv
    /\ StopInv /\ CountInv /\ DeliveryInv /\ KeysInv

LEMMA MachineInit == Init => MachineInv
<1> SUFFICES ASSUME Init PROVE MachineInv
  OBVIOUS
<1>1. CoreInv /\ ApicInv /\ RouteInv /\ GateInv /\ SegmentInv /\ KeysInv
  BY CoreInit, ApicInit, RouteInit, SegmentInit, KeysInit
<1>2. ListInv
  BY DEF Init, ListInv, FunctionPhases, ListedPhases, TablePhases
<1>3. StopInv
  BY DEF Init, StopInv, Reasons, NoFault, InterruptFrame
<1>4. CountInv
  BY MachineAssumption DEF Init, CountInv
<1>5. DeliveryInv
  BY DEF Init, DeliveryInv, ApicPhases, FunctionPhases, TablePhases
<1> QED BY <1>1, <1>2, <1>3, <1>4, <1>5 DEF MachineInv

LEMMA MachineNext == MachineInv /\ [Next]_vars => MachineInv'
<1> SUFFICES ASSUME MachineInv, [Next]_vars PROVE MachineInv'
  OBVIOUS
<1>1. phase \in Phases
  BY DEF MachineInv, CoreInv
<1> QED BY <1>1, CoreNext, ApicNext, RouteNext, GateStep, SegmentStep, ListStep, StopStep, CountStep, DeliveryStep,
           KeysNext DEF MachineInv

LEMMA MachineTyped == MachineInv => TypeOK
<1> SUFFICES ASSUME MachineInv PROVE TypeOK
  OBVIOUS
<1>1. m \in Machines /\ phase \in Phases /\ lapic \in LocalAPIC
  BY DEF MachineInv, CoreInv, LoopInv
<1>2. freed \in Seq(DOMAIN kmap)
  <2>1. freed \in Seq(Nat) /\ \A i \in DOMAIN freed : freed[i] \in DOMAIN kmap
    BY DEF MachineInv, CoreInv, MapInv, MapOK, Range
  <2> DEFINE S == DOMAIN kmap
             n == Len(freed)
  <2>2. n \in Nat /\ freed = [i \in 1 .. n |-> freed[i]] /\ DOMAIN freed = 1 .. n
    BY <2>1
  <2> HIDE DEF S, n
  <2>3. freed \in [1 .. n -> S]
    BY <2>1, <2>2 DEF S
  <2>4. freed \in Seq(S)
    BY <2>2, <2>3, SequenceOf
  <2> QED BY <2>4 DEF S
<1>3. g_pci_device_list \in Seq(PCIDeviceEntry)
  <2>1. CASE phase \notin FunctionPhases
    <3>1. g_pci_device_list = <<>>
      BY <2>1 DEF MachineInv, ListInv
    <3> QED BY <3>1
  <2>2. CASE phase \in FunctionPhases
    <3>1. phase = "functions" \/ phase \in ListedPhases
      BY <2>2 DEF ListedPhases
    <3> QED BY <3>1, Zenon DEF MachineInv, ListInv, Known
  <2> QED BY <2>1, <2>2
<1>4. \A i \in DOMAIN redtable : redtable[i] \in [DOMAIN redtable[i] -> IOREDTBLEntry]
  BY DEF MachineInv, RouteInv, RedTyped
<1>5. \A vector \in DOMAIN idt : idt[vector] \in IDTEntry
  <2>1. CASE idt = FirmwareIdt
    BY <2>1 DEF FirmwareIdt, IDTEntry, Handlers
  <2>2. CASE idt = <<>>
    <3>1. DOMAIN idt = {}
      BY <2>2
    <3> QED BY <3>1
  <2>3. CASE phase \in GatePhases
    BY <2>3 DEF MachineInv, GateInv, GatesOK, GateOK
  <2>4. phase \in GatePhases \/ phase = "exceptions" \/ phase \in FirmwarePhases \cup {"idt"}
    BY <1>1 DEF Phases, GatePhases, FirmwarePhases
  <2> QED BY <2>1, <2>2, <2>3, <2>4 DEF MachineInv, GateInv
<1>6. cpu.segments.gdt \in Seq(GDTEntry)
  <2>1. CASE phase \in FirmwarePhases
    <3>1. cpu.segments = FirmwareSegments
      BY <2>1, Zenon DEF MachineInv, SegmentInv
    <3>2. FirmwareSegments.gdt = <<>>
      BY DEF FirmwareSegments
    <3>3. <<>> \in Seq(GDTEntry)
      OBVIOUS
    <3>4. cpu.segments.gdt = <<>>
      BY <3>1, <3>2
    <3> QED BY <3>3, <3>4
  <2>2. CASE phase \notin FirmwarePhases
    <3> DEFINE gdt == WithTss(g_gdt, m.tss)
    <3>1. LoadedRight(gdt, m.tss)
      BY <1>1, MachineFacts, SegmentsLoaded
    <3> HIDE DEF gdt
    <3>2. cpu.segments = Loaded(gdt)
      BY <2>2 DEF MachineInv, SegmentInv, gdt
    <3>3. cpu.segments.gdt = gdt
      BY <3>2 DEF Loaded
    <3> QED BY <3>1, <3>3 DEF LoadedRight
  <2> QED BY <2>1, <2>2
<1>7. KeyboardTypeOK /\ g_found_ioapics \in Seq(IOAPICInfo)
  BY DEF MachineInv, KeysInv, ApicInv
<1>8. g_lapic_count \in 0 .. MAX_LAPIC_COUNT /\ Len(g_found_ioapics) <= MAX_IOAPIC_COUNT /\ fault \in InterruptFrame
  BY DEF MachineInv, CountInv, StopInv
<1>9. kernel \in Reasons
  BY DEF MachineInv, StopInv
<1> QED BY <1>1, <1>2, <1>3, <1>4, <1>5, <1>6, <1>7, <1>8, <1>9, Zenon DEF TypeOK, Reasons

LEMMA PageNatural ==
    ASSUME NEW r, r.start \in Nat, r.end \in Nat, r.base \in Nat, NEW x \in RangePages(r)
    PROVE  x \in Nat
<1> DEFINE u == r.base + r.start * Devices * Functions
           v == r.base + r.end * Devices * Functions
<1>1. RangePages(r) = u .. v - 1
  BY RangeIs
<1>2. u \in Nat
  <2> DEFINE S == r.start * Devices
  <2>1. S \in Nat
    BY Sizes
  <2> HIDE DEF S
  <2>2. S * Functions \in Nat
    BY <2>1, Sizes
  <2>3. r.base + S * Functions \in Nat
    BY <2>2
  <2> QED BY <2>3 DEF S
<1> HIDE DEF u, v
<1> QED BY <1>1, <1>2

\* The buses of an entry are those before its end bus, and that one.
LEMMA EndBusIncluded ==
    ASSUME NEW r \in MCFGEntry
    PROVE  RangePages(r) \subseteq BusPages(r)
<1> DEFINE t == [r EXCEPT !.end = @ + 1]
<1>1. r.base \in Nat /\ r.start \in Nat /\ r.end \in Nat
  BY DEF MCFGEntry
<1>2. t.base = r.base /\ t.start = r.start /\ t.end = r.end + 1
  BY DEF MCFGEntry
<1> DEFINE D == Devices
           F == Functions
           e == r.end
           u == r.base + r.start * D * F
           v == r.base + e * D * F
           w == r.base + (e + 1) * D * F
<1>3. D \in Nat /\ F \in Nat
  BY Sizes
<1> HIDE DEF t
<1>4. RangePages(r) = u .. v - 1
  BY <1>1, RangeIs
<1>5. RangePages(t) = u .. w - 1
  BY <1>1, <1>2, RangeIs
<1>6. v \in Nat /\ w \in Nat /\ v <= w
  <2> HIDE DEF D, F, e
  <2>1. e \in Nat /\ r.base \in Nat
    BY <1>1 DEF e
  <2>2. e * D <= (e + 1) * D /\ e * D \in Nat /\ (e + 1) * D \in Nat
    <3>1. e + 1 \in Int /\ e \in Int /\ e <= e + 1
      BY <2>1
    <3> QED BY <1>3, <2>1, <3>1, MulMonotone
  <2> DEFINE g == e * D
             h == (e + 1) * D
  <2>3. g \in Nat /\ h \in Nat /\ g <= h
    BY <2>2
  <2> HIDE DEF g, h
  <2>4. g * F <= h * F /\ g * F \in Nat /\ h * F \in Nat
    BY <1>3, <2>3, MulMonotone
  <2> DEFINE gF == g * F
             hF == h * F
  <2>5. v = r.base + gF /\ w = r.base + hF
    BY DEF g, h
  <2> HIDE DEF gF, hF, v, w
  <2> QED BY <2>1, <2>4, <2>5 DEF gF, hF
<1> HIDE DEF u, v, w
<1> QED BY <1>4, <1>5, <1>6 DEF BusPages, t

LEMMA DevicesAre == MachineInv => DevicesExact
<1> SUFFICES ASSUME MachineInv PROVE DevicesExact
  OBVIOUS
<1>1. TypeOK
  BY MachineTyped
<1>2. Range(freed) = {v \in DOMAIN kmap : kmap[v] = 0}
  BY DEF MachineInv, CoreInv, MapInv, MapOK
<1> DEFINE l == g_pci_device_list
           pages == [i \in DOMAIN l |-> kmap[l[i].config_space]]
<1>3. ASSUME phase \in ListedPhases
      PROVE  /\ IsInjective(pages)
             /\ \A i \in DOMAIN pages : pages[i] \in OnBus /\ m.functions[pages[i]].class = l[i].class
             /\ \A page \in OnBus \ Range(pages) : OnEndBus(page) \/ Hidden(page)
  <2> DEFINE R == TheRanges
             P == Reached(R, Len(R) + 1, 0)
  <2>1. Known(l, kmap, P)
    BY <1>3 DEF MachineInv, ListInv
  <2>2. l \in Seq(PCIDeviceEntry)
    BY <2>1, Zenon DEF Known
  <2>3. DOMAIN l = 1 .. Len(l)
    BY <2>2
  <2>4. R \in Seq(MCFGEntry) /\ Ranges = R
    <3>1. phase \in TablePhases /\ Found("MCFG")
      BY <1>3 DEF ListedPhases, FunctionPhases, MachineInv, CoreInv, LoopInv
    <3> QED BY <3>1, RangesTyped DEF MachineInv, CoreInv
  <2>p. Len(R) \in Nat /\ DOMAIN R = 1 .. Len(R)
        /\ \A j \in 1 .. Len(R) : R[j] \in MCFGEntry /\ R[j].start \in Nat /\ R[j].end \in Nat /\ R[j].base \in Nat
    BY <2>4, RangeTyped
  <2>5. \A x : x \in P <=> \E j \in 1 .. Len(R) : x \in RangePages(R[j])
    <3>1. ASSUME NEW j \in 1 .. Len(R), NEW x \in RangePages(R[j]) PROVE x \in Nat /\ j < Len(R) + 1
      BY <2>p, PageNatural
    <3> QED BY <3>1 DEF Reached
  <2>q. \A j \in 1 .. Len(R) : RangePages(R[j]) \subseteq BusPages(R[j])
    BY <2>p, EndBusIncluded
  <2> HIDE DEF P, R, l
  <2>6. \A x \in P : x \in DOMAIN m.functions => x \in OnBus
    BY <2>4, <2>p, <2>5, <2>q DEF OnBus
  <2>7. IsInjective(pages)
    BY <2>1, <2>3, Zenon DEF Known, IsInjective
  <2>8. \A i \in DOMAIN pages : pages[i] \in OnBus /\ m.functions[pages[i]].class = l[i].class
    BY <2>1, <2>3, <2>6, Zenon DEF Known
  <2>9. ASSUME NEW x \in OnBus, x \notin Range(pages), ~OnEndBus(x) PROVE Hidden(x)
    <3>1. PICK j \in DOMAIN R : x \in BusPages(R[j])
      BY <2>4, <2>9 DEF OnBus
    <3>2. x \in RangePages(R[j])
      BY <2>4, <2>9, <3>1, Zenon DEF OnEndBus
    <3>3. x \in P /\ x \in DOMAIN m.functions
      BY <2>5, <2>9, <2>p, <3>2 DEF OnBus
    <3> SUFFICES ASSUME ~Hidden(x) PROVE FALSE
      OBVIOUS
    <3>4. PICK i \in 1 .. Len(l) : kmap[l[i].config_space] = x
      BY <2>1, <3>3, Zenon DEF Known
    <3> QED BY <2>3, <2>9, <3>4 DEF Range
  <2> QED BY <2>7, <2>8, <2>9
<1>4. phase \in {"apic", "madt", "ahci", "syscalls", "keyboard", "destination", "handler", "idle"} <=> phase \in ListedPhases
  BY DEF ListedPhases, FunctionPhases, TablePhases
<1> QED BY <1>1, <1>2, <1>3, <1>4, Zenon DEF DevicesExact

\* On every machine enumerate_pci_devices lists every function of the buses once
\* and with its class, except those of an end bus and those behind a function
\* without the multi-function bit; it gives back the address space of all it does
\* not list, and nothing that follows unmaps one.  The state stays typed, and the
\* kernel stops for no other reason than the ones its assertions and handlers have.
THEOREM DevicesAlwaysExact == Spec => []DevicesExact
<1> QED BY MachineInit, MachineNext, DevicesAre, PTL DEF Spec

-----------------------------------------------------------------------------
(* Where the driver is says what the engines of the port in hand can do.   *)

BeforeAlloc == {"stop", "stop fre", "stop wait", "allocate"}
AfterAlloc == {"set bases", "tables", "start fre", "start st"}
Working == BeforeAlloc \cup AfterAlloc
Serving == {"idle", "describe", "spin", "wait"}

ShapeOK ==
    /\ drives \subseteq Ports
    /\ cmd \in [Ports -> SUBSET {"ST", "FRE", "CR", "FR"}]
    /\ base \in [Ports -> BOOLEAN]
    /\ devices \in Seq(Ports)
    /\ port \in Ports \cup {NoPort}
    /\ pc \in Working => port \in drives

\* An engine that was told to stand and stands does not start by itself.
EnginesOK ==
    /\ pc \in {"stop fre", "stop wait", "allocate", "set bases", "tables", "start fre"}
           => "ST" \notin cmd[port]
    /\ pc \in {"stop wait", "allocate", "set bases", "tables", "start fre"}
           => "FRE" \notin cmd[port]
    /\ pc \in {"allocate", "set bases", "tables", "start fre"}
           => "CR" \notin cmd[port] /\ "FR" \notin cmd[port]

StopOK == ShapeOK /\ EnginesOK

Bits == {"ST", "FRE", "CR", "FR"}

\* What a sequence of ports is made of.
LEMMA ElementType ==
    ASSUME NEW S, NEW s \in Seq(S)
    PROVE  \A k \in DOMAIN s : s[k] \in S
OBVIOUS

\* Appending a port to a sequence of ports.
LEMMA AppendType ==
    ASSUME NEW S, NEW s \in Seq(S), NEW e \in S
    PROVE  Append(s, e) \in Seq(S)
OBVIOUS

\* A port is appended behind the others.
LEMMA AppendElements ==
    ASSUME NEW S, NEW s \in Seq(S), NEW e \in S
    PROVE  /\ DOMAIN s = 1 .. Len(s) /\ Len(s) \in Nat
           /\ DOMAIN Append(s, e) = 1 .. Len(s) + 1
           /\ Append(s, e)[Len(s) + 1] = e
           /\ \A k \in DOMAIN s : Append(s, e)[k] = s[k]
OBVIOUS

\* The initial states satisfy StopOK.
LEMMA InitStopOK == AhciInit => StopOK
<1> SUFFICES ASSUME AhciInit PROVE StopOK
  OBVIOUS
<1>1. cmd \in [Ports -> SUBSET Bits]
  BY DEF AhciInit, Bits
<1>2. base \in [Ports -> BOOLEAN] /\ devices = <<>> /\ pc = "next port" /\ port = NoPort
      /\ drives \subseteq Ports
  BY DEF AhciInit
<1>3. <<>> \in Seq(Ports)
  OBVIOUS
<1> QED BY <1>1, <1>2, <1>3 DEF StopOK, ShapeOK, EnginesOK, Working, BeforeAlloc, AfterAlloc, Bits

\* Every step of the driver during initialisation preserves StopOK.
LEMMA InitialisationStopOK ==
    ASSUME StopOK,
           \/ NextPort \/ AllPortsDone \/ stop_cmd \/ StopDone \/ AllocDma \/ AllocDmaFails
           \/ SetBases \/ SetTable \/ NoPhysicalAddress \/ StartDone \/ start_cmd
    PROVE  StopOK'
<1> USE DEF StopOK, ShapeOK, EnginesOK, Working, BeforeAlloc, AfterAlloc, Goto, init_vars, request_vars
<1>1. CASE NextPort
  BY <1>1 DEF NextPort
<1>2. CASE AllPortsDone
  BY <1>2 DEF AllPortsDone
<1>3. CASE ClearBit("stop", "ST", "stop fre")
  BY <1>3 DEF ClearBit
<1>4. CASE ClearBit("stop fre", "FRE", "stop wait")
  BY <1>4 DEF ClearBit
<1>5. CASE StopDone
  BY <1>5 DEF StopDone, EngineStopped
<1>6. CASE AllocDma
  <2>1. devices' = Append(devices, port) /\ port \in Ports /\ devices \in Seq(Ports)
    BY <1>6 DEF AllocDma
  <2>2. devices' \in Seq(Ports)
    BY <2>1, AppendType
  <2> QED BY <1>6, <2>2 DEF AllocDma
<1>7. CASE AllocDmaFails \/ NoPhysicalAddress
  BY <1>7 DEF AllocDmaFails, NoPhysicalAddress, GiveUp
<1>8. CASE SetBases
  BY <1>8 DEF SetBases
<1>9. CASE SetTable
  BY <1>9 DEF SetTable
<1>10. CASE StartDone
  BY <1>10 DEF StartDone
<1>11. CASE SetBit("start fre", "FRE", "start st")
  BY <1>11 DEF SetBit
<1>12. CASE SetBit("start st", "ST", "next port")
  BY <1>12 DEF SetBit
<1> QED BY <1>1, <1>2, <1>3, <1>4, <1>5, <1>6, <1>7, <1>8, <1>9, <1>10, <1>11, <1>12
        DEF stop_cmd, start_cmd

\* Requests and the controller preserve StopOK.
LEMMA ServiceStopOK ==
    ASSUME StopOK,
           \/ Request \/ DescribeBuffer \/ IssueCommand \/ PortHung \/ CommandDone \/ CommandFailed
           \/ Controller \/ UNCHANGED ahciVars
    PROVE  StopOK'
<1> USE DEF StopOK, ShapeOK, EnginesOK, Working, BeforeAlloc, AfterAlloc, Goto, init_vars, request_vars
<1>1. CASE Request
  <2>1. PICK d \in DOMAIN devices, sector \in Sectors, count \in Counts, buffer \in Buffers,
             write \in BOOLEAN :
            read_write_sectors(d, sector, count, buffer, write)
    BY <1>1 DEF Request
  <2>2. devices[d] \in Ports
    BY ElementType
  <2>3. pc' \in {"describe", "prdt too small"} /\ port' \in Ports
        /\ UNCHANGED <<drives, cmd, base, devices>>
    BY <2>1, <2>2 DEF read_write_sectors
  <2> QED BY <2>3
<1>2. CASE DescribeBuffer \/ IssueCommand \/ CommandDone
  BY <1>2 DEF DescribeBuffer, IssueCommand, CommandDone
<1>3. CASE PortHung \/ CommandFailed
  BY <1>3 DEF PortHung, CommandFailed, GiveUp
<1>4. ASSUME NEW p \in Ports, NEW order \in {"ST", "FRE"},
             NEW report \in {"CR", "FR"}, EngineFollows(p, order, report),
             order = "ST" <=> report = "CR"
      PROVE  StopOK'
  <2>1. UNCHANGED <<drives, base, devices, port, pc>>
    BY <1>4 DEF EngineFollows
  <2>2. cmd' = [cmd EXCEPT ![p] = IF order \in @ THEN @ \cup {report} ELSE @ \ {report}]
    BY <1>4 DEF EngineFollows
  <2>3. \A q \in Ports : /\ cmd'[q] \in SUBSET Bits
                         /\ "ST" \in cmd'[q] <=> "ST" \in cmd[q]
                         /\ "FRE" \in cmd'[q] <=> "FRE" \in cmd[q]
                         /\ "ST" \notin cmd[q] /\ "CR" \in cmd'[q] => "CR" \in cmd[q]
                         /\ "FRE" \notin cmd[q] /\ "FR" \in cmd'[q] => "FR" \in cmd[q]
    BY <1>4, <2>2 DEF Bits
  <2>4. cmd' \in [Ports -> SUBSET Bits]
    BY <2>2, <2>3
  <2> QED BY <2>1, <2>3, <2>4 DEF Bits
<1>5. CASE Engines
  <2>1. PICK p \in Ports : EngineFollows(p, "ST", "CR") \/ EngineFollows(p, "FRE", "FR")
    BY <1>5 DEF Engines
  <2> QED BY <1>4, <2>1
<1>6. CASE TransferSector \/ CompleteCommand \/ FailCommand
  BY <1>6 DEF TransferSector, CompleteCommand, FailCommand
<1>7. CASE UNCHANGED ahciVars
  BY <1>7 DEF ahciVars
<1> QED BY <1>1, <1>2, <1>3, <1>5, <1>6, <1>7 DEF Controller

\* Every step preserves StopOK.
LEMMA NextStopOK == StopOK /\ [AhciNext]_ahciVars => StopOK'
BY InitialisationStopOK, ServiceStopOK DEF AhciNext, Driver, Stopped

\* In a state that satisfies StopOK a step that changes a base is SetBases,
\* and finds both engines of that port standing.
LEMMA BaseStep ==
    ASSUME StopOK, [AhciNext]_ahciVars
    PROVE  \A p \in Ports : base'[p] # base[p] => {"CR", "FR"} \cap cmd[p] = {}
<1> USE DEF StopOK, ShapeOK, EnginesOK, Working, BeforeAlloc, AfterAlloc
<1>1. CASE SetBases
  <2>1. base' = [base EXCEPT ![port] = TRUE] /\ port \in Ports
        /\ "CR" \notin cmd[port] /\ "FR" \notin cmd[port]
    BY <1>1 DEF SetBases
  <2> QED BY <2>1
<1>2. CASE ~SetBases
  <2>1. base' = base
    <3>1. CASE NextPort \/ AllPortsDone \/ stop_cmd \/ StopDone \/ AllocDma \/ AllocDmaFails
               \/ SetTable \/ NoPhysicalAddress \/ StartDone \/ start_cmd
      BY <3>1 DEF NextPort, AllPortsDone, stop_cmd, ClearBit, StopDone, AllocDma, AllocDmaFails,
                  SetTable, NoPhysicalAddress, StartDone, start_cmd, SetBit, GiveUp
    <3>2. CASE Request
      BY <3>2 DEF Request, read_write_sectors
    <3>3. CASE DescribeBuffer \/ IssueCommand \/ PortHung \/ CommandDone \/ CommandFailed
      BY <3>3 DEF DescribeBuffer, IssueCommand, PortHung, CommandDone, CommandFailed, GiveUp
    <3>4. CASE Controller
      BY <3>4 DEF Controller, Engines, EngineFollows, TransferSector, CompleteCommand, FailCommand
    <3>5. CASE UNCHANGED ahciVars
      BY <3>5 DEF ahciVars
    <3> QED BY <1>2, <3>1, <3>2, <3>3, <3>4, <3>5 DEF AhciNext, Driver, Stopped
  <2> QED BY <2>1
<1> QED BY <1>1, <1>2

\* initialize_ahci gives a port new bases only while neither its command
\* engine nor its FIS receive engine runs, however late the controller
\* follows and whatever the firmware has left running.
THEOREM BasesOnlyWhenStopped == AhciSpec => BasesChangeWhenStopped
<1> DEFINE A == \A p \in Ports : base'[p] # base[p] => {"CR", "FR"} \cap cmd[p] = {}
<1>1. StopOK /\ [AhciNext]_ahciVars => [A]_ahciVars
  BY BaseStep
<1> QED BY <1>1, InitStopOK, NextStopOK, PTL DEF AhciSpec, BasesChangeWhenStopped

-----------------------------------------------------------------------------
(* The devices are the drives of the ports that have been passed.          *)

Ready == {p \in Ports : base[p] /\ "ST" \in cmd[p] /\ "FRE" \in cmd[p]}
Registered == {devices[k] : k \in DOMAIN devices}
InOrder == \A k, l \in DOMAIN devices : k < l => devices[k] < devices[l]

DevicesOK ==
    /\ InOrder
    /\ pc = "next port" => /\ Registered = {d \in drives : d <= port}
                           /\ Registered \subseteq Ready
    /\ pc \in BeforeAlloc => /\ Registered = {d \in drives : d < port}
                             /\ Registered \subseteq Ready
    /\ pc \in AfterAlloc => /\ Registered = {d \in drives : d <= port}
                            /\ Registered \ {port} \subseteq Ready
    /\ pc \in {"tables", "start fre", "start st"} => base[port]
    /\ pc = "start st" => "FRE" \in cmd[port]
    /\ pc \in Serving => /\ Registered = drives
                         /\ Registered \subseteq Ready

DrivesOK == StopOK /\ DevicesOK

\* Ports are numbers, and none is NoPort.
LEMMA PortsAreNumbers == ASSUME StopOK PROVE Ports \subseteq Nat /\ port \in Int
BY AhciAssumption DEF StopOK, ShapeOK, NoPort

\* A step that keeps the devices, the drives and the control, and that takes
\* readiness from no port, preserves DevicesOK.
LEMMA SameDevices ==
    ASSUME DrivesOK, UNCHANGED <<drives, devices, port, pc>>,
           \A p \in Ports : /\ base'[p] = base[p]
                            /\ "ST" \in cmd[p] => "ST" \in cmd'[p]
                            /\ "FRE" \in cmd[p] => "FRE" \in cmd'[p]
    PROVE  DevicesOK'
<1>1. drives \subseteq Ports /\ (pc \in Working => port \in Ports)
  BY DEF DrivesOK, StopOK, ShapeOK
<1>2. Registered \subseteq Ports /\ Registered' = Registered /\ (InOrder <=> InOrder')
  BY ElementType DEF DrivesOK, StopOK, ShapeOK, Registered, InOrder
<1>3. Ready \subseteq Ready'
  BY DEF Ready
<1> QED BY <1>1, <1>2, <1>3 DEF DrivesOK, DevicesOK, Working, BeforeAlloc, AfterAlloc

\* The initial states satisfy DrivesOK: no port has been passed.
LEMMA InitDrivesOK == AhciInit => DrivesOK
<1> SUFFICES ASSUME AhciInit PROVE DrivesOK
  OBVIOUS
<1>1. StopOK
  BY InitStopOK
<1>2. devices = <<>> /\ pc = "next port" /\ port = NoPort /\ drives \subseteq Ports
  BY DEF AhciInit
<1>3. DOMAIN devices = {}
  <2>1. devices \in Seq(Ports)
    BY <1>1 DEF StopOK, ShapeOK
  <2>2. DOMAIN devices = 1 .. Len(devices)
    BY <2>1
  <2>3. Len(devices) = 0
    BY <1>2
  <2> QED BY <2>2, <2>3
<1>4. Registered = {} /\ InOrder
  BY <1>3 DEF Registered, InOrder
<1>5. \A d \in drives : ~(d <= port)
  <2>1. Ports \subseteq Nat
    BY AhciAssumption
  <2>2. port = -1 /\ drives \subseteq Nat
    BY <1>2, <2>1 DEF NoPort
  <2> QED BY <2>2
<1> QED BY <1>1, <1>2, <1>4, <1>5 DEF DrivesOK, DevicesOK, BeforeAlloc, AfterAlloc, Serving

\* NextPort: the drives up to the next port are those up to the last one, and
\* the next port if it has a drive.
LEMMA NextPortDevicesOK == ASSUME DrivesOK, NextPort PROVE DevicesOK'
<1>1. Ports \subseteq Nat /\ port \in Int /\ drives \subseteq Ports
  BY PortsAreNumbers DEF DrivesOK, StopOK, ShapeOK
<1>2. PICK p \in Ports : /\ p > port
                         /\ \A q \in Ports : q > port => p <= q
                         /\ port' = p
                         /\ IF p \in drives THEN Goto("stop") ELSE UNCHANGED pc
  BY DEF NextPort
<1>3. pc = "next port" /\ UNCHANGED <<drives, devices, cmd, base>>
  BY DEF NextPort, init_vars
<1>4. /\ Registered = {d \in drives : d <= port} /\ Registered' = Registered
      /\ InOrder' /\ Registered \subseteq Ready'
  BY <1>3 DEF DrivesOK, DevicesOK, Registered, InOrder, Ready
<1>5. CASE p \in drives
  <2>1. \A d \in drives : d <= port <=> d < p
    BY <1>1, <1>2
  <2>2. {d \in drives : d <= port} = {d \in drives : d < p}
    BY <2>1
  <2> QED BY <1>2, <1>3, <1>4, <1>5, <2>2
          DEF Goto, DevicesOK, BeforeAlloc, AfterAlloc, Serving
<1>6. CASE p \notin drives
  <2>1. \A d \in drives : d <= port <=> d <= p
    BY <1>1, <1>2, <1>6
  <2>2. {d \in drives : d <= port} = {d \in drives : d <= p}
    BY <2>1
  <2> QED BY <1>2, <1>3, <1>4, <1>6, <2>2 DEF DevicesOK, BeforeAlloc, AfterAlloc, Serving
<1> QED BY <1>5, <1>6

\* AllPortsDone: when no port is left, the devices are all drives.
LEMMA AllPortsDoneDevicesOK == ASSUME DrivesOK, AllPortsDone PROVE DevicesOK'
<1>1. pc = "next port" /\ pc' = "idle" /\ UNCHANGED <<drives, devices, cmd, base>>
      /\ \A p \in Ports : p <= port
  BY DEF AllPortsDone, Goto, init_vars
<1>2. {d \in drives : d <= port} = drives
  BY <1>1 DEF DrivesOK, StopOK, ShapeOK
<1> QED BY <1>1, <1>2 DEF DrivesOK, DevicesOK, Registered, InOrder, Ready, BeforeAlloc, AfterAlloc, Serving

\* AllocDma: the port in hand becomes the last device.
LEMMA AllocDmaDevicesOK == ASSUME DrivesOK, AllocDma PROVE DevicesOK'
<1>1. /\ pc = "allocate" /\ pc' = "set bases" /\ devices' = Append(devices, port)
      /\ UNCHANGED <<drives, port, cmd, base>>
  BY DEF AllocDma, Goto
<1>2. /\ Ports \subseteq Nat /\ port \in drives /\ drives \subseteq Ports
      /\ devices \in Seq(Ports) /\ port \in Ports
  BY <1>1, PortsAreNumbers DEF DrivesOK, StopOK, ShapeOK, Working, BeforeAlloc
<1>3. Registered = {d \in drives : d < port} /\ InOrder /\ Registered \subseteq Ready
  BY <1>1 DEF DrivesOK, DevicesOK, BeforeAlloc
<1>4. /\ DOMAIN devices = 1 .. Len(devices)
      /\ DOMAIN devices' = 1 .. Len(devices) + 1 /\ Len(devices) \in Nat
      /\ devices'[Len(devices) + 1] = port
      /\ \A k \in DOMAIN devices : devices'[k] = devices[k]
  <2>1. devices \in Seq(Ports) /\ port \in Ports /\ devices' = Append(devices, port)
    BY <1>1, <1>2
  <2>2. DOMAIN devices = 1 .. Len(devices) /\ Len(devices) \in Nat
    BY <2>1
  <2>3. DOMAIN Append(devices, port) = 1 .. Len(devices) + 1
    BY <2>1, AppendElements
  <2>4. Append(devices, port)[Len(devices) + 1] = port
    BY <2>1, AppendElements
  <2>5. \A k \in DOMAIN devices : Append(devices, port)[k] = devices[k]
    BY <2>1, AppendElements
  <2> QED BY <2>1, <2>2, <2>3, <2>4, <2>5, Zenon
<1>5. Registered' = Registered \cup {port}
  BY <1>4 DEF Registered
<1>6. Registered' = {d \in drives : d <= port}
  <2>1. \A d \in drives : d <= port <=> d < port \/ d = port
    BY <1>2
  <2> QED BY <1>2, <1>3, <1>5, <2>1
<1>7. InOrder'
  <2> SUFFICES ASSUME NEW k \in DOMAIN devices', NEW l \in DOMAIN devices', k < l
               PROVE  devices'[k] < devices'[l]
    BY DEF InOrder
  <2>1. k \in DOMAIN devices /\ (l \in DOMAIN devices \/ l = Len(devices) + 1)
    BY <1>4
  <2>2. devices[k] < port
    BY <1>3, <2>1 DEF Registered
  <2> QED BY <1>3, <1>4, <2>1, <2>2 DEF InOrder
<1>8. Registered' \ {port} \subseteq Ready'
  BY <1>1, <1>3, <1>5 DEF Ready
<1> QED BY <1>1, <1>6, <1>7, <1>8 DEF DevicesOK, BeforeAlloc, AfterAlloc, Serving

\* The steps that work on the bits and the bases of the port in hand leave
\* the other devices ready.
LEMMA PortStepDevicesOK ==
    ASSUME DrivesOK, stop_cmd \/ StopDone \/ SetBases \/ SetTable \/ StartDone \/ start_cmd
    PROVE  DevicesOK'
<1>1. /\ Ports \subseteq Nat /\ drives \subseteq Ports /\ cmd \in [Ports -> SUBSET Bits]
      /\ base \in [Ports -> BOOLEAN] /\ pc \in Working /\ port \in Ports
      /\ pc \in Working => port \in drives
  BY PortsAreNumbers
     DEF DrivesOK, StopOK, ShapeOK, Bits, Working, BeforeAlloc, AfterAlloc, stop_cmd, ClearBit,
         StopDone, SetBases, SetTable, StartDone, start_cmd, SetBit
<1>2. UNCHANGED <<drives, devices, port>>
  BY DEF stop_cmd, ClearBit, StopDone, SetBases, SetTable, StartDone, start_cmd, SetBit, init_vars
<1>3. Registered' = Registered /\ InOrder' /\ Registered \subseteq drives
  <2>1. Registered' = Registered
    BY <1>2 DEF Registered
  <2>2. InOrder'
    BY <1>2 DEF DrivesOK, DevicesOK, InOrder
  <2>3. Registered \subseteq drives
    BY <1>1 DEF DrivesOK, DevicesOK, Working
  <2> QED BY <2>1, <2>2, <2>3
<1>4. \A p \in Ports : p # port => cmd'[p] = cmd[p] /\ base'[p] = base[p]
  BY <1>1 DEF stop_cmd, ClearBit, StopDone, SetBases, SetTable, StartDone, start_cmd, SetBit, init_vars
<1>5. (Registered \ {port}) \cap Ready \subseteq Ready'
  BY <1>1, <1>3, <1>4 DEF Ready
<1>6. CASE stop_cmd \/ StopDone
  <2>1. pc \in BeforeAlloc /\ pc' \in BeforeAlloc
    BY <1>6 DEF stop_cmd, ClearBit, StopDone, Goto, BeforeAlloc
  <2>2. Registered = {d \in drives : d < port} /\ Registered \subseteq Ready
    BY <2>1 DEF DrivesOK, DevicesOK
  <2>3. \A d \in Registered : d # port
    BY <1>1, <2>2
  <2> QED BY <1>2, <1>3, <1>5, <2>1, <2>2, <2>3
          DEF DevicesOK, BeforeAlloc, AfterAlloc, Serving
<1>7. CASE SetBases \/ SetTable \/ StartDone \/ SetBit("start fre", "FRE", "start st")
  <2>1. /\ pc \in AfterAlloc /\ pc' \in AfterAlloc
        /\ pc' \in {"tables", "start fre", "start st"} => base'[port]
        /\ pc' = "start st" => "FRE" \in cmd'[port]
    BY <1>1, <1>7 DEF DrivesOK, DevicesOK, SetBases, SetTable, StartDone, SetBit, Goto, AfterAlloc
  <2>2. Registered = {d \in drives : d <= port} /\ Registered \ {port} \subseteq Ready
    BY <2>1 DEF DrivesOK, DevicesOK
  <2> QED BY <1>2, <1>3, <1>5, <2>1, <2>2 DEF DevicesOK, BeforeAlloc, AfterAlloc, Serving
<1>8. CASE SetBit("start st", "ST", "next port")
  <2>1. /\ pc = "start st" /\ pc' = "next port"
        /\ cmd' = [cmd EXCEPT ![port] = @ \cup {"ST"}] /\ base' = base
    BY <1>8 DEF SetBit, Goto
  <2>2. /\ Registered = {d \in drives : d <= port} /\ Registered \ {port} \subseteq Ready
        /\ base[port] /\ "FRE" \in cmd[port]
    BY <2>1 DEF DrivesOK, DevicesOK, AfterAlloc
  <2>3. port \in Ready'
    BY <1>1, <1>2, <2>1, <2>2 DEF Ready
  <2> QED BY <1>2, <1>3, <1>5, <2>1, <2>2, <2>3 DEF DevicesOK, BeforeAlloc, AfterAlloc, Serving
<1> QED BY <1>6, <1>7, <1>8 DEF start_cmd

\* Requests and their ends stay in the steps after initialisation.
LEMMA RequestDevicesOK ==
    ASSUME DrivesOK, Request \/ DescribeBuffer \/ IssueCommand \/ CommandDone
    PROVE  DevicesOK'
<1>1. UNCHANGED <<drives, devices, cmd, base>>
  BY DEF Request, read_write_sectors, DescribeBuffer, IssueCommand, CommandDone, init_vars
<1>2. pc \in Serving /\ pc' \in Serving \cup {"prdt too small"}
  BY DEF Request, read_write_sectors, DescribeBuffer, IssueCommand, CommandDone, Goto, Serving
<1> QED BY <1>1, <1>2
        DEF DrivesOK, DevicesOK, Registered, InOrder, Ready, BeforeAlloc, AfterAlloc, Serving

\* A failed assertion leaves only the order of the devices to be shown.
LEMMA StopDevicesOK ==
    ASSUME DrivesOK, AllocDmaFails \/ NoPhysicalAddress \/ PortHung \/ CommandFailed
    PROVE  DevicesOK'
<1>1. pc' \in Stops /\ devices' = devices
  BY DEF AllocDmaFails, NoPhysicalAddress, PortHung, CommandFailed, GiveUp, Goto, Stops, init_vars
<1> QED BY <1>1 DEF DrivesOK, DevicesOK, InOrder, Stops, BeforeAlloc, AfterAlloc, Serving

\* The controller never clears ST or FRE.
LEMMA ControllerDevicesOK ==
    ASSUME DrivesOK, Controller \/ UNCHANGED ahciVars
    PROVE  DevicesOK'
<1>1. UNCHANGED <<drives, devices, port, pc, base>>
  BY DEF Controller, Engines, EngineFollows, TransferSector, CompleteCommand, FailCommand, ahciVars, init_vars
<1>2. CASE Engines
  <2>1. PICK p \in Ports : EngineFollows(p, "ST", "CR") \/ EngineFollows(p, "FRE", "FR")
    BY <1>2 DEF Engines
  <2>2. cmd \in [Ports -> SUBSET Bits]
    BY DEF DrivesOK, StopOK, ShapeOK, Bits
  <2>3. \A q \in Ports : /\ "ST" \in cmd[q] => "ST" \in cmd'[q]
                         /\ "FRE" \in cmd[q] => "FRE" \in cmd'[q]
    BY <2>1, <2>2 DEF EngineFollows
  <2> QED BY <1>1, <2>3, SameDevices
<1>3. CASE cmd' = cmd
  BY <1>1, <1>3, SameDevices
<1> QED BY <1>2, <1>3 DEF Controller, TransferSector, CompleteCommand, FailCommand, ahciVars

\* Every step preserves DrivesOK.
LEMMA NextDrivesOK == DrivesOK /\ [AhciNext]_ahciVars => DrivesOK'
<1> SUFFICES ASSUME DrivesOK, [AhciNext]_ahciVars PROVE DevicesOK'
  BY NextStopOK DEF DrivesOK
<1> QED BY NextPortDevicesOK, AllPortsDoneDevicesOK, AllocDmaDevicesOK, PortStepDevicesOK,
           RequestDevicesOK, StopDevicesOK, ControllerDevicesOK
        DEF AhciNext, Driver, Stopped

\* When initialize_ahci is done, the devices are exactly the ports with a
\* drive, in order, each with its bases set and its engines told to run.
THEOREM AhciEveryDriveReady == AhciSpec => []EveryDriveReady
<1>1. DrivesOK => EveryDriveReady
  BY DEF DrivesOK, DevicesOK, EveryDriveReady, Registered, InOrder, Ready, Serving, ToSet
<1> QED BY <1>1, InitDrivesOK, NextDrivesOK, PTL DEF AhciSpec

-----------------------------------------------------------------------------
(* The bytes of a command, and where a buffer has its sectors.              *)

\* What the bytes are worth.
LEMMA BytePlaces ==
    /\ Octet \in Nat \ {0}
    /\ Place(Octet, 0) = 1 /\ Place(Octet, 1) = Octet /\ Place(Octet, 2) = Octet * Octet
    /\ Place(Octet, 3) = Place(Octet, 2) * Octet /\ Place(Octet, 4) = Place(Octet, 3) * Octet
    /\ Place(Octet, 5) = Place(Octet, 4) * Octet /\ Place(Octet, 6) = Place(Octet, 4) * Place(Octet, 2)
    /\ \A n \in 0 .. 6 : Place(Octet, n) \in Nat \ {0}
<1>1. Octet \in Nat \ {0}
  BY AhciAssumption
<1>2. /\ Place(Octet, 0) = 1 /\ Place(Octet, 1) = Octet /\ Place(Octet, 2) = Octet * Octet /\ Place(Octet, 3) = (Octet * Octet) * Octet
      /\ Place(Octet, 4) = (Octet * Octet) * (Octet * Octet) /\ Place(Octet, 5) = (Octet * Octet) * (Octet * Octet) * Octet
      /\ Place(Octet, 6) = (Octet * Octet) * (Octet * Octet) * (Octet * Octet)
  BY DEF Place
<1>3. (Octet * Octet) * (Octet * Octet) = ((Octet * Octet) * Octet) * Octet
  BY <1>1
<1>4. \A x, y \in Nat \ {0} : x * y \in Nat \ {0}
  OBVIOUS
<1>5. /\ Place(Octet, 0) \in Nat \ {0} /\ Place(Octet, 1) \in Nat \ {0} /\ Place(Octet, 2) \in Nat \ {0}
  BY <1>1, <1>2, <1>4
<1>6. Place(Octet, 3) \in Nat \ {0} /\ Place(Octet, 4) \in Nat \ {0}
  BY <1>1, <1>2, <1>4, <1>5
<1>7. Place(Octet, 5) \in Nat \ {0} /\ Place(Octet, 6) \in Nat \ {0}
  BY <1>1, <1>2, <1>4, <1>5, <1>6
<1>8. \A n \in 0 .. 6 : n = 0 \/ n = 1 \/ n = 2 \/ n = 3 \/ n = 4 \/ n = 5 \/ n = 6
  OBVIOUS
<1>9. \A n \in 0 .. 6 : Place(Octet, n) \in Nat \ {0}
  BY <1>5, <1>6, <1>7, <1>8
<1> QED BY <1>1, <1>2, <1>3, <1>9

\* What the bytes of a number give back.
LEMMA BytesGiveNumber ==
    ASSUME NEW x \in Nat
    PROVE  /\ x < Place(Octet, 2) => x = ((x \div Place(Octet, 0)) % Octet) + ((x \div Place(Octet, 1)) % Octet) * Place(Octet, 1)
           /\ x < Place(Octet, 4) =>
                  x = ((x \div Place(Octet, 0)) % Octet) + ((x \div Place(Octet, 1)) % Octet) * Place(Octet, 1)
                          + ((x \div Place(Octet, 2)) % Octet) * Place(Octet, 2) + ((x \div Place(Octet, 3)) % Octet) * Place(Octet, 3)
<1> DEFINE b == Octet
           p == Place(Octet, 2)
           q == Place(Octet, 3)
           r == Place(Octet, 4)
<1>1. /\ b \in Nat \ {0} /\ Place(Octet, 0) = 1 /\ Place(Octet, 1) = b /\ p = b * b
      /\ p \in Nat \ {0} /\ q \in Nat \ {0} /\ r \in Nat \ {0}
      /\ q = p * b /\ r = q * b
  BY BytePlaces
<1>2. x \div 1 = x
  OBVIOUS
<1> HIDE DEF b, p, q, r
<1>3. /\ x % (b * b) = (x % b) + ((x \div b) % b) * b
      /\ x % (p * b) = (x % p) + ((x \div p) % b) * p
      /\ x % (q * b) = (x % q) + ((x \div q) % b) * q
  <2>1. b \in Nat \ {0} /\ p \in Nat \ {0} /\ q \in Nat \ {0}
    BY <1>1
  <2> QED BY <2>1, DivTwice, Zenon
<1>4. x % p = (x % b) + ((x \div b) % b) * b
  BY <1>1, <1>3, Zenon
<1>5. x % q = (x % p) + ((x \div p) % b) * p
  BY <1>1, <1>3, Zenon
<1>6. x % r = (x % q) + ((x \div q) % b) * q
  BY <1>1, <1>3, Zenon
<1>7. (x < p => x % p = x) /\ (x < r => x % r = x)
  BY <1>1
<1>8. /\ x < p => x = (x % b) + ((x \div b) % b) * b
      /\ x < r => x = (x % b) + ((x \div b) % b) * b + ((x \div p) % b) * p + ((x \div q) % b) * q
  BY <1>4, <1>5, <1>6, <1>7, Zenon
<1>9. (x \div Place(Octet, 0)) % b = x % b /\ Place(Octet, 1) = b
  BY <1>1, <1>2, Zenon
<1> QED BY <1>8, <1>9, Zenon DEF b, p, q, r

\* The bytes of the command are bytes.
LEMMA LbaBytes ==
    ASSUME req.sector \in Nat
    PROVE  \A n \in 0 .. 5 : LbaByte(n) \in 0 .. Octet - 1
<1>1. Octet \in Nat \ {0} /\ Place(Octet, 4) \in Nat \ {0} /\ \A n \in 0 .. 6 : Place(Octet, n) \in Nat \ {0}
  BY BytePlaces
<1>2. sector_l \in Nat /\ sector_h \in Nat
  <2>1. req.sector % Place(Octet, 4) \in 0 .. Place(Octet, 4) - 1 /\ req.sector \div Place(Octet, 4) \in Nat
    BY <1>1, DivMod
  <2> QED BY <1>1, <2>1 DEF sector_l, sector_h
<1> SUFFICES ASSUME NEW n \in 0 .. 5 PROVE LbaByte(n) \in 0 .. Octet - 1
  OBVIOUS
<1>3. CASE n < 4
  <2>1. Place(Octet, n) \in Nat \ {0}
    BY <1>1
  <2>2. sector_l \div Place(Octet, n) \in Nat
    BY <1>2, <2>1, DivMod
  <2>3. LbaByte(n) = (sector_l \div Place(Octet, n)) % Octet
    BY <1>3 DEF LbaByte
  <2> QED BY <1>1, <2>2, <2>3, DivMod
<1>4. CASE ~(n < 4)
  <2>1. Place(Octet, n - 4) \in Nat \ {0}
    BY <1>1, <1>4
  <2>2. sector_h \div Place(Octet, n - 4) \in Nat
    BY <1>2, <2>1, DivMod
  <2>3. LbaByte(n) = (sector_h \div Place(Octet, n - 4)) % Octet
    BY <1>4 DEF LbaByte
  <2> QED BY <1>1, <2>2, <2>3, DivMod
<1> QED BY <1>3, <1>4

\* The drive reads the sector that was asked for.
LEMMA LbaIsSector ==
    ASSUME req.sector \in Nat, req.sector < Place(Octet, 6), fis.lba = [n \in 0 .. 5 |-> LbaByte(n)]
    PROVE  Lba = req.sector
<1> DEFINE s == req.sector
           f == Place(Octet, 4)
           b == Place(Octet, 1)
           d == [n \in 0 .. 5 |-> LbaByte(n)]
<1>1. /\ f \in Nat \ {0} /\ b \in Nat \ {0} /\ Place(Octet, 5) = f * b /\ Place(Octet, 2) \in Nat \ {0}
      /\ Place(Octet, 6) = f * Place(Octet, 2) /\ Place(Octet, 3) \in Nat
  BY BytePlaces
<1>2. sector_h \in Nat /\ sector_l \in 0 .. f - 1 /\ s = sector_h * f + sector_l
  BY <1>1, DivMod DEF sector_h, sector_l
<1>3. sector_h < Place(Octet, 2)
  <2> SUFFICES ASSUME Place(Octet, 2) <= sector_h PROVE FALSE
    BY <1>1, <1>2
  <2>1. Place(Octet, 2) * f <= sector_h * f
    BY <1>1, <1>2, MulMonotone
  <2> QED BY <1>1, <1>2, <2>1
<1>4. /\ d[0] = (sector_l \div Place(Octet, 0)) % Octet /\ d[1] = (sector_l \div Place(Octet, 1)) % Octet
      /\ d[2] = (sector_l \div Place(Octet, 2)) % Octet /\ d[3] = (sector_l \div Place(Octet, 3)) % Octet
      /\ d[4] = (sector_h \div Place(Octet, 0)) % Octet /\ d[5] = (sector_h \div Place(Octet, 1)) % Octet
  BY DEF LbaByte
<1>5. sector_l = d[0] + d[1] * Place(Octet, 1) + d[2] * Place(Octet, 2) + d[3] * Place(Octet, 3)
  <2>1. sector_l \in Nat /\ sector_l < Place(Octet, 4)
    BY <1>1, <1>2
  <2>2. sector_l = ((sector_l \div Place(Octet, 0)) % Octet) + ((sector_l \div Place(Octet, 1)) % Octet) * Place(Octet, 1)
                          + ((sector_l \div Place(Octet, 2)) % Octet) * Place(Octet, 2) + ((sector_l \div Place(Octet, 3)) % Octet) * Place(Octet, 3)
    BY <2>1, BytesGiveNumber, Zenon
  <2> QED BY <1>4, <2>2, Zenon
<1>6. sector_h = d[4] + d[5] * Place(Octet, 1)
  <2>2. sector_h = ((sector_h \div Place(Octet, 0)) % Octet) + ((sector_h \div Place(Octet, 1)) % Octet) * Place(Octet, 1)
    BY <1>2, <1>3, BytesGiveNumber, Zenon
  <2> QED BY <1>4, <2>2, Zenon
<1>7. \A n \in 0 .. 5 : d[n] \in Nat
  <2>1. \A n \in 0 .. 5 : d[n] = LbaByte(n)
    OBVIOUS
  <2> HIDE DEF d
  <2>2. Octet \in Nat
    BY BytePlaces
  <2> QED BY <2>1, <2>2, LbaBytes
<1>8. Lba = d[0] + d[1] * Place(Octet, 1) + d[2] * Place(Octet, 2) + d[3] * Place(Octet, 3) + d[4] * Place(Octet, 4) + d[5] * Place(Octet, 5)
  BY DEF Lba
<1>9. d[0] \in Nat /\ d[1] \in Nat /\ d[2] \in Nat /\ d[3] \in Nat /\ d[4] \in Nat /\ d[5] \in Nat
  BY <1>7
<1> HIDE DEF d, s, f, b
<1>10. sector_h * f = d[4] * f + d[5] * (f * b)
  <2>1. sector_h = d[4] + d[5] * b
    BY <1>6 DEF b
  <2> QED BY <1>1, <1>2, <1>9, <2>1
<1> DEFINE low == d[0] + d[1] * Place(Octet, 1) + d[2] * Place(Octet, 2) + d[3] * Place(Octet, 3)
           four == d[4] * f
           five == d[5] * (f * b)
           high == sector_h * f
<1>11. low \in Int /\ four \in Int /\ five \in Int /\ high \in Int
  BY <1>1, <1>2, <1>5, <1>9
<1>12. Lba = low + four + five
  BY <1>1, <1>8 DEF f
<1>13. high = four + five /\ sector_l = low /\ s = high + sector_l
  BY <1>2, <1>5, <1>10
<1> HIDE DEF low, four, five, high
<1>14. Lba = s
  BY <1>11, <1>12, <1>13
<1> QED BY <1>14 DEF s

\* ... and as many sectors.
LEMMA CountIsCount ==
    ASSUME req.count \in Nat, req.count < Place(Octet, 2),
           fis.count = [n \in 0 .. 1 |-> (req.count \div Place(Octet, n)) % Octet]
    PROVE  Count = req.count /\ \A n \in 0 .. 1 : fis.count[n] \in 0 .. Octet - 1
<1>1. Octet \in Nat \ {0} /\ Place(Octet, 1) = Octet /\ \A n \in 0 .. 1 : Place(Octet, n) \in Nat \ {0}
  BY BytePlaces
<1>2. req.count = ((req.count \div Place(Octet, 0)) % Octet) + ((req.count \div Place(Octet, 1)) % Octet) * Place(Octet, 1)
  BY BytesGiveNumber, Zenon
<1>3. fis.count[0] = (req.count \div Place(Octet, 0)) % Octet /\ fis.count[1] = (req.count \div Place(Octet, 1)) % Octet
  OBVIOUS
<1>4. Count = req.count
  BY <1>1, <1>2, <1>3, Zenon DEF Count
<1>5. ASSUME NEW n \in 0 .. 1 PROVE (req.count \div Place(Octet, n)) % Octet \in 0 .. Octet - 1
  <2>1. Place(Octet, n) \in Nat \ {0}
    BY <1>1
  <2>2. req.count \div Place(Octet, n) \in Nat
    BY <2>1, DivMod
  <2> QED BY <1>1, <2>2, DivMod
<1> QED BY <1>4, <1>5

\* A buffer is contiguous inside an entry.
LEMMA PagesFollow ==
    ASSUME NEW buffer \in Seq(Nat), NEW n \in Nat \ {0}, NEW e \in Nat,
           \A k \in 1 .. Len(buffer) - 1 : k % n # 0 => buffer[k + 1] = buffer[k] + 1
    PROVE  \A p \in 0 .. n - 1 :
               e * n + p + 1 <= Len(buffer) => buffer[e * n + p + 1] = buffer[e * n + 1] + p
<1> DEFINE ep == e * n
           S == {p \in Nat : p < n /\ ep + p + 1 <= Len(buffer) => buffer[ep + p + 1] = buffer[ep + 1] + p}
<1>1. ep \in Nat /\ Len(buffer) \in Nat /\ \A k \in 1 .. Len(buffer) : buffer[k] \in Nat
  OBVIOUS
<1>2. \A p \in 1 .. n - 1 : (ep + p) % n # 0
  <2> SUFFICES ASSUME NEW p \in 1 .. n - 1 PROVE (ep + p) % n # 0
    OBVIOUS
  <2>1. ep + p \in Nat /\ p \in 0 .. n - 1
    BY <1>1
  <2>2. (e * n + p) % n = p
    BY <2>1, DivIs, Zenon
  <2> QED BY <2>1, <2>2
<1> HIDE DEF ep
<1>3. 0 \in S
  <2>1. ep + 0 + 1 = ep + 1
    BY <1>1
  <2>2. ep + 1 <= Len(buffer) => buffer[ep + 1] \in Nat
    BY <1>1
  <2> QED BY <2>1, <2>2
<1>4. ASSUME NEW p \in Nat, p \in S PROVE p + 1 \in S
  <2> SUFFICES ASSUME p + 1 < n, ep + (p + 1) + 1 <= Len(buffer)
               PROVE  buffer[ep + (p + 1) + 1] = buffer[ep + 1] + (p + 1)
    OBVIOUS
  <2>1. ep + p + 1 \in 1 .. Len(buffer) - 1 /\ p + 1 \in 1 .. n - 1 /\ ep + (p + 1) = ep + p + 1
    BY <1>1
  <2>2. (ep + p + 1) % n # 0
    BY <1>2, <2>1
  <2>3. buffer[(ep + p + 1) + 1] = buffer[ep + p + 1] + 1
    BY <2>1, <2>2
  <2>4. buffer[ep + p + 1] = buffer[ep + 1] + p
    BY <1>1, <1>4, <2>1
  <2>5. buffer[ep + 1] \in Nat
    BY <1>1
  <2>6. ep + (p + 1) + 1 = (ep + p + 1) + 1
    BY <1>1
  <2> DEFINE v == buffer[ep + 1]
  <2>7. (v + p) + 1 = v + (p + 1)
    <3>1. v \in Nat
      BY <2>5
    <3> HIDE DEF v
    <3> QED BY <3>1
  <2> QED BY <2>3, <2>4, <2>6, <2>7
<1>5. Nat \subseteq S
  BY <1>3, <1>4, NatSetInduction
<1>6. \A p \in 0 .. n - 1 : p \in Nat /\ p < n
  OBVIOUS
<1> QED BY <1>5, <1>6 DEF ep

\* What a request asks for that fits into the PRDT.
RequestOK ==
    /\ req.sector \in Sectors /\ req.count \in Counts /\ req.buffer \in Buffers
    /\ req.write \in BOOLEAN
    /\ req.count <= PRDT_LEN * EntrySectors

\* The quotient says which entry a sector is in, and the start of the entry and
\* the remainder where the sector is.
LEMMA SectorInEntry ==
    ASSUME RequestOK, NEW k \in Nat, k < req.count
    PROVE  /\ k \div EntrySectors \in Nat /\ k % EntrySectors \in 0 .. EntrySectors - 1
           /\ BufferSector((k \div EntrySectors) * EntrySectors) \in Nat
           /\ BufferSector(k) = BufferSector((k \div EntrySectors) * EntrySectors) + (k % EntrySectors)
<1> DEFINE e == k \div EntrySectors
           j == k % EntrySectors
           n == EntrySectors \div PageSectors
           p == j \div PageSectors
           r == j % PageSectors
           buffer == req.buffer
<1>1. /\ EntrySectors \in Nat \ {0} /\ PageSectors \in Nat \ {0}
      /\ EntrySectors % PageSectors = 0
      /\ buffer \in Seq(Nat) /\ req.count \in Nat /\ req.count <= Len(buffer) * PageSectors
      /\ \A i \in 1 .. Len(buffer) - 1 : i % n # 0 => buffer[i + 1] = buffer[i] + 1
  <2>1. EntrySectors \in Nat \ {0} /\ PageSectors \in Nat \ {0} /\ EntrySectors % PageSectors = 0
    BY AhciAssumption, EntryAssumption
  <2>2. Counts \subseteq Nat
    BY AhciAssumption, BytePlaces
  <2>3. buffer \in Seq(Nat) /\ req.count <= Len(buffer) * PageSectors
    BY BufferAssumption DEF RequestOK
  <2>4. \A i \in 1 .. Len(buffer) - 1 : i % n # 0 => buffer[i + 1] = buffer[i] + 1
    BY BufferAssumption DEF RequestOK
  <2> QED BY <2>1, <2>2, <2>3, <2>4 DEF RequestOK
<1>2. e \in Nat /\ j \in 0 .. EntrySectors - 1 /\ k = e * EntrySectors + j
  BY <1>1, DivMod
<1>3. n \in Nat /\ EntrySectors = n * PageSectors
  BY <1>1, AlignedMultiple
<1>4. p \in Nat /\ r \in 0 .. PageSectors - 1 /\ j = p * PageSectors + r
  <2>1. j \in Nat
    BY <1>1, <1>2
  <2> HIDE DEF j
  <2> QED BY <1>1, <2>1, DivMod
<1> HIDE DEF e, j, n, p, r, buffer
<1>5. n # 0
  BY <1>1, <1>3
<1>6. p < n
  <2> SUFFICES ASSUME n <= p PROVE FALSE
    BY <1>3, <1>4
  <2>1. n * PageSectors <= p * PageSectors
    BY <1>1, <1>3, <1>4, MulMonotone
  <2>2. p * PageSectors \in Nat /\ EntrySectors <= p * PageSectors
    BY <1>1, <1>3, <1>4, <2>1
  <2> QED BY <1>1, <1>2, <1>4, <2>2
<1> DEFINE ep == e * n
<1>7. ep \in Nat /\ e * EntrySectors = ep * PageSectors /\ k = (ep + p) * PageSectors + r
  <2>1. ep \in Nat
    BY <1>2, <1>3
  <2>2. e * EntrySectors = ep * PageSectors
    BY <1>1, <1>2, <1>3
  <2>3. (ep + p) * PageSectors = ep * PageSectors + p * PageSectors
    BY <1>1, <1>4, <2>1
  <2> HIDE DEF ep
  <2>4. ep * PageSectors \in Nat /\ p * PageSectors \in Nat
    BY <1>1, <1>4, <2>1
  <2> QED BY <1>1, <1>2, <1>4, <2>1, <2>2, <2>3, <2>4
<1> HIDE DEF ep
<1>8. k \div PageSectors = ep + p /\ k % PageSectors = r
  <2> DEFINE w == ep + p
  <2>1. w \in Nat /\ k = w * PageSectors + r
    BY <1>4, <1>7
  <2> HIDE DEF w
  <2>2. (w * PageSectors + r) \div PageSectors = w /\ (w * PageSectors + r) % PageSectors = r
    BY <1>1, <1>4, <2>1, DivIs, Zenon
  <2> QED BY <2>1, <2>2, Zenon DEF w
<1>9. (ep * PageSectors) \div PageSectors = ep /\ (ep * PageSectors) % PageSectors = 0
  BY <1>1, <1>7, MultipleDiv
<1>10. ep + p + 1 <= Len(buffer)
  <2> SUFFICES ASSUME Len(buffer) <= ep + p PROVE FALSE
    BY <1>1, <1>4, <1>7
  <2> DEFINE w == ep + p
             l == Len(buffer)
  <2>1. l \in Nat /\ w \in Nat /\ l <= w /\ k = w * PageSectors + r /\ req.count <= l * PageSectors
    BY <1>1, <1>4, <1>7
  <2> HIDE DEF w, l
  <2>2. l * PageSectors <= w * PageSectors
    BY <1>1, <2>1, MulMonotone
  <2>3. w * PageSectors \in Nat /\ l * PageSectors \in Nat
    BY <1>1, <2>1
  <2> DEFINE x == w * PageSectors
             y == l * PageSectors
  <2>4. x \in Nat /\ y \in Nat /\ y <= x /\ k = x + r /\ req.count <= y /\ r \in Nat
        /\ req.count \in Nat /\ k < req.count
    BY <1>1, <1>4, <2>1, <2>2, <2>3
  <2> HIDE DEF x, y
  <2> QED BY <2>4
<1>11. buffer[ep + p + 1] = buffer[ep + 1] + p /\ buffer[ep + 1] \in Nat
  <2>1. p \in 0 .. n - 1 /\ n \in Nat \ {0}
    BY <1>3, <1>4, <1>5, <1>6
  <2>2. \A q \in 0 .. n - 1 :
            e * n + q + 1 <= Len(buffer) => buffer[e * n + q + 1] = buffer[e * n + 1] + q
    <3>1. \A i \in 1 .. Len(buffer) - 1 : i % n # 0 => buffer[i + 1] = buffer[i] + 1
      BY <1>1
    <3>2. buffer \in Seq(Nat) /\ n \in Nat \ {0} /\ e \in Nat
      BY <1>1, <1>2, <2>1
    <3> QED BY <3>1, <3>2, PagesFollow, Zenon
  <2>3. ep + 1 \in 1 .. Len(buffer)
    <3>1. Len(buffer) \in Nat
      BY <1>1
    <3> QED BY <1>4, <1>7, <1>10, <3>1
  <2> QED BY <1>1, <1>10, <2>1, <2>2, <2>3 DEF ep
<1>12. BufferSector(e * EntrySectors) = buffer[ep + 1] * PageSectors + 0
  BY <1>7, <1>9, Zenon DEF BufferSector, buffer
<1>13. BufferSector(k) = buffer[ep + p + 1] * PageSectors + r
  BY <1>8, Zenon DEF BufferSector, buffer
<1>14. buffer[ep + p + 1] * PageSectors = buffer[ep + 1] * PageSectors + p * PageSectors
  BY <1>1, <1>4, <1>11
<1>15. buffer[ep + 1] * PageSectors \in Nat /\ p * PageSectors \in Nat
  BY <1>1, <1>4, <1>11
<1>16. BufferSector(e * EntrySectors) \in Nat
  BY <1>12, <1>15
<1>17. BufferSector(k) = BufferSector(e * EntrySectors) + j
  BY <1>4, <1>12, <1>13, <1>14, <1>15
<1> QED BY <1>2, <1>16, <1>17 DEF e, j

-----------------------------------------------------------------------------
(* The command and the table describe the request, and the controller moves *)
(* one sector after the other.                                             *)

Busy == {"describe", "spin", "wait"}

\* The last entry holds the rest of the request.
EntryLength(e) ==
    IF e < prdt_len(req.count) THEN EntrySectors ELSE LastSectors(req.count)

Described ==
    /\ header = [write |-> req.write, prdt_len |-> prdt_len(req.count)]
    /\ fis = [cmd |-> IF req.write THEN "ATA_CMD_WRITE_DMA_EXT" ELSE "ATA_CMD_READ_DMA_EX",
              lba |-> [n \in 0 .. 5 |-> LbaByte(n)],
              count |-> [n \in 0 .. 1 |-> (req.count \div Place(Octet, n)) % Octet]]
    /\ prdt = [e \in 1 .. prdt_len(req.count) |->
                  [start |-> BufferSector((e - 1) * EntrySectors), sectors |-> EntryLength(e)]]

Wanted(k) == Moved(req.write, req.sector + k - 1, BufferSector(k - 1))

RequestInv == pc \in Busy => RequestOK
IssueInv == cmd_issue # {} => pc = "wait" \/ (pc = "failed to read" /\ tfes)
DescribedInv == pc \in {"spin", "wait"} => Described
DoneInv ==
    /\ pc \in {"describe", "spin"} => done = <<>>
    /\ pc = "wait" => /\ Len(done) <= req.count
                      /\ \A k \in 1 .. Len(done) : done[k] = Wanted(k)
                      /\ cmd_issue = {} => Len(done) = req.count
    /\ pc \notin Busy \cup Stops => done = [k \in 1 .. req.count |-> Wanted(k)]

TransferInv == AhciTypeOK /\ RequestInv /\ IssueInv /\ DescribedInv /\ DoneInv

\* The constants of a request.
LEMMA RequestTypes ==
    ASSUME RequestOK
    PROVE  /\ req.sector \in Nat /\ req.sector < Place(Octet, 6)
           /\ req.count \in Nat \ {0} /\ req.count < Place(Octet, 2)
           /\ EntrySectors \in Nat \ {0} /\ PRDT_LEN \in Nat \ {0} /\ EntryMax \in Nat
           /\ EntryMax >= EntrySectors
<1>1. /\ EntrySectors \in Nat \ {0} /\ PRDT_LEN \in Nat \ {0} /\ EntryMax \in Nat
      /\ EntryMax >= EntrySectors
  BY AhciAssumption, EntryAssumption
<1>2. Place(Octet, 6) \in Nat /\ Place(Octet, 2) \in Nat
  BY BytePlaces
<1>3. Sectors \subseteq 0 .. Place(Octet, 6) - 1 /\ Counts \subseteq 1 .. Place(Octet, 2) - 1
  BY AhciAssumption
<1>4. req.sector \in 0 .. Place(Octet, 6) - 1 /\ req.count \in 1 .. Place(Octet, 2) - 1
  BY <1>3 DEF RequestOK
<1> HIDE DEF Place
<1>5. /\ req.sector \in Nat /\ req.sector < Place(Octet, 6)
      /\ req.count \in Nat \ {0} /\ req.count < Place(Octet, 2)
  BY <1>2, <1>4
<1> QED BY <1>1, <1>5

\* A request has as many entries as it takes, and every sector of it a place in one.
LEMMA EntriesSuffice ==
    ASSUME RequestOK
    PROVE  /\ prdt_len(req.count) \in 1 .. PRDT_LEN
           /\ \A e \in Nat : EntryLength(e) \in Nat
           /\ \A k \in Nat : k < req.count =>
                  /\ k \div EntrySectors < prdt_len(req.count)
                  /\ k % EntrySectors < EntryLength(k \div EntrySectors + 1)
<1> DEFINE n == EntrySectors
           c == req.count
           q == (c - 1) \div n
           r == (c - 1) % n
<1>1. n \in Nat \ {0} /\ c \in Nat \ {0} /\ PRDT_LEN \in Nat \ {0} /\ EntryMax \in Nat /\ EntryMax >= n
      /\ c <= PRDT_LEN * n
  BY RequestTypes DEF RequestOK
<1>2. q \in Nat /\ r \in 0 .. n - 1 /\ c - 1 = q * n + r
  <2> DEFINE d == c - 1
  <2>1. d \in Nat
    BY <1>1
  <2> HIDE DEF d
  <2>2. d \div n \in Nat /\ d % n \in 0 .. n - 1 /\ d = (d \div n) * n + (d % n)
    BY <1>1, <2>1, DivMod
  <2> QED BY <2>2 DEF d
<1>3. prdt_len(c) = q + 1
  BY DEF prdt_len
<1> HIDE DEF q, r
<1> DEFINE x == q * n
<1>4. x \in Nat
  BY <1>1, <1>2
<1>5. q + 1 \in 1 .. PRDT_LEN
  <2> SUFFICES ASSUME PRDT_LEN <= q PROVE FALSE
    BY <1>1, <1>2
  <2>1. PRDT_LEN * n <= q * n
    BY <1>1, <1>2, MulMonotone
  <2> DEFINE y == PRDT_LEN * n
  <2>2. y \in Nat /\ y <= x /\ c <= y /\ c - 1 = x + r
    BY <1>1, <1>2, <2>1
  <2> HIDE DEF x, y
  <2> QED BY <1>1, <1>2, <1>4, <2>2
<1>6. c % n \in Nat /\ (c % n # 0 => c % n = r + 1)
  <2>1. CASE r + 1 = n
    <3>1. q + 1 \in Nat
      BY <1>2
    <3>2. (q + 1) * n = c
      BY <1>1, <1>2, <2>1
    <3>3. ((q + 1) * n) % n = 0
      BY <1>1, <3>1, MultipleDiv
    <3>4. c % n = 0
      BY <3>2, <3>3, Zenon
    <3> QED BY <3>4
  <2>2. CASE r + 1 # n
    <3>1. r + 1 \in 0 .. n - 1
      BY <1>1, <1>2, <2>2
    <3> DEFINE t == r + 1
    <3>2. c = q * n + t
      BY <1>1, <1>2
    <3>3. t \in 0 .. n - 1 /\ t \in Nat
      BY <3>1, <1>1, <1>2
    <3> HIDE DEF t
    <3>4. (q * n + t) % n = t
      BY <1>1, <1>2, <3>3, DivIs, Zenon
    <3>5. c % n = t
      BY <3>2, <3>4, Zenon
    <3> QED BY <3>3, <3>5 DEF t
  <2> QED BY <2>1, <2>2
<1>7. LastSectors(c) \in Nat /\ r < LastSectors(c) /\ (c % n = 0 => LastSectors(c) = EntryMax)
      /\ (c % n # 0 => LastSectors(c) = r + 1)
  BY <1>1, <1>2, <1>6 DEF LastSectors
<1>8. \A e \in Nat : EntryLength(e) \in Nat
  BY <1>1, <1>7 DEF EntryLength
<1>9. ASSUME NEW k \in Nat, k < c
      PROVE  /\ k \div n < q + 1
             /\ k % n < EntryLength(k \div n + 1)
  <2> DEFINE e == k \div n
             j == k % n
  <2>1. e \in Nat /\ j \in 0 .. n - 1 /\ k = e * n + j
    BY <1>1, DivMod
  <2> HIDE DEF e, j
  <2> DEFINE y == e * n
  <2>2. y \in Nat
    BY <1>1, <2>1
  <2>3. y + j <= x + r
    BY <1>1, <1>2, <1>9, <2>1
  <2>4. e <= q
    <3> SUFFICES ASSUME q + 1 <= e PROVE FALSE
      BY <1>2, <2>1
    <3>1. (q + 1) * n <= e * n
      BY <1>1, <1>2, <2>1, MulMonotone
    <3>2. (q + 1) * n = x + n
      BY <1>1, <1>2
    <3>3. x + n <= y
      BY <3>1, <3>2
    <3> HIDE DEF x, y
    <3> QED BY <1>1, <1>2, <1>4, <2>1, <2>2, <2>3, <3>3
  <2>5. CASE e < q
    <3>1. EntryLength(e + 1) = n
      BY <1>2, <1>3, <2>1, <2>5 DEF EntryLength
    <3> QED BY <1>1, <1>2, <2>1, <2>5, <3>1 DEF e, j
  <2>6. CASE e = q
    <3>1. EntryLength(e + 1) = LastSectors(c)
      BY <1>2, <1>3, <2>1, <2>6 DEF EntryLength
    <3>2. y = x
      BY <2>6
    <3> HIDE DEF x, y
    <3>3. j <= r
      BY <1>1, <1>2, <1>4, <2>1, <2>3, <3>2
    <3>4. j < LastSectors(c)
      BY <1>1, <1>2, <1>7, <2>1, <3>3
    <3>5. e < q + 1
      BY <1>2, <2>6
    <3> QED BY <3>1, <3>4, <3>5 DEF e, j
  <2> QED BY <1>2, <2>1, <2>4, <2>5, <2>6
<1> QED BY <1>3, <1>5, <1>8, <1>9

\* The entry and the place where the controller puts the next sector are the
\* ones where the buffer has it.
LEMMA NextSector ==
    ASSUME RequestOK, Described, NEW k \in Nat, k < req.count
    PROVE  /\ PlaceFor(k) < prdt[EntryFor(k)].sectors
           /\ prdt[EntryFor(k)].start + PlaceFor(k) = BufferSector(k)
           /\ BufferSector(k) \in Nat
<1> DEFINE n == EntrySectors
           e == k \div n
           j == k % n
           l == prdt_len(req.count)
<1>1. n \in Nat \ {0} /\ e \in Nat /\ j \in 0 .. n - 1 /\ k = e * n + j
  BY RequestTypes, DivMod
<1>2. l \in Nat /\ e < l /\ j < EntryLength(e + 1)
  BY EntriesSuffice
<1>3. BufferSector(e * n) \in Nat /\ BufferSector(k) = BufferSector(e * n) + j
  BY SectorInEntry
<1>4. header.prdt_len = l
  BY DEF Described
<1>5. prdt = [i \in 1 .. l |-> [start |-> BufferSector((i - 1) * n), sectors |-> EntryLength(i)]]
  BY DEF Described
<1> HIDE DEF e, j, l, n
<1>6. EntryFor(k) = e + 1 /\ e + 1 \in 1 .. l
  BY <1>1, <1>2, <1>4 DEF EntryFor, e, n
<1>7. (e + 1) - 1 = e
  BY <1>1
<1>8. PlaceFor(k) = j
  <2>1. PlaceFor(k) = k - e * n
    BY <1>6, <1>7 DEF PlaceFor, n
  <2>2. e * n \in Nat
    BY <1>1
  <2> DEFINE y == e * n
  <2>3. PlaceFor(k) = k - y /\ k = y + j /\ y \in Nat /\ j \in Nat
    BY <1>1, <2>1, <2>2
  <2> HIDE DEF y
  <2> QED BY <2>3
<1>9. prdt[e + 1] = [start |-> BufferSector(e * n), sectors |-> EntryLength(e + 1)]
  BY <1>5, <1>6, <1>7
<1>10. PlaceFor(k) < prdt[EntryFor(k)].sectors
  BY <1>2, <1>6, <1>8, <1>9
<1>11. prdt[EntryFor(k)].start + PlaceFor(k) = BufferSector(k)
  BY <1>3, <1>6, <1>8, <1>9
<1>12. BufferSector(k) \in Nat
  BY <1>1, <1>3
<1> QED BY <1>10, <1>11, <1>12

\* ... and both are numbers.
LEMMA NextSectorTypes ==
    ASSUME RequestOK, Described, NEW k \in Nat, k < req.count
    PROVE  PlaceFor(k) \in Int /\ prdt[EntryFor(k)].sectors \in Int
<1> DEFINE n == EntrySectors
           e == k \div n
           l == prdt_len(req.count)
<1>1. n \in Nat \ {0} /\ e \in Nat
  BY RequestTypes, DivMod
<1>2. l \in Nat /\ e < l /\ EntryLength(e + 1) \in Nat
  BY <1>1, EntriesSuffice
<1>3. header.prdt_len = l
  BY DEF Described
<1>4. prdt = [i \in 1 .. l |-> [start |-> BufferSector((i - 1) * n), sectors |-> EntryLength(i)]]
  BY DEF Described
<1> HIDE DEF l
<1>5. EntryFor(k) = e + 1
  BY <1>2, <1>3 DEF EntryFor
<1> HIDE DEF e
<1>6. e + 1 \in 1 .. l
  BY <1>1, <1>2
<1>7. prdt[e + 1].sectors = EntryLength(e + 1)
  BY <1>4, <1>6
<1>8. PlaceFor(k) \in Int
  BY <1>1, <1>5 DEF PlaceFor
<1> QED BY <1>2, <1>5, <1>7, <1>8

\* The command names the sectors and the direction of the request.
LEMMA CommandAsAsked ==
    ASSUME RequestOK, Described
    PROVE  Lba = req.sector /\ Count = req.count /\ Writes = req.write /\ header.write = req.write
<1>1. fis.lba = [n \in 0 .. 5 |-> LbaByte(n)]
      /\ fis.count = [n \in 0 .. 1 |-> (req.count \div Place(Octet, n)) % Octet]
  BY DEF Described
<1>2. Lba = req.sector
  BY <1>1, RequestTypes, LbaIsSector
<1>3. Count = req.count
  BY <1>1, RequestTypes, CountIsCount
<1>4. fis.cmd = IF req.write THEN "ATA_CMD_WRITE_DMA_EXT" ELSE "ATA_CMD_READ_DMA_EX"
  BY DEF Described
<1>5. Writes = req.write
  <2>1. CASE req.write = TRUE
    BY <1>4, <2>1 DEF Writes
  <2>2. CASE req.write = FALSE
    BY <1>4, <2>2 DEF Writes
  <2> QED BY <2>1, <2>2 DEF RequestOK
<1>6. header.write = req.write
  BY DEF Described
<1> QED BY <1>2, <1>3, <1>5, <1>6

\* A function on no numbers is the empty sequence.
LEMMA NoElements == ASSUME NEW f, f = [k \in 1 .. 0 |-> f[k]] PROVE f = <<>>
<1>1. f \in [1 .. 0 -> {}]
  OBVIOUS
<1>2. f \in Seq({}) /\ Len(f) = 0
  BY <1>1
<1> QED BY <1>2

\* The initial states satisfy TransferInv.
LEMMA InitTransferInv == AhciInit => TransferInv
<1> SUFFICES ASSUME AhciInit PROVE TransferInv
  OBVIOUS
<1>1. Octet \in Nat \ {0} /\ SlotCounts \subseteq 1 .. 32
  BY AhciAssumption
<1>2. PRDT_LEN \in Nat
  BY AhciAssumption
<1>3. fis \in FISRegH2D
  <2>1. fis = [cmd |-> "none", lba |-> [n \in 0 .. 5 |-> 0], count |-> [n \in 0 .. 1 |-> 0]]
    BY DEF AhciInit
  <2>2. 0 \in 0 .. Octet - 1
    BY <1>1
  <2> DEFINE B == 0 .. Octet - 1
  <2> HIDE DEF B
  <2>3. [n \in 0 .. 5 |-> 0] \in [0 .. 5 -> B] /\ [n \in 0 .. 1 |-> 0] \in [0 .. 1 -> B]
    BY <2>2 DEF B
  <2>4. fis \in [cmd : {"none", "ATA_CMD_READ_DMA_EX", "ATA_CMD_WRITE_DMA_EXT"},
                lba : [0 .. 5 -> B], count : [0 .. 1 -> B]]
    BY <2>1, <2>3
  <2> QED BY <2>4 DEF FISRegH2D, B
<1>4. header \in CMDHeader /\ prdt \in CMDTable /\ Len(prdt) = 0
  <2>1. header = [write |-> FALSE, prdt_len |-> 0] /\ prdt = <<>>
    BY DEF AhciInit
  <2>2. header \in CMDHeader
    BY <2>1 DEF CMDHeader
  <2> HIDE DEF CMDTable
  <2>3. <<>> \in Seq(PRDTEntry) /\ Len(<<>>) = 0
    OBVIOUS
  <2> QED BY <2>1, <2>2, <2>3 DEF CMDTable
<1>5. cmd \in [Ports -> SUBSET PORT_CMD]
  BY DEF AhciInit, PORT_CMD
<1>6. req \in [sector : {0} \cup Sectors, count : {0} \cup Counts, buffer : {<<>>} \cup Buffers,
               write : BOOLEAN, slot : 0 .. cmd_slots - 1]
  <2>1. req = [sector |-> 0, count |-> 0, buffer |-> <<>>, write |-> FALSE, slot |-> 0]
    BY DEF AhciInit
  <2>2. cmd_slots \in 1 .. 32
    BY <1>1 DEF AhciInit
  <2>3. 0 \in 0 .. cmd_slots - 1
    BY <2>2
  <2> QED BY <2>1, <2>3
<1>7. AhciTypeOK
  <2>1. cmd_slots \in SlotCounts /\ drives \subseteq Ports /\ base \in [Ports -> BOOLEAN]
        /\ pc = "next port" /\ port = NoPort /\ cmd_issue = {} /\ tfes \in BOOLEAN
    BY DEF AhciInit
  <2>2. devices = <<>> /\ tables = <<>> /\ done = <<>> /\ dma \in [pages : Nat, offset : Nat]
    BY DEF AhciInit
  <2>3. \A S : <<>> \in Seq(S)
    OBVIOUS
  <2>4. Len(<<>>) <= cmd_slots
    <3>1. cmd_slots \in 1 .. 32
      BY <1>1, <2>1
    <3>2. \A n \in 1 .. 32 : Len(<<>>) <= n
      OBVIOUS
    <3> QED BY <3>1, <3>2
  <2>5. devices \in Seq(drives) /\ tables \in Seq(Nat) /\ Len(tables) <= cmd_slots
        /\ done \in Seq([write : BOOLEAN, disk : Nat, memory : Nat])
    BY <2>2, <2>3, <2>4
  <2>6. Len(prdt) <= PRDT_LEN
    BY <1>2, <1>4
  <2> QED BY <1>3, <1>4, <1>5, <1>6, <2>1, <2>2, <2>5, <2>6 DEF AhciTypeOK
<1>8. done = [k \in 1 .. req.count |-> Wanted(k)]
  <2> DEFINE f == [k \in 1 .. req.count |-> Wanted(k)]
  <2>1. done = <<>> /\ req.count = 0
    BY DEF AhciInit
  <2>2. f = [k \in 1 .. 0 |-> f[k]]
    BY <2>1
  <2> HIDE DEF f
  <2> QED BY <2>1, <2>2, NoElements DEF f
<1> QED BY <1>7, <1>8 DEF AhciInit, TransferInv, RequestInv, IssueInv, DescribedInv, DoneInv, Busy

\* A step between requests leaves what the last one moved.
LEMMA BetweenRequests ==
    ASSUME TransferInv, AhciTypeOK', UNCHANGED request_vars,
           pc \notin Busy \cup Stops, pc' \notin Busy
    PROVE  TransferInv'
<1>1. cmd_issue = {}
  BY DEF TransferInv, IssueInv, Busy, Stops
<1>2. IssueInv' /\ RequestInv' /\ DescribedInv'
  BY <1>1 DEF IssueInv, RequestInv, DescribedInv, Busy, request_vars
<1>3. UNCHANGED <<done, req>>
  BY DEF request_vars
<1>4. done = [k \in 1 .. req.count |-> Wanted(k)]
  BY DEF TransferInv, DoneInv
<1>5. done' = [k \in 1 .. req'.count |-> Wanted(k)']
  BY <1>3, <1>4 DEF Wanted, Moved, BufferSector
<1>6. DoneInv'
  BY <1>5 DEF DoneInv, Busy
<1> QED BY <1>2, <1>6 DEF TransferInv

\* The memory of a device is a number of pages.
LEMMA DmaPagesType == ASSUME NEW slots \in 1 .. 32 PROVE DmaPages(slots) \in Nat
<1> DEFINE a == RoundUp(32 * slots, 256) + 256 + slots * CMD_TABLE_SIZE
<1>1. PAGE_SIZE \in Nat \ {0} /\ CMD_TABLE_SIZE \in Nat \ {0}
  BY AhciAssumption
<1>2. \A x \in Nat, unit \in Nat \ {0} : RoundUp(x, unit) \in Nat
  <2> SUFFICES ASSUME NEW x \in Nat, NEW unit \in Nat \ {0} PROVE RoundUp(x, unit) \in Nat
    OBVIOUS
  <2> DEFINE y == x + unit - 1
  <2>1. y \in Nat
    OBVIOUS
  <2> HIDE DEF y
  <2>2. y \div unit \in Nat
    BY <2>1, DivMod
  <2>3. (y \div unit) * unit \in Nat
    BY <2>2
  <2> QED BY <2>3 DEF RoundUp, y
<1>3. 32 * slots \in Nat /\ slots * CMD_TABLE_SIZE \in Nat
  BY <1>1
<1>4. RoundUp(32 * slots, 256) \in Nat
  BY <1>2, <1>3
<1>5. a \in Nat
  BY <1>3, <1>4
<1> HIDE DEF a
<1>6. RoundUp(a, PAGE_SIZE) \in Nat
  BY <1>1, <1>2, <1>5
<1>7. RoundUp(a, PAGE_SIZE) \div PAGE_SIZE \in Nat
  BY <1>1, <1>6, DivMod
<1> QED BY <1>7 DEF DmaPages, a

\* The steps that lay out the memory of a device keep its types.
LEMMA LayoutTypeOK ==
    ASSUME StopOK, AhciTypeOK, AllocDma \/ SetBases \/ SetTable
    PROVE  /\ devices' \in Seq(drives)
           /\ dma' \in [pages : Nat, offset : Nat]
           /\ tables' \in Seq(Nat) /\ Len(tables') <= cmd_slots
<1>1. cmd_slots \in 1 .. 32 /\ CMD_TABLE_SIZE \in Nat
  BY AhciAssumption DEF AhciTypeOK
<1>2. devices \in Seq(drives) /\ dma \in [pages : Nat, offset : Nat]
      /\ tables \in Seq(Nat) /\ Len(tables) <= cmd_slots
  BY DEF AhciTypeOK
<1>3. CASE AllocDma
  <2>1. /\ port \in drives /\ devices' = Append(devices, port) /\ tables' = <<>>
        /\ dma' = [pages |-> DmaPages(cmd_slots), offset |-> 0]
    BY <1>3 DEF AllocDma, StopOK, ShapeOK, Working, BeforeAlloc
  <2>2. devices' \in Seq(drives)
    BY <1>2, <2>1, AppendType
  <2>3. DmaPages(cmd_slots) \in Nat
    BY <1>1, DmaPagesType
  <2>4. <<>> \in Seq(Nat) /\ Len(<<>>) <= cmd_slots
    BY <1>1
  <2> QED BY <2>1, <2>2, <2>3, <2>4
<1>4. CASE SetBases
  <2>1. dma' = [dma EXCEPT !.offset = HeadersSize + FisSize] /\ UNCHANGED <<devices, tables>>
    BY <1>4 DEF SetBases
  <2>2. HeadersSize + FisSize \in Nat
    BY DEF HeadersSize, FisSize
  <2> QED BY <1>2, <2>1, <2>2
<1>5. CASE SetTable
  <2>1. /\ tables' = Append(tables, dma.offset) /\ Len(tables) < cmd_slots
        /\ dma' = [dma EXCEPT !.offset = @ + CMD_TABLE_SIZE] /\ devices' = devices
    BY <1>5 DEF SetTable
  <2>2. dma.offset \in Nat /\ dma.offset + CMD_TABLE_SIZE \in Nat
    BY <1>1, <1>2
  <2>3. dma' \in [pages : Nat, offset : Nat]
    BY <1>2, <2>1, <2>2
  <2>4. tables' \in Seq(Nat) /\ Len(tables') = Len(tables) + 1
    BY <1>2, <2>1, <2>2
  <2>5. Len(tables') <= cmd_slots
    <3>1. Len(tables) \in Nat /\ cmd_slots \in Nat
      BY <1>1, <1>2
    <3>2. \A l, n \in Nat : l < n => l + 1 <= n
      OBVIOUS
    <3> QED BY <2>1, <2>4, <3>1, <3>2
  <2> QED BY <1>2, <2>1, <2>3, <2>4, <2>5
<1> QED BY <1>3, <1>4, <1>5

\* The steps of the initialisation keep the types.
LEMMA InitialisationTypeOK ==
    ASSUME StopOK, AhciTypeOK,
           \/ NextPort \/ AllPortsDone \/ stop_cmd \/ StopDone \/ AllocDma \/ AllocDmaFails
           \/ SetBases \/ SetTable \/ NoPhysicalAddress \/ StartDone \/ start_cmd
    PROVE  /\ AhciTypeOK' /\ UNCHANGED request_vars
           /\ pc \notin Busy \cup Stops /\ pc' \notin Busy
<1> USE DEF AhciTypeOK, Goto, init_vars, request_vars, Busy, Stops
<1>0. SlotCounts \subseteq 1 .. 32 /\ {PAGE_SIZE, CMD_TABLE_SIZE} \subseteq Nat \ {0}
  BY AhciAssumption
<1>1. CASE NextPort
  BY <1>1 DEF NextPort
<1>2. CASE AllPortsDone
  BY <1>2 DEF AllPortsDone
<1>3. ASSUME NEW from \in {"stop", "stop fre"}, NEW bit, NEW to \in {"stop fre", "stop wait"},
             ClearBit(from, bit, to)
      PROVE  /\ AhciTypeOK' /\ UNCHANGED request_vars
             /\ pc \notin Busy \cup Stops /\ pc' \notin Busy
  BY <1>3 DEF ClearBit
<1>4. CASE StopDone
  BY <1>4 DEF StopDone
<1>5. CASE AllocDma
  BY <1>5, LayoutTypeOK DEF AllocDma
<1>6. CASE AllocDmaFails \/ NoPhysicalAddress
  BY <1>6 DEF AllocDmaFails, NoPhysicalAddress, GiveUp
<1>7. CASE SetBases
  BY <1>7, LayoutTypeOK DEF SetBases
<1>8. CASE SetTable
  BY <1>8, LayoutTypeOK DEF SetTable
<1>9. CASE StartDone
  BY <1>9 DEF StartDone
<1>10. ASSUME NEW from \in {"start fre", "start st"}, NEW bit \in PORT_CMD,
              NEW to \in {"start st", "next port"}, SetBit(from, bit, to)
       PROVE  /\ AhciTypeOK' /\ UNCHANGED request_vars
              /\ pc \notin Busy \cup Stops /\ pc' \notin Busy
  BY <1>10 DEF SetBit
<1>11. CASE stop_cmd
  BY <1>3, <1>11 DEF stop_cmd
<1>12. CASE start_cmd
  BY <1>10, <1>12 DEF start_cmd, PORT_CMD
<1> QED BY <1>1, <1>2, <1>4, <1>5, <1>6, <1>7, <1>8, <1>9, <1>11, <1>12

\* A request comes when no command is pending.
LEMMA RequestTransferInv ==
    ASSUME StopOK, TransferInv, Request
    PROVE  TransferInv'
<1>1. PICK d \in DOMAIN devices, sector \in Sectors, count \in Counts, buffer \in Buffers,
           write \in BOOLEAN :
          read_write_sectors(d, sector, count, buffer, write)
  BY DEF Request
<1>2. /\ pc = "idle"
      /\ port' = devices[d]
      /\ req' = [sector |-> sector, count |-> count, buffer |-> buffer, write |-> write,
                 slot |-> find_cmd_slot]
      /\ tfes' = FALSE /\ prdt' = <<>> /\ done' = <<>>
      /\ pc' = IF count <= PRDT_LEN * EntrySectors THEN "describe" ELSE "prdt too small"
      /\ UNCHANGED <<cmd_slots, drives, devices, dma, tables, cmd, base, header, fis, cmd_issue>>
  BY <1>1 DEF read_write_sectors, Goto, init_vars
<1>3. AhciTypeOK /\ cmd_issue = {}
  BY <1>2 DEF TransferInv, IssueInv
<1>4. find_cmd_slot \in 0 .. cmd_slots - 1
  <2>1. cmd_slots \in 1 .. 32
    BY <1>3, AhciAssumption DEF AhciTypeOK
  <2>2. 0 \in 0 .. cmd_slots - 1 /\ 0 \notin cmd_issue /\ \A r \in 0 .. 0 - 1 : r \in cmd_issue
    BY <1>3, <2>1
  <2> QED BY <2>2 DEF find_cmd_slot
<1>5. AhciTypeOK'
  <2>1. devices[d] \in drives /\ drives \subseteq Ports
    BY <1>3, ElementType DEF AhciTypeOK
  <2>2. req' \in [sector : {0} \cup Sectors, count : {0} \cup Counts, buffer : {<<>>} \cup Buffers,
                  write : BOOLEAN, slot : 0 .. cmd_slots - 1]
    BY <1>2, <1>4
  <2>3. <<>> \in CMDTable /\ Len(<<>>) <= PRDT_LEN
    BY AhciAssumption DEF CMDTable
  <2>4. <<>> \in Seq([write : BOOLEAN, disk : Nat, memory : Nat])
    OBVIOUS
  <2> QED BY <1>2, <1>3, <2>1, <2>2, <2>3, <2>4 DEF AhciTypeOK, Stops
<1>6. pc' = "describe" => RequestOK'
  BY <1>2 DEF RequestOK
<1>7. RequestInv' /\ IssueInv' /\ DescribedInv' /\ DoneInv'
  BY <1>2, <1>3, <1>6 DEF RequestInv, IssueInv, DescribedInv, DoneInv, Busy, Stops
<1> QED BY <1>5, <1>7 DEF TransferInv

\* The table and the command have their types.
LEMMA DescribeBufferTypes ==
    ASSUME RequestOK, DescribeBuffer
    PROVE  header' \in CMDHeader /\ fis' \in FISRegH2D /\ prdt' \in CMDTable /\ Len(prdt') <= PRDT_LEN
<1> DEFINE l == prdt_len(req.count)
           B == 0 .. Octet - 1
<1>1. /\ header' = [write |-> req.write, prdt_len |-> l]
      /\ fis' = [cmd |-> IF req.write THEN "ATA_CMD_WRITE_DMA_EXT" ELSE "ATA_CMD_READ_DMA_EX",
                 lba |-> [n \in 0 .. 5 |-> LbaByte(n)],
                 count |-> [n \in 0 .. 1 |-> (req.count \div Place(Octet, n)) % Octet]]
      /\ prdt' = [e \in 1 .. l |-> [start |-> BufferSector((e - 1) * EntrySectors),
                                    sectors |-> EntryLength(e)]]
  BY DEF DescribeBuffer, EntryLength
<1>2. l \in 1 .. PRDT_LEN /\ \A e \in Nat : EntryLength(e) \in Nat
  BY EntriesSuffice
<1>3. PRDT_LEN \in Nat /\ EntrySectors \in Nat \ {0} /\ req.count \in Nat \ {0}
  BY RequestTypes
<1>4. ASSUME NEW e \in 1 .. l
      PROVE  BufferSector((e - 1) * EntrySectors) \in Nat
  <2> DEFINE k == (e - 1) * EntrySectors
             i == e - 1
             q == (req.count - 1) \div EntrySectors
             c == req.count - 1
  <2>0. c \in Nat /\ l = q + 1
    BY <1>3 DEF prdt_len
  <2>1. i \in Nat /\ i <= q /\ q \in Nat /\ c \in Nat
    <3> HIDE DEF c, l
    <3>1. q \in Nat
      BY <1>3, <2>0, DivMod DEF c
    <3> HIDE DEF q
    <3> QED BY <2>0, <3>1
  <2>2. c \div EntrySectors \in Nat /\ c % EntrySectors \in 0 .. EntrySectors - 1
        /\ c = (c \div EntrySectors) * EntrySectors + (c % EntrySectors)
    <3> HIDE DEF c
    <3> QED BY <1>3, <2>1, DivMod
  <2>3. q * EntrySectors \in Nat /\ q * EntrySectors <= c
    <3> DEFINE x == q * EntrySectors
               r == c % EntrySectors
    <3>1. x \in Nat /\ r \in 0 .. EntrySectors - 1 /\ c = x + r
      <4>1. c = x + r /\ r \in 0 .. EntrySectors - 1
        BY <2>2, Zenon DEF c
      <4>2. x \in Nat
        <5> HIDE DEF q
        <5> QED BY <1>3, <2>1
      <4> QED BY <4>1, <4>2, Zenon
    <3> HIDE DEF x, r, c
    <3> QED BY <1>3, <2>1, <3>1 DEF x
  <2>4. i * EntrySectors <= q * EntrySectors /\ i * EntrySectors \in Nat
    <3> HIDE DEF i, q
    <3> QED BY <1>3, <2>1, MulMonotone
  <2>5. k \in Nat /\ k < req.count
    <3> HIDE DEF q, i
    <3>1. i * EntrySectors < req.count
      BY <1>3, <2>3, <2>4
    <3> QED BY <2>4, <3>1 DEF i
  <2>6. k \div EntrySectors = i
    <3> HIDE DEF i
    <3>1. (i * EntrySectors) \div EntrySectors = i
      BY <1>3, <2>1, MultipleDiv
    <3> QED BY <3>1 DEF i
  <2> HIDE DEF k
  <2>7. BufferSector((k \div EntrySectors) * EntrySectors) \in Nat
    BY <2>5, SectorInEntry
  <2> QED BY <2>6, <2>7
<1>5. ASSUME NEW n \in 0 .. 1 PROVE (req.count \div Place(Octet, n)) % Octet \in B
  <2>1. Place(Octet, n) \in Nat \ {0} /\ Octet \in Nat \ {0}
    BY BytePlaces
  <2>2. req.count \div Place(Octet, n) \in Nat
    BY <1>3, <2>1, DivMod
  <2> QED BY <2>1, <2>2, DivMod
<1>6. \A n \in 0 .. 5 : LbaByte(n) \in B
  BY RequestTypes, LbaBytes
<1>7. \A e \in 1 .. l : EntryLength(e) \in Nat
  BY <1>2
<1> HIDE DEF B, l
<1>8. fis' \in FISRegH2D
  <2>1. [n \in 0 .. 5 |-> LbaByte(n)] \in [0 .. 5 -> B]
    BY <1>6
  <2>2. [n \in 0 .. 1 |-> (req.count \div Place(Octet, n)) % Octet] \in [0 .. 1 -> B]
    BY <1>5
  <2>3. fis' \in [cmd : {"none", "ATA_CMD_READ_DMA_EX", "ATA_CMD_WRITE_DMA_EXT"},
                  lba : [0 .. 5 -> B], count : [0 .. 1 -> B]]
    BY <1>1, <2>1, <2>2
  <2> QED BY <2>3 DEF FISRegH2D, B
<1>9. header' \in CMDHeader
  BY <1>1, <1>2 DEF CMDHeader, RequestOK
<1>10. prdt' \in [1 .. l -> PRDTEntry]
  BY <1>1, <1>4, <1>7 DEF PRDTEntry
<1>11. prdt' \in Seq(PRDTEntry) /\ Len(prdt') = l
  BY <1>2, <1>10
<1> QED BY <1>2, <1>3, <1>8, <1>9, <1>11 DEF CMDTable

\* The buffer is described as Described says.
LEMMA DescribeTransferInv ==
    ASSUME TransferInv, DescribeBuffer
    PROVE  TransferInv'
<1>1. /\ pc = "describe" /\ pc' = "spin"
      /\ UNCHANGED <<init_vars, cmd, base, port, req, cmd_issue, tfes, done>>
  BY DEF DescribeBuffer, Goto
<1>2. AhciTypeOK /\ RequestOK /\ cmd_issue = {} /\ done = <<>>
  BY <1>1 DEF TransferInv, RequestInv, IssueInv, DoneInv, Busy
<1>3. AhciTypeOK'
  <2>1. header' \in CMDHeader /\ fis' \in FISRegH2D /\ prdt' \in CMDTable /\ Len(prdt') <= PRDT_LEN
    BY <1>2, DescribeBufferTypes
  <2> QED BY <1>1, <1>2, <2>1 DEF AhciTypeOK, init_vars
<1>4. RequestOK'
  BY <1>1, <1>2 DEF RequestOK
<1>5. Described'
  BY <1>1 DEF DescribeBuffer, Described, EntryLength, LbaByte, sector_l, sector_h, BufferSector,
              LastSectors, prdt_len
<1> QED BY <1>1, <1>2, <1>3, <1>4, <1>5
        DEF TransferInv, RequestInv, IssueInv, DescribedInv, DoneInv, Busy, Stops

\* While a command is described, issued or given up, nothing is moved.
LEMMA IssueTransferInv ==
    ASSUME TransferInv, IssueCommand \/ PortHung \/ CommandFailed
    PROVE  TransferInv'
<1>1. CASE IssueCommand
  <2>1. /\ pc = "spin" /\ pc' = "wait" /\ cmd_issue' = cmd_issue \cup {req.slot}
        /\ UNCHANGED <<init_vars, cmd, base, port, req, header, fis, prdt, tfes, done>>
    BY <1>1 DEF IssueCommand, Goto
  <2>2. AhciTypeOK /\ RequestOK /\ Described /\ done = <<>>
    BY <2>1 DEF TransferInv, RequestInv, DescribedInv, DoneInv, Busy
  <2>3. req.slot \in 0 .. cmd_slots - 1
    BY <2>2 DEF AhciTypeOK
  <2>4. AhciTypeOK'
    BY <2>1, <2>2, <2>3 DEF AhciTypeOK, init_vars
  <2>5. RequestOK' /\ Described'
    BY <2>1, <2>2 DEF RequestOK, Described, EntryLength, LbaByte, sector_l, sector_h, BufferSector,
              LastSectors, prdt_len
  <2>6. req.count \in Nat /\ Len(done) = 0
    BY <2>2, RequestTypes
  <2>7. Len(done) <= req.count /\ \A k \in 1 .. Len(done) : FALSE
    BY <2>6
  <2>8. DoneInv'
    BY <2>1, <2>7 DEF DoneInv, Busy
  <2> QED BY <2>1, <2>4, <2>5, <2>8 DEF TransferInv, RequestInv, IssueInv, DescribedInv
<1>2. CASE PortHung \/ CommandFailed
  <2>1. /\ pc \in {"spin", "wait"} /\ pc' \in {"port hung", "failed to read"}
        /\ pc = "spin" => pc' = "port hung"
        /\ pc = "wait" => pc' = "failed to read" /\ tfes
        /\ UNCHANGED <<init_vars, cmd, base, port, request_vars>>
    BY <1>2 DEF PortHung, CommandFailed, GiveUp, Goto
  <2>2. AhciTypeOK'
    BY <2>1 DEF TransferInv, AhciTypeOK, init_vars, request_vars, Stops
  <2>3. IssueInv'
    BY <2>1 DEF TransferInv, IssueInv, request_vars
  <2> QED BY <2>1, <2>2, <2>3 DEF TransferInv, RequestInv, DescribedInv, DoneInv, Busy, Stops
<1> QED BY <1>1, <1>2

\* A command that is done has moved every sector.
LEMMA CommandDoneTransferInv ==
    ASSUME TransferInv, CommandDone
    PROVE  TransferInv'
<1>1. /\ pc = "wait" /\ pc' = "idle" /\ cmd_issue = {}
      /\ UNCHANGED <<init_vars, cmd, base, port, request_vars>>
  BY DEF CommandDone, Goto
<1>2. AhciTypeOK /\ RequestOK /\ Len(done) = req.count /\ \A k \in 1 .. Len(done) : done[k] = Wanted(k)
  BY <1>1 DEF TransferInv, RequestInv, DoneInv, Busy
<1>3. AhciTypeOK'
  BY <1>1, <1>2 DEF AhciTypeOK, init_vars, request_vars
<1>4. done = [k \in 1 .. req.count |-> done[k]]
  <2>1. done \in Seq([write : BOOLEAN, disk : Nat, memory : Nat])
    BY <1>2 DEF AhciTypeOK
  <2> QED BY <1>2, <2>1
<1>5. done = [k \in 1 .. req.count |-> Wanted(k)]
  BY <1>2, <1>4
<1>6. done' = [k \in 1 .. req'.count |-> Wanted(k)']
  BY <1>1, <1>5 DEF Wanted, Moved, BufferSector, request_vars
<1>7. DoneInv'
  BY <1>1, <1>6 DEF DoneInv, Busy
<1> QED BY <1>1, <1>3, <1>7
        DEF TransferInv, RequestInv, IssueInv, DescribedInv, Busy, request_vars

\* The controller works only on a command that is waited for.
LEMMA ProcessingWaits ==
    ASSUME TransferInv, Processing
    PROVE  /\ pc = "wait" /\ AhciTypeOK /\ RequestOK /\ Described
           /\ Len(done) \in Nat /\ Len(done) <= req.count
           /\ \A k \in 1 .. Len(done) : done[k] = Wanted(k)
<1>1. pc = "wait"
  BY DEF TransferInv, IssueInv, Processing
<1>2. AhciTypeOK /\ RequestOK /\ Described /\ Len(done) <= req.count
      /\ \A k \in 1 .. Len(done) : done[k] = Wanted(k)
  BY <1>1 DEF TransferInv, RequestInv, DescribedInv, DoneInv, Busy
<1>3. Len(done) \in Nat
  <2>1. done \in Seq([write : BOOLEAN, disk : Nat, memory : Nat])
    BY <1>2 DEF AhciTypeOK
  <2> QED BY <2>1
<1> QED BY <1>1, <1>2, <1>3

\* The next sector is the next one wanted.
LEMMA TransferSectorTransferInv ==
    ASSUME TransferInv, TransferSector
    PROVE  TransferInv'
<1> DEFINE k == Len(done)
           D == [write : BOOLEAN, disk : Nat, memory : Nat]
<1>1. /\ Processing /\ k < Count
      /\ done' = Append(done, Moved(Writes, Lba + k, prdt[EntryFor(k)].start + PlaceFor(k)))
      /\ UNCHANGED <<init_vars, cmd, base, pc, port, req, header, fis, prdt, cmd_issue, tfes>>
  BY DEF TransferSector
<1>2. /\ pc = "wait" /\ AhciTypeOK /\ RequestOK /\ Described /\ k \in Nat /\ k <= req.count
      /\ \A i \in 1 .. k : done[i] = Wanted(i)
  BY <1>1, ProcessingWaits
<1>3. Lba = req.sector /\ Count = req.count /\ Writes = req.write
  BY <1>2, CommandAsAsked
<1>4. k < req.count
  BY <1>1, <1>3
<1>5. prdt[EntryFor(k)].start + PlaceFor(k) = BufferSector(k) /\ BufferSector(k) \in Nat
  BY <1>2, <1>4, NextSector
<1>6. req.sector \in Nat /\ req.count \in Nat /\ req.write \in BOOLEAN
  BY <1>2, RequestTypes DEF RequestOK
<1> DEFINE w == Moved(req.write, req.sector + k, BufferSector(k))
<1>7. done' = Append(done, w)
  BY <1>1, <1>3, <1>5
<1>8. w = Wanted(k + 1)
  <2>1. (k + 1) - 1 = k /\ req.sector + (k + 1) - 1 = req.sector + k
    BY <1>2, <1>6
  <2> HIDE DEF k
  <2> QED BY <2>1, Zenon DEF Wanted
<1>9. w \in D
  <2>1. req.sector + k \in Nat
    BY <1>2, <1>6
  <2> QED BY <1>5, <1>6, <2>1 DEF Moved
<1>10. done \in Seq(D)
  BY <1>2 DEF AhciTypeOK
<1> HIDE DEF D, w
<1>11. /\ done' \in Seq(D) /\ Len(done') = k + 1 /\ done'[k + 1] = w
       /\ \A i \in 1 .. k : done'[i] = done[i]
  BY <1>7, <1>9, <1>10
<1>12. AhciTypeOK'
  BY <1>1, <1>2, <1>11 DEF AhciTypeOK, init_vars, D
<1>13. RequestOK' /\ Described'
  BY <1>1, <1>2 DEF RequestOK, Described, EntryLength, LbaByte, sector_l, sector_h, BufferSector,
            LastSectors, prdt_len
<1>14. \A i \in 1 .. Len(done') : done'[i] = Wanted(i)
  <2> SUFFICES ASSUME NEW i \in 1 .. k + 1 PROVE done'[i] = Wanted(i)
    BY <1>11
  <2>1. CASE i = k + 1
    BY <1>8, <1>11, <2>1
  <2>2. CASE i # k + 1
    <3>1. i \in 1 .. k
      BY <1>2, <2>2
    <3> QED BY <1>2, <1>11, <3>1
  <2> QED BY <2>1, <2>2
<1>15. \A i \in 1 .. Len(done') : done'[i] = Wanted(i)'
  BY <1>1, <1>14 DEF Wanted, Moved, BufferSector
<1>16. Len(done') <= req'.count
  <2>1. k + 1 <= req.count
    BY <1>2, <1>4, <1>6
  <2> QED BY <1>1, <1>11, <2>1
<1>17. cmd_issue' # {}
  BY <1>1 DEF Processing
<1>18. DoneInv'
  BY <1>1, <1>2, <1>15, <1>16, <1>17 DEF DoneInv, Busy
<1> QED BY <1>1, <1>2, <1>12, <1>13, <1>18 DEF TransferInv, RequestInv, IssueInv, DescribedInv

\* The controller ends a command only when it has moved every sector.
LEMMA CompleteTransferInv ==
    ASSUME TransferInv, CompleteCommand
    PROVE  TransferInv'
<1> DEFINE k == Len(done)
<1>1. /\ Processing
      /\ k = Count \/ Writes # header.write \/ PlaceFor(k) >= prdt[EntryFor(k)].sectors
      /\ cmd_issue' = {}
      /\ UNCHANGED <<init_vars, cmd, base, pc, port, req, header, fis, prdt, tfes, done>>
  BY DEF CompleteCommand
<1>2. /\ pc = "wait" /\ AhciTypeOK /\ RequestOK /\ Described /\ k \in Nat /\ k <= req.count
      /\ \A i \in 1 .. k : done[i] = Wanted(i)
  BY <1>1, ProcessingWaits
<1>3. Count = req.count /\ Writes = header.write
  BY <1>2, CommandAsAsked
<1>4. k = req.count
  <2> SUFFICES ASSUME k < req.count PROVE FALSE
    BY <1>2, RequestTypes
  <2>1. PlaceFor(k) < prdt[EntryFor(k)].sectors
    BY <1>2, NextSector
  <2>2. PlaceFor(k) \in Int /\ prdt[EntryFor(k)].sectors \in Int
    BY <1>2, NextSectorTypes
  <2>3. PlaceFor(k) >= prdt[EntryFor(k)].sectors
    BY <1>1, <1>2, <1>3, RequestTypes
  <2> QED BY <2>1, <2>2, <2>3
<1>5. AhciTypeOK'
  BY <1>1, <1>2 DEF AhciTypeOK, init_vars
<1>6. RequestOK' /\ Described'
  BY <1>1, <1>2 DEF RequestOK, Described, EntryLength, LbaByte, sector_l, sector_h, BufferSector,
            LastSectors, prdt_len
<1>7. \A i \in 1 .. Len(done') : done'[i] = Wanted(i)'
  BY <1>1, <1>2 DEF Wanted, Moved, BufferSector
<1>8. DoneInv'
  BY <1>1, <1>2, <1>4, <1>7 DEF DoneInv, Busy
<1> QED BY <1>1, <1>2, <1>5, <1>6, <1>8 DEF TransferInv, RequestInv, IssueInv, DescribedInv

\* A command that fails, and an engine that follows its bit, move nothing.
LEMMA StandTransferInv ==
    ASSUME TransferInv, FailCommand \/ Engines \/ UNCHANGED ahciVars
    PROVE  TransferInv'
<1>1. /\ UNCHANGED <<init_vars, base, pc, port, req, header, fis, prdt, cmd_issue, done>>
      /\ cmd' \in [Ports -> SUBSET PORT_CMD] /\ tfes' \in BOOLEAN /\ (tfes => tfes')
  <2>0. AhciTypeOK
    BY DEF TransferInv
  <2>1. CASE FailCommand
    BY <2>0, <2>1 DEF FailCommand, AhciTypeOK
  <2>2. CASE Engines
    <3>1. ASSUME NEW p \in Ports, NEW order, NEW report \in PORT_CMD, EngineFollows(p, order, report)
          PROVE  cmd' \in [Ports -> SUBSET PORT_CMD]
                 /\ UNCHANGED <<init_vars, base, pc, port, request_vars>>
      BY <2>0, <3>1 DEF EngineFollows, AhciTypeOK
    <3>2. "CR" \in PORT_CMD /\ "FR" \in PORT_CMD
      BY DEF PORT_CMD
    <3> QED BY <2>0, <2>2, <3>1, <3>2 DEF Engines, request_vars, AhciTypeOK
  <2>3. CASE UNCHANGED ahciVars
    BY <2>0, <2>3 DEF ahciVars, request_vars, AhciTypeOK
  <2> QED BY <2>1, <2>2, <2>3
<1>2. AhciTypeOK'
  BY <1>1 DEF TransferInv, AhciTypeOK, init_vars
<1>3. RequestOK' <=> RequestOK
  BY <1>1 DEF RequestOK
<1>4. Described' <=> Described
  BY <1>1 DEF Described, EntryLength, LbaByte, sector_l, sector_h, BufferSector, LastSectors, prdt_len
<1>5. \A k : Wanted(k)' = Wanted(k)
  BY <1>1 DEF Wanted, Moved, BufferSector
<1>6. DoneInv'
  BY <1>1, <1>5 DEF TransferInv, DoneInv
<1>7. RequestInv' /\ DescribedInv' /\ IssueInv'
  BY <1>1, <1>3, <1>4 DEF TransferInv, RequestInv, DescribedInv, IssueInv
<1> QED BY <1>2, <1>6, <1>7 DEF TransferInv

\* Every step preserves TransferInv.
LEMMA NextTransferInv == StopOK /\ TransferInv /\ [AhciNext]_ahciVars => TransferInv'
<1> SUFFICES ASSUME StopOK, TransferInv, [AhciNext]_ahciVars PROVE TransferInv'
  OBVIOUS
<1>1. CASE \/ NextPort \/ AllPortsDone \/ stop_cmd \/ StopDone \/ AllocDma \/ AllocDmaFails
           \/ SetBases \/ SetTable \/ NoPhysicalAddress \/ StartDone \/ start_cmd
  <2>1. AhciTypeOK
    BY DEF TransferInv
  <2> QED BY <1>1, <2>1, InitialisationTypeOK, BetweenRequests
<1>2. CASE Request
  BY <1>2, RequestTransferInv
<1>3. CASE DescribeBuffer
  BY <1>3, DescribeTransferInv
<1>4. CASE IssueCommand \/ PortHung \/ CommandFailed
  BY <1>4, IssueTransferInv
<1>5. CASE CommandDone
  BY <1>5, CommandDoneTransferInv
<1>6. CASE TransferSector
  BY <1>6, TransferSectorTransferInv
<1>7. CASE CompleteCommand
  BY <1>7, CompleteTransferInv
<1>8. CASE FailCommand \/ Engines \/ UNCHANGED ahciVars
  BY <1>8, StandTransferInv
<1> QED BY <1>1, <1>2, <1>3, <1>4, <1>5, <1>6, <1>7, <1>8 DEF AhciNext, Driver, Controller, Stopped

\* TransferExact: whatever the sector, the count, the buffer and the sizes of
\* entries and pages are, read_write_sectors returns only when every sector
\* asked for has been moved between its place on the drive and its place in
\* the caller's buffer, in the direction asked for, and nothing else was.
THEOREM AhciTransferExact == AhciSpec => []TransferExact
<1>1. StopOK /\ TransferInv => TransferExact
  <2> SUFFICES ASSUME TransferInv PROVE TransferExact
    OBVIOUS
  <2>1. pc = "idle" => done = [k \in 1 .. req.count |-> Wanted(k)]
    BY DEF TransferInv, DoneInv, Busy, Stops
  <2> QED BY <2>1 DEF TransferInv, TransferExact, Wanted
<1> QED BY <1>1, InitStopOK, NextStopOK, InitTransferInv, NextTransferInv, PTL DEF AhciSpec
=============================================================================
