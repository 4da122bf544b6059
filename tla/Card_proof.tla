---------------------------- MODULE Card_proof ------------------------------
(***************************************************************************)
(* Proofs about the two ways in which a host commands a card: Lbp, until   *)
(* the card's system runs, and Agent after that.  For any callers, calls   *)
(* and faults: what a handshake keeps is what it asked for, a call that    *)
(* says that it succeeded had its commands done, and a command given to an *)
(* agent that owes nothing is not told another one's answer.               *)
(***************************************************************************)
EXTENDS Lbp, SequenceTheorems, TLAPS

-----------------------------------------------------------------------------
(* Scripts of the boot protocol.  What the lock protects comes after a     *)
(* step that takes it and before the one that leaves it.                   *)

StepNames == {"lock", "unlock", "require", "data", "cmd", "consumed", "state", "fetch", "e5",
              "forget", "reinit", "irq", "linked", "version", "keep", "copy", "any_state",
              "error", "no_error", "cached", "rcvy", "pulse", "down"}
Words == Commands \cup Values \cup Flags
Readiness == {"NOT_READY", "WAITING_FOR_IRQ", "READY"}

(* The argument of a step that writes is the one value it writes.          *)
Fits(s) ==
    /\ s.do \in {"lock", "unlock"} => s.arg = {}
    /\ s.do = "cmd" => s.arg = {} \/ \E c \in Commands : s.arg = {c}
    /\ s.do = "data" => \E v \in Values : s.arg = {v}
    /\ s.do \in {"keep", "cached"} => \E p \in Cached : s.arg = {p}
    /\ s.do = "e5" => \E e \in Readiness : s.arg = {e}

Steps == {s \in [do : StepNames, arg : SUBSET (Words \cup Readiness)] : Fits(s)}

Free == {"lock", "forget", "e5"}        \* done without the lock

(* The lock is left before it is taken, or is not left unless taken.       *)
Inside(s, k) == \E j \in k..Len(s) : s[j].do = "unlock" /\ \A m \in k..j : s[m].do # "lock"
Outside(s, k) == \A j \in k..Len(s) : s[j].do = "unlock" => \E m \in k..j : s[m].do = "lock"

Bracketed(s) ==
    \A i \in 1..Len(s) :
        /\ s[i].do = "lock" => Inside(s, i + 1)
        /\ s[i].do = "unlock" => Outside(s, i + 1)
        /\ s[i].do \notin Free => Inside(s, i)

Plain(s) == s.do \notin {"lock", "unlock"}
KeepsNothing(s) == \A i \in 1..Len(s) : s[i].do # "keep"

LEMMA OneBlock ==
    ASSUME NEW s, NEW n \in Nat, Len(s) = n, NEW l \in 1..n, l < n,
           s[l].do = "lock", s[n].do = "unlock",
           \A i \in 1..l - 1 : s[i].do \in {"forget", "e5"},
           \A i \in l + 1..n - 1 : Plain(s[i])
    PROVE  Bracketed(s) /\ Outside(s, 1)
<1> USE DEF Plain
<1>1. \A i \in 1..n : s[i].do = "unlock" => i = n
  OBVIOUS
<1>2. \A i \in 1..n : s[i].do = "lock" => i = l
  OBVIOUS
<1>3. \A i \in l + 1..n : Inside(s, i)
  BY <1>2 DEF Inside
<1>4. \A i \in 1..n : s[i].do \notin Free => i \in l + 1..n
  BY DEF Free
<1>5. Outside(s, 1) /\ Outside(s, n + 1)
  BY <1>1 DEF Outside
<1> QED  BY <1>1, <1>2, <1>3, <1>4, <1>5 DEF Bracketed

(* What is left of a script after its first step.                          *)
LEMMA RestBracketed ==
    ASSUME NEW s \in Seq(Steps), s # <<>>, Bracketed(s)
    PROVE  /\ Bracketed(Tail(s))
           /\ Head(s).do = "lock" => Inside(Tail(s), 1)
           /\ Head(s).do = "unlock" => Outside(Tail(s), 1)
           /\ Plain(Head(s)) /\ Inside(s, 1) => Inside(Tail(s), 1)
           /\ Plain(Head(s)) /\ Outside(s, 1) => Outside(Tail(s), 1)
<1>1. PICK n \in Nat : n = Len(s) /\ n > 0 /\ Len(Tail(s)) = n - 1
  OBVIOUS
<1>2. \A i \in 1..n - 1 : Tail(s)[i] = s[i + 1]
  BY <1>1
<1>3. Head(s) = s[1]
  OBVIOUS
<1> DEFINE t == Tail(s)
<1>4. Len(t) = n - 1 /\ \A i \in 1..n - 1 : t[i] = s[i + 1]
  BY <1>1, <1>2
<1> HIDE DEF t
<1>5. \A i \in 1..n : /\ s[i].do = "lock" => Inside(s, i + 1)
                      /\ s[i].do = "unlock" => Outside(s, i + 1)
                      /\ s[i].do \notin Free => Inside(s, i)
  BY <1>1 DEF Bracketed
<1>6. ASSUME NEW i \in 1..n, Inside(s, i + 1)
      PROVE  Inside(t, i)
  <2>1. PICK j \in i + 1..n : s[j].do = "unlock" /\ \A m \in i + 1..j : s[m].do # "lock"
    BY <1>1, <1>6 DEF Inside
  <2>2. j - 1 \in i..n - 1 /\ t[j - 1].do = "unlock"
    BY <1>4, <2>1
  <2>3. ASSUME NEW m \in i..j - 1
        PROVE  t[m].do # "lock"
    <3>1. m \in 1..n - 1 /\ m + 1 \in i + 1..j
      BY <2>1
    <3> QED  BY <1>4, <2>1, <3>1
  <2> QED  BY <1>4, <2>2, <2>3 DEF Inside
<1>7. ASSUME NEW i \in 1..n, Outside(s, i + 1)
      PROVE  Outside(t, i)
  <2> SUFFICES ASSUME NEW j \in i..n - 1, t[j].do = "unlock"
               PROVE  \E m \in i..j : t[m].do = "lock"
    BY <1>4 DEF Outside
  <2>1. j + 1 \in i + 1..n /\ s[j + 1].do = "unlock"
    BY <1>4
  <2>2. PICK m \in i + 1..j + 1 : s[m].do = "lock"
    BY <1>1, <1>7, <2>1 DEF Outside
  <2>3. m - 1 \in i..j /\ m - 1 \in 1..n - 1 /\ (m - 1) + 1 = m
    BY <2>2
  <2>4. t[m - 1] = s[m]
    BY <1>4, <2>3
  <2> QED  BY <2>2, <2>3, <2>4
<1>8. Bracketed(t)
  <2> SUFFICES ASSUME NEW i \in 1..n - 1
               PROVE  /\ t[i].do = "lock" => Inside(t, i + 1)
                      /\ t[i].do = "unlock" => Outside(t, i + 1)
                      /\ t[i].do \notin Free => Inside(t, i)
    BY <1>4 DEF Bracketed
  <2>1. i \in 1..n /\ i + 1 \in 1..n /\ t[i] = s[i + 1]
    BY <1>4
  <2> QED  BY <1>5, <1>6, <1>7, <2>1
<1>9. 1 \in 1..n
  BY <1>1
<1>10. s[1].do \notin {"lock", "unlock"} /\ Inside(s, 1) => Inside(s, 2)
  <2> SUFFICES ASSUME s[1].do \notin {"lock", "unlock"}, Inside(s, 1)
               PROVE  Inside(s, 2)
    OBVIOUS
  <2>1. PICK j \in 1..n : s[j].do = "unlock" /\ \A m \in 1..j : s[m].do # "lock"
    BY <1>1 DEF Inside
  <2> QED  BY <1>1, <2>1 DEF Inside
<1>11. s[1].do \notin {"lock", "unlock"} /\ Outside(s, 1) => Outside(s, 2)
  <2> SUFFICES ASSUME s[1].do \notin {"lock", "unlock"}, Outside(s, 1),
                      NEW j \in 2..n, s[j].do = "unlock"
               PROVE  \E m \in 2..j : s[m].do = "lock"
    BY <1>1 DEF Outside
  <2>1. PICK m \in 1..j : s[m].do = "lock"
    BY <1>1 DEF Outside
  <2> QED  BY <2>1
<1>12. 1 + 1 = 2
  OBVIOUS
<1> QED  BY <1>3, <1>5, <1>6, <1>7, <1>8, <1>9, <1>10, <1>11, <1>12 DEF t, Plain
LEMMA StepsFit ==
    /\ Lock \in Steps /\ Unlock \in Steps /\ Require \in Steps /\ Consumed \in Steps
    /\ \A d \in StepNames \ {"lock", "unlock", "data", "keep", "cached", "e5"} : Step(d, {}) \in Steps
    /\ \A v \in Values : Data(v) \in Steps /\ Fetch(v) \in Steps
    /\ \A c \in Commands : Command(c) \in Steps
    /\ \A p \in Cached : Step("keep", {p}) \in Steps /\ Step("cached", {p}) \in Steps
    /\ \A c \in Commands : Step("fetch", {c}) \in Steps
    /\ \A m \in SUBSET Flags : State(m) \in Steps /\ Step("any_state", m) \in Steps
    /\ \A e \in Readiness : E5(e) \in Steps
<1> USE DEF Fits, Steps, StepNames, Step
<1>1. Lock \in Steps /\ Unlock \in Steps /\ Consumed \in Steps
  BY DEF Lock, Unlock, Consumed
<1>2. Require \in Steps
  BY DEF Require, Words, Flags
<1>3. \A d \in StepNames \ {"lock", "unlock", "data", "keep", "cached", "e5"} : Step(d, {}) \in Steps
  OBVIOUS
<1>4. \A v \in Values : Data(v) \in Steps /\ Fetch(v) \in Steps
  BY DEF Data, Fetch, Words
<1>5. \A c \in Commands : Command(c) \in Steps
  BY DEF Command, Words
<1>6. \A p \in Cached : Step("keep", {p}) \in Steps /\ Step("cached", {p}) \in Steps
  BY DEF Words, Commands
<1>7. \A c \in Commands : Step("fetch", {c}) \in Steps
  BY DEF Words
<1>8. \A m \in SUBSET Flags : State(m) \in Steps /\ Step("any_state", m) \in Steps
  BY DEF State, Words
<1>9. \A e \in Readiness : E5(e) \in Steps
  BY DEF E5
<1> QED  BY <1>1, <1>2, <1>3, <1>4, <1>5, <1>6, <1>7, <1>8, <1>9

(* Steps without the lock's own, and those of all calls but the handshake. *)
Body == {s \in Steps : Plain(s) /\ s.do # "keep"}

WellFormed(s) == s \in Seq(Steps) /\ Len(s) > 0 /\ Bracketed(s) /\ Outside(s, 1)

LEMMA BodyHas ==
    /\ Require \in Body /\ Consumed \in Body
    /\ \A d \in {"version", "copy", "error", "rcvy", "pulse", "down"} : Step(d, {}) \in Body
    /\ \A v \in Values : Data(v) \in Body /\ Fetch(v) \in Body
    /\ \A c \in Commands : Command(c) \in Body /\ Step("fetch", {c}) \in Body
    /\ Step("cached", {"BIOS_BUILD_DATE"}) \in Body
    /\ \A m \in SUBSET Flags : State(m) \in Body /\ Step("any_state", m) \in Body
<1> USE StepsFit DEF Body, Plain
<1>1. Require \in Body /\ Consumed \in Body
  BY DEF Require, Consumed, Step
<1>2. \A d \in {"version", "copy", "error", "rcvy", "pulse", "down"} : Step(d, {}) \in Body
  BY DEF Step, StepNames
<1>3. \A v \in Values : Data(v) \in Body /\ Fetch(v) \in Body
  BY DEF Data, Fetch, Step
<1>4. \A c \in Commands : Command(c) \in Body /\ Step("fetch", {c}) \in Body
  BY DEF Command, Step
<1>5. Step("cached", {"BIOS_BUILD_DATE"}) \in Body
  BY DEF Cached, Step
<1>6. \A m \in SUBSET Flags : State(m) \in Body /\ Step("any_state", m) \in Body
  BY DEF State, Step
<1> QED  BY <1>1, <1>2, <1>3, <1>4, <1>5, <1>6

(* The words the scripts use.                                              *)
LEMMA Vocabulary ==
    /\ {"time", "size", "address", "mac", "devpage", "value", "ddr_size", "cpuid"} \subseteq Values
    /\ {"SET_TIME", "GET_MAC_ADDR", "MAP_RAMDISK", "BOOT_RAMDISK", "BOOT_BLOCK_IO", "BOOT_LOADER",
        "FLASH", "SET_PARAM", "CLEAR_ERROR", "BIOS_BUILD_DATE", "BIOS_VER",
        "CPU_MAX_FREQ_NON_TURBO"} \subseteq Commands
    /\ {"READY"} \subseteq Flags /\ {"DONE"} \cup Errors \subseteq Flags
    /\ {"BOOTING", "OS_READY"} \cup Errors \subseteq Flags
    /\ {"BOOTING_BLOCK_IO", "OS_READY"} \cup Errors \subseteq Flags
    /\ {"BOOTING"} \cup Errors \subseteq Flags /\ {"FLASHING"} \cup Errors \subseteq Flags
    /\ Cached \subseteq Commands /\ Cached \subseteq Values
  BY DEF Values, Commands, Flags, Errors, Cached

LEMMA PiecesFit ==
    /\ SetTimeNoMutex \in Seq(Steps) /\ SendRamdisk \in Seq(Steps) /\ GetMacAddr \in Seq(Steps)
    /\ \A p \in Commands : CopyBiosInfo(p, "fetch") \in Seq(Steps)
    /\ \A p \in Cached : CopyBiosInfo(p, "keep") \in Seq(Steps)
<1> USE StepsFit, Vocabulary
<1>1. Step("copy", {}) \in Steps /\ Step("version", {}) \in Steps
  BY DEF StepNames
<1>2. SetTimeNoMutex \in Seq(Steps)
  BY DEF SetTimeNoMutex
<1>3. SendRamdisk \in Seq(Steps)
  BY <1>1 DEF SendRamdisk
<1>4. GetMacAddr \in Seq(Steps)
  BY DEF GetMacAddr
<1>5. \A p \in Commands : CopyBiosInfo(p, "fetch") \in Seq(Steps)
  <2> SUFFICES ASSUME NEW p \in Commands PROVE CopyBiosInfo(p, "fetch") \in Seq(Steps)
    OBVIOUS
  <2>1. <<Step("version", {}), Command(p), Consumed, Step("fetch", {p})>> \in Seq(Steps)
    BY <1>1
  <2> QED  BY <1>2, <2>1 DEF CopyBiosInfo
<1>6. \A p \in Cached : CopyBiosInfo(p, "keep") \in Seq(Steps)
  BY <1>1, <1>2 DEF CopyBiosInfo
<1> QED  BY <1>2, <1>3, <1>4, <1>5, <1>6

LEMMA ScriptsTyped ==
    \A op \in Operations : Script(op) \in Seq(Steps)
<1> USE StepsFit, Vocabulary, PiecesFit
<1>1. \A d \in {"version", "error", "rcvy", "pulse", "down", "cmd", "reinit", "irq", "linked", "forget"} :
        Step(d, {}) \in Steps
  BY DEF StepNames
<1>2. E5("WAITING_FOR_IRQ") \in Steps /\ E5("READY") \in Steps
  BY DEF Readiness
<1>3. SetTime \in Seq(Steps)
  BY <1>1, <1>2 DEF SetTime
<1>4. GetMacAddr \in Seq(Steps)
  BY <1>1, <1>2 DEF GetMacAddr
<1>5. BootRamdisk \in Seq(Steps)
  BY <1>1, <1>2 DEF BootRamdisk
<1>6. BootBlkdisk \in Seq(Steps)
  BY <1>1, <1>2 DEF BootBlkdisk
<1>7. BootFromUsb \in Seq(Steps)
  BY <1>1, <1>2 DEF BootFromUsb
<1>8. Flash \in Seq(Steps)
  BY <1>1, <1>2 DEF Flash
<1>9. SetBiosParam \in Seq(Steps)
  BY <1>1, <1>2 DEF SetBiosParam
<1>10. GetBiosParam("BIOS_BUILD_DATE") \in Seq(Steps)
  <2>1. /\ CopyBiosInfo("BIOS_BUILD_DATE", "fetch") \in Seq(Steps)
        /\ <<Lock, Step("cached", {"BIOS_BUILD_DATE"})>> \in Seq(Steps)
        /\ <<Unlock>> \in Seq(Steps)
    BY DEF Cached
  <2>2. GetBiosParam("BIOS_BUILD_DATE") =
          <<Lock, Step("cached", {"BIOS_BUILD_DATE"})>> \o CopyBiosInfo("BIOS_BUILD_DATE", "fetch") \o <<Unlock>>
    BY DEF GetBiosParam, Cached
  <2>3. ASSUME NEW x \in Seq(Steps), NEW y \in Seq(Steps), NEW z \in Seq(Steps)
        PROVE  x \o y \o z \in Seq(Steps)
    OBVIOUS
  <2> QED  BY ONLY <2>1, <2>2, <2>3
<1>11. GetBiosParam("CPU_MAX_FREQ_NON_TURBO") \in Seq(Steps)
  <2>1. /\ CopyBiosInfo("CPU_MAX_FREQ_NON_TURBO", "fetch") \in Seq(Steps)
        /\ <<Lock, Require>> \in Seq(Steps)
        /\ <<Unlock>> \in Seq(Steps)
    BY DEF Cached
  <2>2. GetBiosParam("CPU_MAX_FREQ_NON_TURBO") =
          <<Lock, Require>> \o CopyBiosInfo("CPU_MAX_FREQ_NON_TURBO", "fetch") \o <<Unlock>>
    BY DEF GetBiosParam, Cached
  <2>3. ASSUME NEW x \in Seq(Steps), NEW y \in Seq(Steps), NEW z \in Seq(Steps)
        PROVE  x \o y \o z \in Seq(Steps)
    OBVIOUS
  <2> QED  BY ONLY <2>1, <2>2, <2>3
<1>12. GetRcvyState \in Seq(Steps)
  BY <1>1, <1>2 DEF GetRcvyState
<1>13. CardReset \in Seq(Steps)
  BY <1>1, <1>2 DEF CardReset
<1>14. Handshake \in Seq(Steps)
  BY <1>1, <1>2 DEF Handshake, Cached
<1> QED  BY <1>3, <1>4, <1>5, <1>6, <1>7, <1>8, <1>9, <1>10, <1>11, <1>12, <1>13, <1>14 DEF Script, Operations

CallFits(s) == Len(s) > 0 /\ Bracketed(s) /\ Outside(s, 1) /\ KeepsNothing(s)

(* The scripts of all calls but the handshake: one call of the driver, or  *)
(* two.                                                                    *)
InOneBlock(s) ==
    /\ Len(s) \in Nat /\ Len(s) > 1
    /\ s[1].do = "lock" /\ s[Len(s)].do = "unlock"
    /\ \A i \in 2..Len(s) - 1 : s[i] \in Body

InTwoBlocks(s, k) ==
    /\ Len(s) \in Nat /\ k \in 2..Len(s) /\ k + 1 < Len(s)
    /\ s[1].do = "lock" /\ s[k].do = "unlock"
    /\ s[k + 1].do = "lock" /\ s[Len(s)].do = "unlock"
    /\ \A i \in 2..k - 1 : s[i] \in Body
    /\ \A i \in k + 2..Len(s) - 1 : s[i] \in Body

LEMMA OneBlockFits ==
    \A s : InOneBlock(s) => CallFits(s)
<1> SUFFICES ASSUME NEW s, InOneBlock(s)
             PROVE  CallFits(s)
  OBVIOUS
<1>1. PICK n \in Nat : n = Len(s) /\ n > 1
  BY DEF InOneBlock
<1>2. s[1].do = "lock" /\ s[n].do = "unlock" /\ \A i \in 2..n - 1 : s[i].do \notin {"lock", "unlock", "keep"}
  BY <1>1 DEF InOneBlock, Body, Plain
<1>3. \A i \in 1..n : s[i].do = "unlock" => i = n
  BY <1>2
<1>4. \A i \in 1..n : s[i].do = "lock" => i = 1
  BY <1>2
<1>5. ASSUME NEW i \in 2..n
      PROVE  Inside(s, i)
  <2>1. n \in i..Len(s) /\ \A m \in i..n : s[m].do # "lock"
    BY <1>1, <1>4, <1>5
  <2> QED  BY <1>2, <2>1 DEF Inside
<1>6. \A i \in 1..n : s[i].do \notin Free => i \in 2..n
  BY <1>2 DEF Free
<1>7. Outside(s, 1) /\ Outside(s, n + 1)
  BY <1>1, <1>2, <1>3 DEF Outside
<1>8. Bracketed(s)
  BY <1>1, <1>3, <1>4, <1>5, <1>6, <1>7 DEF Bracketed
<1>9. KeepsNothing(s)
  BY <1>1, <1>2 DEF KeepsNothing
<1> QED  BY <1>1, <1>7, <1>8, <1>9 DEF CallFits

LEMMA TwoBlocksFit ==
    \A s, k : InTwoBlocks(s, k) => CallFits(s)
<1> SUFFICES ASSUME NEW s, NEW k, InTwoBlocks(s, k)
             PROVE  CallFits(s)
  OBVIOUS
<1>1. PICK n \in Nat : n = Len(s) /\ k \in 2..n /\ k + 1 < n
  BY DEF InTwoBlocks
<1>2. /\ s[1].do = "lock" /\ s[k].do = "unlock" /\ s[k + 1].do = "lock" /\ s[n].do = "unlock"
      /\ \A i \in 2..k - 1 : s[i].do \notin {"lock", "unlock", "keep"}
      /\ \A i \in k + 2..n - 1 : s[i].do \notin {"lock", "unlock", "keep"}
  BY <1>1 DEF InTwoBlocks, Body, Plain
<1>3. \A i \in 1..n : s[i].do = "unlock" => i \in {k, n}
  BY <1>1, <1>2
<1>4. \A i \in 1..n : s[i].do = "lock" => i \in {1, k + 1}
  BY <1>1, <1>2
<1>5. ASSUME NEW i \in 2..k
      PROVE  Inside(s, i)
  <2>1. k \in i..Len(s) /\ \A m \in i..k : s[m].do # "lock"
    BY <1>1, <1>4, <1>5
  <2> QED  BY <1>2, <2>1 DEF Inside
<1>6. ASSUME NEW i \in k + 2..n
      PROVE  Inside(s, i)
  <2>1. n \in i..Len(s) /\ \A m \in i..n : s[m].do # "lock"
    BY <1>1, <1>4, <1>6
  <2> QED  BY <1>2, <2>1 DEF Inside
<1>7. \A i \in 1..n : s[i].do \notin Free => i \in 2..k \/ i \in k + 2..n
  BY <1>1, <1>2 DEF Free
<1>8. Outside(s, 1) /\ Outside(s, k + 1) /\ Outside(s, n + 1)
  BY <1>1, <1>2, <1>3 DEF Outside
<1>9. Bracketed(s)
  BY <1>1, <1>3, <1>4, <1>5, <1>6, <1>7, <1>8 DEF Bracketed
<1>10. KeepsNothing(s)
  BY <1>1, <1>2 DEF KeepsNothing
<1> QED  BY <1>1, <1>8, <1>9, <1>10 DEF CallFits

LEMMA UsedSteps ==
    /\ Require \in Body /\ Data("time") \in Body /\ Command("SET_TIME") \in Body
    /\ Consumed \in Body /\ State({"READY"}) \in Body /\ Command("GET_MAC_ADDR") \in Body
    /\ Fetch("mac") \in Body /\ Data("size") \in Body /\ Command("MAP_RAMDISK") \in Body
    /\ State({"DONE"} \cup Errors) \in Body /\ Fetch("address") \in Body
    /\ Step("copy", {}) \in Body /\ Command("BOOT_RAMDISK") \in Body
    /\ State({"BOOTING", "OS_READY"} \cup Errors) \in Body /\ Command("BOOT_BLOCK_IO") \in Body
    /\ State({"BOOTING_BLOCK_IO", "OS_READY"} \cup Errors) \in Body
    /\ Fetch("devpage") \in Body /\ Command("BOOT_LOADER") \in Body
    /\ Step("any_state", {"BOOTING"} \cup Errors) \in Body /\ Command("FLASH") \in Body
    /\ State({"FLASHING"} \cup Errors) \in Body /\ Step("version", {}) \in Body
    /\ Data("value") \in Body /\ Command("SET_PARAM") \in Body /\ Step("error", {}) \in Body
    /\ Step("cached", {"BIOS_BUILD_DATE"}) \in Body /\ Command("BIOS_BUILD_DATE") \in Body
    /\ Step("fetch", {"BIOS_BUILD_DATE"}) \in Body
    /\ Command("CPU_MAX_FREQ_NON_TURBO") \in Body
    /\ Step("fetch", {"CPU_MAX_FREQ_NON_TURBO"}) \in Body /\ Step("rcvy", {}) \in Body
    /\ Step("pulse", {}) \in Body /\ Step("down", {}) \in Body
  BY BodyHas, Vocabulary

LEMMA SetTimeFits == CallFits(SetTime)
<1> DEFINE s == SetTime
<1>1. /\ Len(s) = 7 /\ s[1] = Lock /\ s[2] = Require /\ s[3] = Data("time")
      /\ s[4] = Command("SET_TIME") /\ s[5] = Consumed /\ s[6] = State({"READY"})
      /\ s[7] = Unlock
  BY DEF SetTime, SetTimeNoMutex
<1> HIDE DEF s
<1>2. /\ s[2] \in Body /\ s[3] \in Body /\ s[4] \in Body /\ s[5] \in Body /\ s[6] \in Body
  BY <1>1, UsedSteps
<1>3. InOneBlock(s)
  BY <1>1, <1>2 DEF InOneBlock, Lock, Unlock, Step
<1> QED  BY <1>3, OneBlockFits DEF s

LEMMA GetMacAddrFits == CallFits(GetMacAddr)
<1> DEFINE s == GetMacAddr
<1>1. /\ Len(s) = 7 /\ s[1] = Lock /\ s[2] = Require /\ s[3] = Command("GET_MAC_ADDR")
      /\ s[4] = Consumed /\ s[5] = State({"READY"}) /\ s[6] = Fetch("mac") /\ s[7] = Unlock
  BY DEF GetMacAddr
<1> HIDE DEF s
<1>2. /\ s[2] \in Body /\ s[3] \in Body /\ s[4] \in Body /\ s[5] \in Body /\ s[6] \in Body
  BY <1>1, UsedSteps
<1>3. InOneBlock(s)
  BY <1>1, <1>2 DEF InOneBlock, Lock, Unlock, Step
<1> QED  BY <1>3, OneBlockFits DEF s

LEMMA BootRamdiskFits == CallFits(BootRamdisk)
<1> DEFINE s == BootRamdisk
<1>1. /\ Len(s) = 17 /\ s[1] = Lock /\ s[2] = Require /\ s[3] = Command("GET_MAC_ADDR")
      /\ s[4] = Consumed /\ s[5] = State({"READY"}) /\ s[6] = Fetch("mac") /\ s[7] = Unlock
      /\ s[8] = Lock /\ s[9] = Require /\ s[10] = Data("size")
      /\ s[11] = Command("MAP_RAMDISK") /\ s[12] = State({"DONE"} \cup Errors)
      /\ s[13] = Fetch("address") /\ s[14] = Step("copy", {})
      /\ s[15] = Command("BOOT_RAMDISK") /\ s[16] = State({"BOOTING", "OS_READY"} \cup Errors)
      /\ s[17] = Unlock
  BY DEF BootRamdisk, GetMacAddr, SendRamdisk
<1> HIDE DEF s
<1>2. /\ s[2] \in Body /\ s[3] \in Body /\ s[4] \in Body /\ s[5] \in Body /\ s[6] \in Body
      /\ s[9] \in Body /\ s[10] \in Body /\ s[11] \in Body /\ s[12] \in Body /\ s[13] \in Body
      /\ s[14] \in Body /\ s[15] \in Body /\ s[16] \in Body
  BY <1>1, UsedSteps
<1>3. InTwoBlocks(s, 7)
  BY <1>1, <1>2 DEF InTwoBlocks, Lock, Unlock, Step
<1> QED  BY <1>3, TwoBlocksFit DEF s

LEMMA BootBlkdiskFits == CallFits(BootBlkdisk)
<1> DEFINE s == BootBlkdisk
<1>1. /\ Len(s) = 13 /\ s[1] = Lock /\ s[2] = Require /\ s[3] = Command("GET_MAC_ADDR")
      /\ s[4] = Consumed /\ s[5] = State({"READY"}) /\ s[6] = Fetch("mac") /\ s[7] = Unlock
      /\ s[8] = Lock /\ s[9] = Require /\ s[10] = Command("BOOT_BLOCK_IO")
      /\ s[11] = State({"BOOTING_BLOCK_IO", "OS_READY"} \cup Errors)
      /\ s[12] = Fetch("devpage") /\ s[13] = Unlock
  BY DEF BootBlkdisk, GetMacAddr
<1> HIDE DEF s
<1>2. /\ s[2] \in Body /\ s[3] \in Body /\ s[4] \in Body /\ s[5] \in Body /\ s[6] \in Body
      /\ s[9] \in Body /\ s[10] \in Body /\ s[11] \in Body /\ s[12] \in Body
  BY <1>1, UsedSteps
<1>3. InTwoBlocks(s, 7)
  BY <1>1, <1>2 DEF InTwoBlocks, Lock, Unlock, Step
<1> QED  BY <1>3, TwoBlocksFit DEF s

LEMMA BootFromUsbFits == CallFits(BootFromUsb)
<1> DEFINE s == BootFromUsb
<1>1. /\ Len(s) = 11 /\ s[1] = Lock /\ s[2] = Require /\ s[3] = Command("GET_MAC_ADDR")
      /\ s[4] = Consumed /\ s[5] = State({"READY"}) /\ s[6] = Fetch("mac") /\ s[7] = Unlock
      /\ s[8] = Lock /\ s[9] = Command("BOOT_LOADER")
      /\ s[10] = Step("any_state", {"BOOTING"} \cup Errors) /\ s[11] = Unlock
  BY DEF BootFromUsb, GetMacAddr
<1> HIDE DEF s
<1>2. /\ s[2] \in Body /\ s[3] \in Body /\ s[4] \in Body /\ s[5] \in Body /\ s[6] \in Body
      /\ s[9] \in Body /\ s[10] \in Body
  BY <1>1, UsedSteps
<1>3. InTwoBlocks(s, 7)
  BY <1>1, <1>2 DEF InTwoBlocks, Lock, Unlock, Step
<1> QED  BY <1>3, TwoBlocksFit DEF s

LEMMA FlashFits == CallFits(Flash)
<1> DEFINE s == Flash
<1>1. /\ Len(s) = 11 /\ s[1] = Lock /\ s[2] = Require /\ s[3] = Data("size")
      /\ s[4] = Command("MAP_RAMDISK") /\ s[5] = State({"DONE"} \cup Errors)
      /\ s[6] = Fetch("address") /\ s[7] = Step("copy", {}) /\ s[8] = Command("FLASH")
      /\ s[9] = State({"FLASHING"} \cup Errors) /\ s[10] = State({"DONE"} \cup Errors)
      /\ s[11] = Unlock
  BY DEF Flash, SendRamdisk
<1> HIDE DEF s
<1>2. /\ s[2] \in Body /\ s[3] \in Body /\ s[4] \in Body /\ s[5] \in Body /\ s[6] \in Body
      /\ s[7] \in Body /\ s[8] \in Body /\ s[9] \in Body /\ s[10] \in Body
  BY <1>1, UsedSteps
<1>3. InOneBlock(s)
  BY <1>1, <1>2 DEF InOneBlock, Lock, Unlock, Step
<1> QED  BY <1>3, OneBlockFits DEF s

LEMMA SetBiosParamFits == CallFits(SetBiosParam)
<1> DEFINE s == SetBiosParam
<1>1. /\ Len(s) = 8 /\ s[1] = Lock /\ s[2] = Step("version", {}) /\ s[3] = Require
      /\ s[4] = Data("value") /\ s[5] = Command("SET_PARAM") /\ s[6] = Consumed
      /\ s[7] = Step("error", {}) /\ s[8] = Unlock
  BY DEF SetBiosParam
<1> HIDE DEF s
<1>2. /\ s[2] \in Body /\ s[3] \in Body /\ s[4] \in Body /\ s[5] \in Body /\ s[6] \in Body
      /\ s[7] \in Body
  BY <1>1, UsedSteps
<1>3. InOneBlock(s)
  BY <1>1, <1>2 DEF InOneBlock, Lock, Unlock, Step
<1> QED  BY <1>3, OneBlockFits DEF s

LEMMA GetBiosDateFits == CallFits(GetBiosParam("BIOS_BUILD_DATE"))
<1> DEFINE s == GetBiosParam("BIOS_BUILD_DATE")
<1>1. /\ Len(s) = 11 /\ s[1] = Lock /\ s[2] = Step("cached", {"BIOS_BUILD_DATE"})
      /\ s[3] = Step("version", {}) /\ s[4] = Command("BIOS_BUILD_DATE") /\ s[5] = Consumed
      /\ s[6] = Step("fetch", {"BIOS_BUILD_DATE"}) /\ s[7] = Require /\ s[8] = Data("time")
      /\ s[9] = Command("SET_TIME") /\ s[10] = Consumed /\ s[11] = Unlock
  BY DEF GetBiosParam, CopyBiosInfo, SetTimeNoMutex, Cached
<1> HIDE DEF s
<1>2. /\ s[2] \in Body /\ s[3] \in Body /\ s[4] \in Body /\ s[5] \in Body /\ s[6] \in Body
      /\ s[7] \in Body /\ s[8] \in Body /\ s[9] \in Body /\ s[10] \in Body
  BY <1>1, UsedSteps
<1>3. InOneBlock(s)
  BY <1>1, <1>2 DEF InOneBlock, Lock, Unlock, Step
<1> QED  BY <1>3, OneBlockFits DEF s

LEMMA GetMaxFreqFits == CallFits(GetBiosParam("CPU_MAX_FREQ_NON_TURBO"))
<1> DEFINE s == GetBiosParam("CPU_MAX_FREQ_NON_TURBO")
<1>1. /\ Len(s) = 11 /\ s[1] = Lock /\ s[2] = Require /\ s[3] = Step("version", {})
      /\ s[4] = Command("CPU_MAX_FREQ_NON_TURBO") /\ s[5] = Consumed
      /\ s[6] = Step("fetch", {"CPU_MAX_FREQ_NON_TURBO"}) /\ s[7] = Require
      /\ s[8] = Data("time") /\ s[9] = Command("SET_TIME") /\ s[10] = Consumed
      /\ s[11] = Unlock
  BY DEF GetBiosParam, CopyBiosInfo, SetTimeNoMutex, Cached
<1> HIDE DEF s
<1>2. /\ s[2] \in Body /\ s[3] \in Body /\ s[4] \in Body /\ s[5] \in Body /\ s[6] \in Body
      /\ s[7] \in Body /\ s[8] \in Body /\ s[9] \in Body /\ s[10] \in Body
  BY <1>1, UsedSteps
<1>3. InOneBlock(s)
  BY <1>1, <1>2 DEF InOneBlock, Lock, Unlock, Step
<1> QED  BY <1>3, OneBlockFits DEF s

LEMMA GetRcvyStateFits == CallFits(GetRcvyState)
<1> DEFINE s == GetRcvyState
<1>1. /\ Len(s) = 3 /\ s[1] = Lock /\ s[2] = Step("rcvy", {}) /\ s[3] = Unlock
  BY DEF GetRcvyState
<1> HIDE DEF s
<1>2. /\ s[2] \in Body
  BY <1>1, UsedSteps
<1>3. InOneBlock(s)
  BY <1>1, <1>2 DEF InOneBlock, Lock, Unlock, Step
<1> QED  BY <1>3, OneBlockFits DEF s

LEMMA CardResetFits == CallFits(CardReset)
<1> DEFINE s == CardReset
<1>1. /\ Len(s) = 4 /\ s[1] = Lock /\ s[2] = Step("pulse", {}) /\ s[3] = Step("down", {})
      /\ s[4] = Unlock
  BY DEF CardReset
<1> HIDE DEF s
<1>2. /\ s[2] \in Body /\ s[3] \in Body
  BY <1>1, UsedSteps
<1>3. InOneBlock(s)
  BY <1>1, <1>2 DEF InOneBlock, Lock, Unlock, Step
<1> QED  BY <1>3, OneBlockFits DEF s

LEMMA HandshakeIs ==
    LET s == Handshake
    IN  /\ Len(s) = 28
        /\ s[1] = Step("forget", {}) /\ s[2] = Lock /\ s[3] = Step("cmd", {})
        /\ s[4] = Step("reinit", {}) /\ s[5] = E5("WAITING_FOR_IRQ") /\ s[6] = Step("irq", {})
        /\ s[7] = Fetch("ddr_size") /\ s[8] = Data("cpuid") /\ s[9] = E5("READY")
        /\ s[10] = State({"READY"}) /\ s[11] = Step("linked", {}) /\ s[12] = Step("version", {})
        /\ s[13] = Command("BIOS_BUILD_DATE") /\ s[14] = Consumed
        /\ s[15] = Step("keep", {"BIOS_BUILD_DATE"}) /\ s[16] = Require /\ s[17] = Data("time")
        /\ s[18] = Command("SET_TIME") /\ s[19] = Consumed /\ s[20] = Step("version", {})
        /\ s[21] = Command("BIOS_VER") /\ s[22] = Consumed /\ s[23] = Step("keep", {"BIOS_VER"})
        /\ s[24] = Require /\ s[25] = Data("time") /\ s[26] = Command("SET_TIME")
        /\ s[27] = Consumed /\ s[28] = Unlock
  BY DEF Handshake, CopyBiosInfo, SetTimeNoMutex

(* What each step of the handshake does.                                   *)
LEMMA HandshakeDoes ==
    LET s == Handshake
    IN  /\ s[1].do = "forget" /\ s[2].do = "lock" /\ s[3].do = "cmd" /\ s[4].do = "reinit"
        /\ s[5].do = "e5" /\ s[6].do = "irq" /\ s[7].do = "fetch" /\ s[8].do = "data"
        /\ s[9].do = "e5" /\ s[10].do = "state" /\ s[11].do = "linked" /\ s[12].do = "version"
        /\ s[13].do = "cmd" /\ s[14].do = "consumed" /\ s[15].do = "keep" /\ s[16].do = "require"
        /\ s[17].do = "data" /\ s[18].do = "cmd" /\ s[19].do = "consumed" /\ s[20].do = "version"
        /\ s[21].do = "cmd" /\ s[22].do = "consumed" /\ s[23].do = "keep" /\ s[24].do = "require"
        /\ s[25].do = "data" /\ s[26].do = "cmd" /\ s[27].do = "consumed" /\ s[28].do = "unlock"
  BY HandshakeIs DEF Step, Lock, Unlock, E5, Fetch, Data, State, Command, Consumed, Require

LEMMA HandshakeFits == Bracketed(Handshake) /\ Outside(Handshake, 1)
<1> DEFINE s == Handshake
<1>1. Len(s) = 28
  BY HandshakeIs
<1> HIDE DEF s
<1>2. s[2].do = "lock" /\ s[28].do = "unlock" /\ \A i \in 1..2 - 1 : s[i].do \in {"forget", "e5"}
  BY HandshakeDoes DEF s
<1>3. \A i \in 2 + 1..28 - 1 : Plain(s[i])
  BY HandshakeDoes DEF s, Plain
<1>4. 28 \in Nat /\ 2 \in 1..28 /\ 2 < 28
  OBVIOUS
<1>5. Bracketed(s) /\ Outside(s, 1)
  BY <1>1, <1>2, <1>3, <1>4, OneBlock
<1> QED  BY <1>5 DEF s

LEMMA ScriptsFit ==
    \A op \in Operations :
      WellFormed(Script(op)) /\ (op # "handshake" => KeepsNothing(Script(op)))
<1>1. \A op \in Operations : Script(op) \in Seq(Steps)
  BY ScriptsTyped
<1>2. \A op \in Operations : Bracketed(Script(op)) /\ Outside(Script(op), 1)
  BY HandshakeFits, SetTimeFits, GetMacAddrFits, BootRamdiskFits, BootBlkdiskFits,
     BootFromUsbFits, FlashFits, SetBiosParamFits, GetBiosDateFits, GetMaxFreqFits,
     GetRcvyStateFits, CardResetFits DEF CallFits, Operations, Script
<1>3. \A op \in Operations : op # "handshake" => KeepsNothing(Script(op))
  BY SetTimeFits, GetMacAddrFits, BootRamdiskFits, BootBlkdiskFits,
     BootFromUsbFits, FlashFits, SetBiosParamFits, GetBiosDateFits, GetMaxFreqFits,
     GetRcvyStateFits, CardResetFits DEF CallFits, Operations, Script
<1>4. \A op \in Operations : Len(Script(op)) > 0
  <2>1. Len(Handshake) > 0
    BY HandshakeIs
  <2> QED
    BY <2>1, SetTimeFits, GetMacAddrFits, BootRamdiskFits, BootBlkdiskFits,
       BootFromUsbFits, FlashFits, SetBiosParamFits, GetBiosDateFits, GetMaxFreqFits,
       GetRcvyStateFits, CardResetFits DEF CallFits, Operations, Script
<1> QED  BY <1>1, <1>2, <1>3, <1>4 DEF WellFormed

-----------------------------------------------------------------------------
(* Calls.  What is left of one fits the lock; a handshake has the rest of  *)
(* its script, or of what it does when it has failed.                      *)

From(k) == SubSeq(Handshake, k, 28)
GiveUp == {<<Unlock, E5("NOT_READY")>>, <<E5("NOT_READY")>>, <<Unlock>>}

CallType ==
    [op : Operations \cup {None}, todo : Seq(Steps), ok : BOOLEAN, linked : BOOLEAN,
     alone : BOOLEAN, owed : SUBSET Commands, bad : BOOLEAN]

Going(op, s, held) ==
    /\ Bracketed(s)
    /\ IF held THEN Inside(s, 1) ELSE Outside(s, 1)
    /\ op # "handshake" => KeepsNothing(s)
    /\ op = "handshake" => s \in GiveUp \/ \E k \in 1..28 : s = From(k)

Good(c, t, held) ==
    /\ c \in CallType /\ c.op \in Ops[t] \cup {None}
    /\ (c.op = None) = (c.todo = <<>>)
    /\ Going(c.op, c.todo, held)

(* What is left of a sequence from its k-th element on.                     *)
LEMMA RestIs ==
    ASSUME NEW S, NEW h \in Seq(S), NEW k \in Nat, k > 0, k <= Len(h)
    PROVE  /\ SubSeq(h, k, Len(h)) \in Seq(S) /\ Len(SubSeq(h, k, Len(h))) = Len(h) + 1 - k
           /\ \A i \in 1..Len(h) + 1 - k : SubSeq(h, k, Len(h))[i] = h[k + i - 1]
<1>1. PICK n \in Nat : n = Len(h)
  OBVIOUS
<1>2. k \in Int /\ n \in Int
  BY <1>1
<1>3. \A i \in k..n : h[i] \in S
  BY <1>1
<1>4. /\ SubSeq(h, k, n) \in Seq(S)
      /\ Len(SubSeq(h, k, n)) = IF k <= n THEN n - k + 1 ELSE 0
      /\ \A i \in 1..n - k + 1 : SubSeq(h, k, n)[i] = h[k + i - 1]
  BY <1>2, <1>3, SubSeqProperties
<1>5. n - k + 1 = n + 1 - k /\ k <= n
  BY <1>1
<1> QED  BY <1>1, <1>4, <1>5

LEMMA TailOfRest ==
    ASSUME NEW S, NEW h \in Seq(S), NEW k \in Nat, k > 0, k <= Len(h)
    PROVE  /\ Head(SubSeq(h, k, Len(h))) = h[k]
           /\ k < Len(h) => Tail(SubSeq(h, k, Len(h))) = SubSeq(h, k + 1, Len(h))
           /\ k = Len(h) => Tail(SubSeq(h, k, Len(h))) = <<>>
<1> DEFINE w == SubSeq(h, k, Len(h))
           y == SubSeq(h, k + 1, Len(h))
<1>1. PICK n \in Nat : n = Len(h)
  OBVIOUS
<1>2. /\ w \in Seq(S) /\ Len(w) = n + 1 - k
      /\ \A i \in 1..n + 1 - k : w[i] = h[k + i - 1]
  BY <1>1, RestIs
<1>3. ASSUME k < n
      PROVE  /\ y \in Seq(S) /\ Len(y) = n + 1 - (k + 1)
             /\ \A i \in 1..n + 1 - (k + 1) : y[i] = h[(k + 1) + i - 1]
  <2>1. k + 1 \in Nat /\ k + 1 > 0 /\ k + 1 <= Len(h)
    BY <1>1, <1>3
  <2> QED  BY <1>1, <2>1, RestIs
<1> HIDE DEF w, y
<1>4. Head(w) = h[k]
  BY <1>1, <1>2
<1>5. ASSUME k < n
      PROVE  Tail(w) = y
  <2> DEFINE x == Tail(w)
  <2>1. x \in Seq(S) /\ Len(x) = n - k /\ \A i \in 1..n - k : x[i] = w[i + 1]
    BY <1>2, <1>5
  <2>2. \A i \in 1..n - k : w[i + 1] = h[k + i]
    BY <1>2, <1>5
  <2>3. Len(y) = n - k /\ \A i \in 1..n - k : y[i] = h[k + i]
    <3>1. n + 1 - (k + 1) = n - k /\ \A i \in 1..n - k : (k + 1) + i - 1 = k + i
      OBVIOUS
    <3> QED  BY <1>3, <1>5, <3>1
  <2> HIDE DEF x
  <2>4. Len(x) = Len(y) /\ \A i \in 1..Len(x) : x[i] = y[i]
    BY <2>1, <2>2, <2>3
  <2>5. y \in Seq(S)
    BY <1>3, <1>5
  <2>6. x = y
    BY <2>1, <2>4, <2>5, SeqEqual
  <2> QED  BY <2>6 DEF x
<1>6. k = n => Tail(w) = <<>>
  <2> SUFFICES ASSUME k = n PROVE Tail(w) = <<>>
    OBVIOUS
  <2>1. w \in Seq(S) /\ Len(w) = 1
    BY <1>1, <1>2
  <2>2. Tail(w) \in Seq(S) /\ Len(Tail(w)) = 0
    BY ONLY <2>1
  <2> QED  BY <2>2, EmptySeq
<1> QED  BY <1>1, <1>4, <1>5, <1>6 DEF w, y

LEMMA FromIs ==
    ASSUME NEW k \in 1..28
    PROVE  /\ From(k) \in Seq(Steps) /\ Len(From(k)) = 29 - k
           /\ Head(From(k)) = Handshake[k]
           /\ k < 28 => Tail(From(k)) = From(k + 1)
           /\ k = 28 => Tail(From(k)) = <<>>
<1>1. Handshake \in Seq(Steps) /\ Len(Handshake) = 28
  BY HandshakeIs, ScriptsTyped DEF Operations, Script
<1>2. k \in Nat /\ k > 0 /\ k <= Len(Handshake) /\ Len(Handshake) + 1 - k = 29 - k
  BY <1>1
<1>3. /\ SubSeq(Handshake, k, Len(Handshake)) \in Seq(Steps)
      /\ Len(SubSeq(Handshake, k, Len(Handshake))) = Len(Handshake) + 1 - k
  BY <1>1, <1>2, RestIs
<1>4. /\ Head(SubSeq(Handshake, k, Len(Handshake))) = Handshake[k]
      /\ k < Len(Handshake) => Tail(SubSeq(Handshake, k, Len(Handshake)))
                               = SubSeq(Handshake, k + 1, Len(Handshake))
      /\ k = Len(Handshake) => Tail(SubSeq(Handshake, k, Len(Handshake))) = <<>>
  BY <1>1, <1>2, TailOfRest
<1> QED  BY <1>1, <1>2, <1>3, <1>4 DEF From

LEMMA FromFits == From(1) = Handshake /\ From(28) = <<Unlock>>
<1>1. Handshake \in Seq(Steps) /\ Len(Handshake) = 28 /\ Handshake[28] = Unlock
  BY HandshakeIs, ScriptsTyped DEF Operations, Script
<1>2. From(1) = Handshake
  <2> DEFINE h == Handshake
  <2>1. h \in Seq(Steps) /\ Len(h) = 28
    BY <1>1
  <2> HIDE DEF h
  <2>2. SubSeq(h, 1, Len(h)) = h
    BY <2>1
  <2> QED  BY <2>1, <2>2 DEF h, From
<1>3. From(28) = <<Unlock>>
  <2>0. 28 \in 1..28 /\ 29 - 28 = 1
    OBVIOUS
  <2>1. From(28) \in Seq(Steps) /\ Len(From(28)) = 1 /\ Head(From(28)) = Unlock
    BY <1>1, <2>0, FromIs
  <2>2. \A x \in Seq(Steps) : Len(x) = 1 => x = <<Head(x)>>
    OBVIOUS
  <2> QED  BY <2>1, <2>2
<1> QED  BY <1>2, <1>3

LEMMA HandshakeAvoids ==
    \A k \in 1..28 : Handshake[k].do \notin {"error", "cached", "any_state", "copy", "pulse", "down",
                                             "rcvy", "no_error"}
<1> SUFFICES ASSUME NEW k \in 1..28
             PROVE  Handshake[k].do \notin {"error", "cached", "any_state", "copy", "pulse", "down",
                                            "rcvy", "no_error"}
  OBVIOUS
<1> QED  BY HandshakeDoes

(* What remains of a failed call, and of one that clears an error.         *)
LEMMA RemaindersFit ==
    /\ GiveUp \subseteq Seq(Steps) /\ ClearError \in Seq(Steps)
    /\ \A x \in GiveUp \cup {ClearError} : x # <<>> /\ Bracketed(x) /\ KeepsNothing(x)
    /\ Inside(<<Unlock, E5("NOT_READY")>>, 1) /\ Inside(<<Unlock>>, 1) /\ Inside(ClearError, 1)
<1> DEFINE a == <<Unlock, E5("NOT_READY")>>
           b == <<E5("NOT_READY")>>
           c == <<Unlock>>
           d == ClearError
<1>1. /\ a \in Seq(Steps) /\ Len(a) = 2 /\ a[1].do = "unlock" /\ a[2].do = "e5"
      /\ b \in Seq(Steps) /\ Len(b) = 1 /\ b[1].do = "e5"
      /\ c \in Seq(Steps) /\ Len(c) = 1 /\ c[1].do = "unlock"
  <2>1. Unlock \in Steps /\ E5("NOT_READY") \in Steps
    BY StepsFit DEF Readiness
  <2> QED  BY <2>1 DEF Unlock, E5, Step
<1>2. /\ d \in Seq(Steps) /\ Len(d) = 5 /\ d[1].do = "no_error" /\ d[2].do = "state"
      /\ d[3].do = "cmd" /\ d[4].do = "consumed" /\ d[5].do = "unlock"
  <2>1. /\ Step("no_error", {}) \in Steps /\ State({"READY"}) \in Steps
        /\ Command("CLEAR_ERROR") \in Steps /\ Consumed \in Steps /\ Unlock \in Steps
    BY StepsFit, Vocabulary DEF StepNames
  <2> QED  BY <2>1 DEF ClearError, State, Command, Consumed, Unlock, Step
<1> HIDE DEF a, b, c, d
<1>3. Bracketed(a) /\ KeepsNothing(a) /\ Inside(a, 1) /\ a # <<>>
  BY <1>1 DEF Bracketed, KeepsNothing, Inside, Outside, Free
<1>4. Bracketed(b) /\ KeepsNothing(b) /\ b # <<>>
  BY <1>1 DEF Bracketed, KeepsNothing, Inside, Outside, Free
<1>5. Bracketed(c) /\ KeepsNothing(c) /\ Inside(c, 1) /\ c # <<>>
  BY <1>1 DEF Bracketed, KeepsNothing, Inside, Outside, Free
<1>6. Bracketed(d) /\ KeepsNothing(d) /\ Inside(d, 1) /\ d # <<>>
  <2>1. \A i \in 1..5 : Inside(d, i)
    BY <1>2 DEF Inside
  <2>2. \A i \in 1..5 : d[i].do \notin {"lock", "keep"} /\ (d[i].do = "unlock" => i = 5)
    BY <1>2
  <2>3. Outside(d, 6)
    BY <1>2 DEF Outside
  <2>4. Bracketed(d)
    <3> SUFFICES ASSUME NEW i \in 1..5
                 PROVE  /\ d[i].do = "lock" => Inside(d, i + 1)
                        /\ d[i].do = "unlock" => Outside(d, i + 1)
                        /\ d[i].do \notin Free => Inside(d, i)
      BY <1>2 DEF Bracketed
    <3>1. i = 5 => i + 1 = 6
      OBVIOUS
    <3> QED  BY <2>1, <2>2, <2>3, <3>1
  <2>5. KeepsNothing(d)
    BY <1>2, <2>2 DEF KeepsNothing
  <2>6. 1 \in 1..5
    OBVIOUS
  <2>7. Inside(d, 1)
    BY <2>1, <2>6
  <2>8. d # <<>>
    <3>1. Len(d) = 5 /\ Len(<<>>) = 0
      BY <1>2
    <3> QED  BY <3>1
  <2> QED  BY <2>4, <2>5, <2>7, <2>8
<1> QED  BY <1>1, <1>2, <1>3, <1>4, <1>5, <1>6 DEF a, b, c, d, GiveUp

(* Who holds the lock after the first step of what is left.                *)
Then(s, held) == Head(s).do = "lock" \/ (held /\ Head(s).do # "unlock")

LEMMA HeldByNow ==
    ASSUME NEW c, NEW t, NEW held \in BOOLEAN, Good(c, t, held), c.todo # <<>>,
           Head(c.todo).do \notin Free
    PROVE  held
<1>1. c.todo \in Seq(Steps) /\ Bracketed(c.todo)
  BY DEF Good, CallType, Going
<1>2. PICK n \in Nat : n = Len(c.todo) /\ n > 0
  BY <1>1
<1>3. Head(c.todo) = c.todo[1]
  BY <1>1
<1>4. Inside(c.todo, 1)
  BY <1>1, <1>2, <1>3 DEF Bracketed
<1>5. ~Outside(c.todo, 1)
  BY <1>2, <1>4 DEF Inside, Outside
<1> QED  BY <1>5 DEF Good, Going

LEMMA GoingOn ==
    ASSUME NEW c, NEW t, NEW held \in BOOLEAN, Good(c, t, held), c.todo # <<>>
    PROVE  /\ Tail(c.todo) \in Seq(Steps)
           /\ Tail(c.todo) # <<>> => Going(c.op, Tail(c.todo), Then(c.todo, held))
           /\ Tail(c.todo) = <<>> => ~Then(c.todo, held)
<1> DEFINE s == c.todo
           next == Then(c.todo, held)
<1>1. s \in Seq(Steps) /\ Bracketed(s) /\ s # <<>>
  BY DEF Good, CallType, Going
<1>2. IF held THEN Inside(s, 1) ELSE Outside(s, 1)
  BY DEF Good, Going
<1>3. IF next THEN Inside(Tail(s), 1) ELSE Outside(Tail(s), 1)
  <2> HIDE DEF s
  <2>1. CASE Head(s).do = "lock"
    BY <1>1, <2>1, RestBracketed DEF Then, s
  <2>2. CASE Head(s).do = "unlock"
    BY <1>1, <2>2, RestBracketed DEF Then, s
  <2>3. CASE Plain(Head(s))
    BY <1>1, <1>2, <2>3, RestBracketed DEF Then, s, Plain
  <2> QED  BY <2>1, <2>2, <2>3 DEF Plain
<1>4. Tail(s) \in Seq(Steps) /\ Bracketed(Tail(s))
  BY <1>1, RestBracketed
<1>5. Tail(s) = <<>> => ~next
  <2>1. ~Inside(<<>>, 1)
    BY DEF Inside
  <2> QED  BY <1>3, <2>1
<1>6. c.op # "handshake" => KeepsNothing(Tail(s))
  <2> SUFFICES ASSUME c.op # "handshake" PROVE KeepsNothing(Tail(s))
    OBVIOUS
  <2>1. KeepsNothing(s)
    BY DEF Good, Going
  <2> HIDE DEF s
  <2>2. PICK n \in Nat : n = Len(s) /\ n > 0
    BY <1>1
  <2>3. Len(Tail(s)) = n - 1 /\ \A i \in 1..n - 1 : Tail(s)[i] = s[i + 1]
    BY <1>1, <2>2
  <2> QED  BY <2>1, <2>2, <2>3 DEF KeepsNothing
<1>7. c.op = "handshake" /\ Tail(s) # <<>> => Tail(s) \in GiveUp \/ \E k \in 1..28 : Tail(s) = From(k)
  <2> SUFFICES ASSUME c.op = "handshake", Tail(s) # <<>>
               PROVE  Tail(s) \in GiveUp \/ \E k \in 1..28 : Tail(s) = From(k)
    OBVIOUS
  <2>1. s \in GiveUp \/ \E k \in 1..28 : s = From(k)
    BY DEF Good, Going
  <2>2. CASE s \in GiveUp
    <3>1. \A x, y : Tail(<<x, y>>) = <<y>> /\ Tail(<<x>>) = <<>>
      OBVIOUS
    <3> HIDE DEF s
    <3> QED  BY <2>2, <3>1 DEF GiveUp
  <2>3. ASSUME NEW k \in 1..28, s = From(k)
        PROVE  \E j \in 1..28 : Tail(s) = From(j)
    <3>1. /\ k < 28 => Tail(From(k)) = From(k + 1)
          /\ k = 28 => Tail(From(k)) = <<>>
      BY FromIs
    <3> HIDE DEF s
    <3>2. CASE k < 28
      <4>1. k + 1 \in 1..28
        BY <3>2
      <4> QED  BY <2>3, <3>1, <3>2, <4>1
    <3>3. CASE k = 28
      <4>1. Tail(s) = <<>>
        BY <2>3, <3>1, <3>3
      <4>2. Tail(s) # <<>>
        BY DEF s
      <4> QED  BY <4>1, <4>2
    <3>4. k < 28 \/ k = 28
      OBVIOUS
    <3> QED  BY <3>2, <3>3, <3>4
  <2> QED  BY <2>1, <2>2, <2>3
<1> QED  BY <1>3, <1>4, <1>5, <1>6, <1>7 DEF Going

LEMMA GoodFields ==
    ASSUME NEW c, NEW d, NEW t, NEW held, Good(c, t, held), d \in CallType,
           d.op = c.op, d.todo = c.todo
    PROVE  Good(d, t, held)
  BY DEF Good

LEMMA IdleIsGood ==
    ASSUME NEW t \in Threads, ConstantsFit
    PROVE  Good(Idle, t, FALSE)
<1>1. Idle \in CallType /\ Idle.op = None /\ Idle.todo = <<>>
  BY DEF Idle, CallType
<1>2. None # "handshake"
  BY DEF ConstantsFit, Operations
<1>3. Going(None, <<>>, FALSE)
  BY <1>2 DEF Going, Bracketed, KeepsNothing, Outside
<1> QED  BY <1>1, <1>3 DEF Good

LEMMA GoodNext ==
    ASSUME NEW t \in Threads, NEW held \in BOOLEAN, Good(call[t], t, held), call[t].todo # <<>>,
           ConstantsFit
    PROVE  Good(After(t), t, Then(call[t].todo, held)) /\ After(t) \in CallType
<1>1. call[t] \in CallType /\ call[t].op \in Ops[t] \cup {None} /\ call[t].op # None
  BY DEF Good
<1>2. CASE Tail(call[t].todo) = <<>>
  <2>1. After(t) = Idle /\ Then(call[t].todo, held) = FALSE
    BY <1>2, GoingOn DEF After, Then
  <2> QED  BY <2>1, IdleIsGood DEF Good
<1>3. CASE Tail(call[t].todo) # <<>>
  <2>1. After(t) = [call[t] EXCEPT !.todo = Tail(call[t].todo)]
    BY <1>3 DEF After
  <2>2. Tail(call[t].todo) \in Seq(Steps) /\ Going(call[t].op, Tail(call[t].todo), Then(call[t].todo, held))
    BY <1>3, GoingOn
  <2>3. /\ After(t) \in CallType /\ After(t).op = call[t].op
        /\ After(t).todo = Tail(call[t].todo)
    BY <1>1, <2>1, <2>2 DEF CallType
  <2> QED  BY <1>1, <1>3, <2>2, <2>3 DEF Good
<1> QED  BY <1>2, <1>3

LEMMA GoodFailed ==
    ASSUME NEW t \in Threads, Good(call[t], t, TRUE), call[t].todo # <<>>, ConstantsFit
    PROVE  Good(Failed(t), t, TRUE)
<1>1. call[t] \in CallType /\ call[t].op \in Ops[t] \cup {None} /\ call[t].op # None
  BY DEF Good
<1> DEFINE s == IF call[t].op = "handshake" /\ ~call[t].linked
                THEN <<Unlock, E5("NOT_READY")>> ELSE <<Unlock>>
<1>2. s \in GiveUp /\ s \in Seq(Steps) /\ s # <<>> /\ Bracketed(s) /\ KeepsNothing(s) /\ Inside(s, 1)
  BY RemaindersFit DEF GiveUp
<1>3. Failed(t) = [Idle EXCEPT !.op = call[t].op, !.ok = call[t].linked, !.todo = s]
  BY DEF Failed
<1> HIDE DEF s
<1>4. Failed(t) \in CallType /\ Failed(t).op = call[t].op /\ Failed(t).todo = s
  BY <1>1, <1>2, <1>3 DEF Idle, CallType
<1> QED  BY <1>1, <1>2, <1>4 DEF Good, Going

LEMMA GoodCall ==
    ASSUME NEW t \in Threads, NEW op \in Ops[t], ConstantsFit
    PROVE  Good([Idle EXCEPT !.op = op, !.todo = Script(op)], t, FALSE)
<1> DEFINE c == [Idle EXCEPT !.op = op, !.todo = Script(op)]
<1>1. op \in Operations /\ op # None
  BY DEF ConstantsFit
<1>2. /\ Script(op) \in Seq(Steps) /\ Script(op) # <<>> /\ Bracketed(Script(op))
      /\ Outside(Script(op), 1) /\ (op # "handshake" => KeepsNothing(Script(op)))
  <2>1. Len(<<>>) = 0
    OBVIOUS
  <2> QED  BY <1>1, <2>1, ScriptsFit DEF WellFormed
<1>3. op = "handshake" => Script(op) = From(1)
  BY FromFits DEF Script
<1>4. c \in CallType /\ c.op = op /\ c.todo = Script(op)
  BY <1>1, <1>2 DEF Idle, CallType
<1> HIDE DEF c
<1>5. Good(c, t, FALSE)
  BY <1>1, <1>2, <1>3, <1>4 DEF Good, Going
<1> QED  BY <1>5 DEF c

-----------------------------------------------------------------------------
(* Types, and calls that fit the lock.                                     *)

FwType == [pc : {"off", "up", "rung", "idle", "run", "answered", "consumed", "flash", "os"},
           linked : BOOLEAN, job : Commands \cup {None}, failed : BOOLEAN]

Registers ==
    /\ i7Ready \in [ready : SUBSET Flags, version : BOOLEAN] /\ e5Ready \in Readiness
    /\ i7Cmd \in Commands \cup {None} /\ data \in Values /\ i7Error \in BOOLEAN
    /\ card_wait \in BOOLEAN /\ doorbell \in BOOLEAN
    /\ bios_information \in [Cached -> Values \cup {None}]
    /\ fw \in FwType /\ faults \in 0..MaxFaults

Calls ==
    /\ lbp_lock \in Threads \cup {None} /\ call \in [Threads -> CallType]
    /\ \A t \in Threads : Good(call[t], t, lbp_lock = t)

LEMMA CallsInit == ConstantsFit /\ Init => Registers /\ Calls
<1> SUFFICES ASSUME ConstantsFit, Init PROVE Registers /\ Calls
  OBVIOUS
<1>1. Registers
  <2>1. i7Ready \in [ready : SUBSET Flags, version : BOOLEAN] /\ e5Ready \in Readiness
    BY DEF Init, Readiness
  <2>2. i7Cmd \in Commands \cup {None} /\ data \in Values /\ i7Error \in BOOLEAN
    BY DEF Init, Values
  <2>3. /\ card_wait \in BOOLEAN /\ doorbell \in BOOLEAN
        /\ bios_information \in [Cached -> Values \cup {None}]
    BY DEF Init
  <2>4. fw \in FwType
    BY DEF Init, FwType
  <2>5. faults \in 0..MaxFaults
    BY DEF Init, ConstantsFit
  <2> QED  BY <2>1, <2>2, <2>3, <2>4, <2>5 DEF Registers
<1>2. \A t \in Threads : call[t] = Idle /\ lbp_lock # t
  BY DEF Init, ConstantsFit
<1>3. \A t \in Threads : Good(call[t], t, lbp_lock = t)
  BY <1>2, IdleIsGood
<1>4. call \in [Threads -> CallType] /\ lbp_lock = None
  BY DEF Init, Idle, CallType
<1> QED  BY <1>1, <1>3, <1>4 DEF Calls

LEMMA TypesFollow == Registers /\ Calls => TypeOK
<1> SUFFICES ASSUME Registers, Calls PROVE TypeOK
  OBVIOUS
<1>1. ASSUME NEW t \in Threads
      PROVE  /\ call[t].op \in Ops[t] \cup {None} /\ (call[t].op = None) = (call[t].todo = <<>>)
             /\ call[t].owed \subseteq Commands
             /\ lbp_lock = t =>
                  \E i \in DOMAIN call[t].todo :
                    call[t].todo[i] = Unlock /\ \A j \in 1..i : call[t].todo[j] # Lock
             /\ call[t].todo # <<>> /\ Head(call[t].todo) = Unlock => lbp_lock = t
  <2>1. Good(call[t], t, lbp_lock = t) /\ call[t] \in CallType
    BY DEF Calls
  <2> DEFINE s == call[t].todo
  <2>2. s \in Seq(Steps) /\ call[t].owed \subseteq Commands
    BY <2>1 DEF CallType
  <2>3. ASSUME lbp_lock = t
        PROVE  \E i \in DOMAIN s : s[i] = Unlock /\ \A j \in 1..i : s[j] # Lock
    <3>1. Inside(s, 1)
      BY <2>1, <2>3 DEF Good, Going
    <3> HIDE DEF s
    <3>2. PICK i \in 1..Len(s) : s[i].do = "unlock" /\ \A m \in 1..i : s[m].do # "lock"
      BY <3>1 DEF Inside
    <3>3. s[i] \in Steps /\ i \in DOMAIN s
      BY <2>2
    <3>4. s[i] = Unlock
      BY <3>2, <3>3 DEF Steps, Fits, Unlock, Step
    <3>5. Lock.do = "lock"
      BY DEF Lock, Step
    <3> QED  BY <3>2, <3>3, <3>4, <3>5
  <2>4. s # <<>> /\ Head(s) = Unlock => lbp_lock = t
    <3>1. Unlock.do \notin Free
      BY DEF Unlock, Step, Free
    <3> QED  BY <2>1, <3>1, HeldByNow
  <2> QED  BY <2>1, <2>2, <2>3, <2>4 DEF Good
<1> QED  BY <1>1 DEF Registers, Calls, TypeOK, FwType, Readiness

(* A step of one caller.                                                   *)
LEMMA OneCall ==
    ASSUME Calls, NEW t \in Threads, NEW c \in CallType, call' = [call EXCEPT ![t] = c],
           Good(c, t, lbp_lock' = t), lbp_lock' \in Threads \cup {None},
           \A u \in Threads : u # t => (lbp_lock' = u) = (lbp_lock = u)
    PROVE  Calls'
<1>1. call' \in [Threads -> CallType]
  BY DEF Calls
<1>2. ASSUME NEW u \in Threads
      PROVE  Good(call'[u], u, lbp_lock' = u)
  <2>1. CASE u = t
    BY <2>1 DEF Calls
  <2>2. CASE u # t
    BY <2>2 DEF Calls
  <2> QED  BY <2>1, <2>2
<1> QED  BY <1>1, <1>2 DEF Calls

LEMMA AtStep ==
    ASSUME Calls, ConstantsFit, NEW t \in Threads, NEW do, At(t, do)
    PROVE  /\ Good(call[t], t, lbp_lock = t) /\ call[t] \in CallType /\ call[t].todo # <<>>
           /\ Head(call[t].todo) \in Steps /\ Head(call[t].todo).do = do
           /\ do \notin Free => lbp_lock = t
           /\ After(t) \in CallType
           /\ Good(After(t), t, do = "lock" \/ (lbp_lock = t /\ do # "unlock"))
           /\ do \notin Free => Failed(t) \in CallType /\ Good(Failed(t), t, lbp_lock = t)
<1>1. Good(call[t], t, lbp_lock = t) /\ call[t] \in CallType
  BY DEF Calls
<1>2. call[t].todo # <<>> /\ Head(call[t].todo).do = do
  BY DEF At
<1>3. call[t].todo \in Seq(Steps)
  BY <1>1 DEF CallType
<1>4. Head(call[t].todo) \in Steps
  BY <1>2, <1>3
<1>5. do \notin Free => lbp_lock = t
  BY <1>1, <1>2, HeldByNow
<1>6. /\ After(t) \in CallType
      /\ Good(After(t), t, do = "lock" \/ (lbp_lock = t /\ do # "unlock"))
  <2>1. Then(call[t].todo, lbp_lock = t) = (do = "lock" \/ (lbp_lock = t /\ do # "unlock"))
    BY <1>2 DEF Then
  <2>2. Good(After(t), t, Then(call[t].todo, lbp_lock = t)) /\ After(t) \in CallType
    BY <1>1, <1>2, GoodNext
  <2> QED  BY <2>1, <2>2
<1>7. ASSUME do \notin Free
      PROVE  Failed(t) \in CallType /\ Good(Failed(t), t, lbp_lock = t)
  <2>1. (lbp_lock = t) = TRUE
    BY <1>5, <1>7
  <2>2. Good(Failed(t), t, TRUE)
    BY <1>1, <1>2, <2>1, GoodFailed
  <2> QED  BY <2>1, <2>2 DEF Good
<1> QED  BY <1>1, <1>2, <1>4, <1>5, <1>6, <1>7

(* A step without the lock, and what it makes of a call.                   *)
LEMMA CallsKept ==
    ASSUME Calls, ConstantsFit, NEW t \in Threads, NEW c \in CallType,
           Proceed(t, c), lbp_lock' = lbp_lock, Good(c, t, lbp_lock = t)
    PROVE  Calls'
<1>1. Good(c, t, lbp_lock' = t)
  OBVIOUS
<1>2. lbp_lock' \in Threads \cup {None}
  BY DEF Calls
<1> QED  BY <1>1, <1>2, OneCall DEF Proceed

LEMMA ProceedAfter ==
    ASSUME Calls, ConstantsFit, NEW t \in Threads, NEW do, At(t, do), do \notin {"lock", "unlock"},
           NEW c \in CallType, c.op = After(t).op, c.todo = After(t).todo, Proceed(t, c),
           lbp_lock' = lbp_lock
    PROVE  Calls'
<1>1. Good(After(t), t, do = "lock" \/ (lbp_lock = t /\ do # "unlock"))
  BY AtStep
<1>2. (do = "lock" \/ (lbp_lock = t /\ do # "unlock")) = (lbp_lock = t)
  OBVIOUS
<1>3. Good(c, t, lbp_lock = t)
  BY <1>1, <1>2, GoodFields
<1> QED  BY <1>3, CallsKept

LEMMA ProceedFailed ==
    ASSUME Calls, ConstantsFit, NEW t \in Threads, NEW do, At(t, do), do \notin Free,
           Proceed(t, Failed(t)), lbp_lock' = lbp_lock
    PROVE  Calls'
  BY AtStep, CallsKept

LEMMA Annotated ==
    ASSUME NEW c \in CallType
    PROVE  /\ [c EXCEPT !.linked = TRUE] \in CallType
           /\ \A b \in BOOLEAN : [c EXCEPT !.bad = b] \in CallType /\ [c EXCEPT !.alone = b] \in CallType
           /\ \A o \in SUBSET Commands : [c EXCEPT !.owed = o] \in CallType
  BY DEF CallType

LEMMA TheOnly == \A v : The({v}) = v
  BY DEF The

LEMMA LockSteps ==
    ASSUME Calls, ConstantsFit, NEW t \in Threads,
           TakeLock(t) \/ LeaveLock(t) \/ \E op \in Ops[t] : Call(t, op)
    PROVE  Calls'
<1>1. CASE TakeLock(t)
  <2> DEFINE c == [After(t) EXCEPT !.alone = @ /\ CardIdle]
  <2>1. At(t, "lock") /\ lbp_lock = None /\ lbp_lock' = t /\ Proceed(t, c)
    BY <1>1 DEF TakeLock
  <2>2. After(t) \in CallType /\ Good(After(t), t, TRUE)
    <3>1. Good(After(t), t, "lock" = "lock" \/ (lbp_lock = t /\ "lock" # "unlock"))
      BY <2>1, AtStep
    <3> QED  BY <2>1, <3>1, AtStep
  <2>3. c \in CallType /\ c.op = After(t).op /\ c.todo = After(t).todo
    <3>1. (After(t).alone /\ CardIdle) \in BOOLEAN
      OBVIOUS
    <3> QED  BY <2>2, <3>1 DEF CallType
  <2> HIDE DEF c
  <2>4. Good(c, t, lbp_lock' = t)
    BY <2>1, <2>2, <2>3, GoodFields
  <2>5. \A u \in Threads : u # t => (lbp_lock' = u) = (lbp_lock = u)
    BY <2>1 DEF ConstantsFit
  <2> QED  BY <2>1, <2>3, <2>4, <2>5, OneCall DEF Proceed
<1>2. CASE LeaveLock(t)
  <2>1. At(t, "unlock") /\ lbp_lock' = None /\ Proceed(t, After(t))
    BY <1>2 DEF LeaveLock
  <2>2. After(t) \in CallType /\ Good(After(t), t, FALSE) /\ lbp_lock = t
    <3>1. Good(After(t), t, "unlock" = "lock" \/ (lbp_lock = t /\ "unlock" # "unlock"))
      BY <2>1, AtStep
    <3> QED  BY <2>1, <3>1, AtStep DEF Free
  <2>3. \A u \in Threads : u # t => (lbp_lock' = u) = (lbp_lock = u)
    BY <2>1, <2>2 DEF ConstantsFit
  <2>4. (lbp_lock' = t) = FALSE
    BY <2>1 DEF ConstantsFit
  <2> QED  BY <2>1, <2>2, <2>3, <2>4, OneCall DEF Proceed
<1>3. ASSUME NEW op \in Ops[t], Call(t, op)
      PROVE  Calls'
  <2> DEFINE c == [Idle EXCEPT !.op = op, !.todo = Script(op)]
  <2>1. call[t].op = None /\ Proceed(t, c) /\ lbp_lock' = lbp_lock
    BY <1>3 DEF Call
  <2>2. Good(c, t, FALSE)
    BY GoodCall
  <2> HIDE DEF c
  <2>3. lbp_lock # t
    <3>1. Good(call[t], t, lbp_lock = t)
      BY DEF Calls
    <3>2. call[t].todo = <<>>
      BY <2>1, <3>1 DEF Good
    <3> QED  BY <3>1, <3>2 DEF Good, Going, Inside
  <2> QED  BY <2>1, <2>2, <2>3, CallsKept DEF Good
<1> QED  BY <1>1, <1>2, <1>3

(* The steps that only go on, or fail.                                     *)
LEMMA GoOnOrFail ==
    ASSUME Calls, ConstantsFit, NEW t \in Threads, NEW do, At(t, do), do \notin Free \cup {"unlock"},
           NEW p \in BOOLEAN, Proceed(t, IF p THEN After(t) ELSE Failed(t)), lbp_lock' = lbp_lock
    PROVE  Calls'
<1>1. CASE p
  <2>1. After(t) \in CallType /\ do \notin {"lock", "unlock"} /\ Proceed(t, After(t))
    BY <1>1, AtStep DEF Free
  <2> QED  BY <2>1, ProceedAfter
<1>2. CASE ~p
  <2>1. do \notin Free /\ Proceed(t, Failed(t))
    BY <1>2
  <2> QED  BY <2>1, ProceedFailed
<1> QED  BY <1>1, <1>2

LEMMA SimpleSteps ==
    ASSUME Calls, ConstantsFit, NEW t \in Threads,
           \/ Forget(t) \/ WriteData(t) \/ WriteE5(t) \/ Reinit(t) \/ WaitConsumed(t) \/ Keep(t)
           \/ NoError(t) \/ Pulse(t) \/ ResetStop(t)
    PROVE  Calls'
<1>1. /\ Proceed(t, After(t)) /\ lbp_lock' = lbp_lock
      /\ \E do \in StepNames \ {"lock", "unlock"} : At(t, do)
  BY DEF Forget, WriteData, WriteE5, Reinit, WaitConsumed, Keep, NoError, Pulse, ResetStop,
         StepNames, registers
<1>2. PICK do \in StepNames \ {"lock", "unlock"} : At(t, do)
  BY <1>1
<1>3. After(t) \in CallType
  BY <1>2, AtStep
<1> QED  BY <1>1, <1>2, <1>3, ProceedAfter

LEMMA CheckSteps ==
    ASSUME Calls, ConstantsFit, NEW t \in Threads,
           \/ Check(t) \/ WaitIrq(t) \/ WaitState(t) \/ TimedOut(t) \/ CopyImage(t)
    PROVE  Calls'
<1>1. CASE Check(t)
  <2>1. lbp_lock' = lbp_lock
    BY <1>1 DEF Check
  <2>2. CASE At(t, "require") /\ Proceed(t, IF i7Ready.ready = Arg(t) THEN After(t) ELSE Failed(t))
    BY <2>1, <2>2, GoOnOrFail DEF Free
  <2>3. CASE At(t, "version") /\ Proceed(t, IF i7Ready.version THEN After(t) ELSE Failed(t))
    <3>1. Proceed(t, IF i7Ready.version = TRUE THEN After(t) ELSE Failed(t)) \/ Proceed(t, After(t)) \/ Proceed(t, Failed(t))
      BY <2>3
    <3>2. CASE Proceed(t, After(t))
      BY <2>1, <2>3, <3>2, AtStep, ProceedAfter
    <3>3. CASE Proceed(t, Failed(t))
      BY <2>1, <2>3, <3>3, ProceedFailed DEF Free
    <3> QED  BY <2>3, <3>2, <3>3
  <2>4. CASE At(t, "linked") /\ Proceed(t, [After(t) EXCEPT !.linked = TRUE])
    <3> DEFINE c == [After(t) EXCEPT !.linked = TRUE]
    <3>1. After(t) \in CallType
      BY <2>4, AtStep
    <3>2. c \in CallType /\ c.op = After(t).op /\ c.todo = After(t).todo
      BY <3>1 DEF CallType
    <3> HIDE DEF c
    <3> QED  BY <2>1, <2>4, <3>2, ProceedAfter DEF c
  <2> QED  BY <1>1, <2>2, <2>3, <2>4 DEF Check
<1>2. CASE WaitIrq(t)
  <2>1. /\ At(t, "irq") /\ lbp_lock' = lbp_lock
        /\ Proceed(t, IF i7Ready.ready \ {"AFTER_REBOOT"} = {"UP"} THEN After(t) ELSE Failed(t))
    BY <1>2 DEF WaitIrq
  <2> QED  BY <2>1, GoOnOrFail DEF Free
<1>3. CASE WaitState(t)
  <2>1. lbp_lock' = lbp_lock
    BY <1>3 DEF WaitState
  <2>2. CASE At(t, "state") /\ Proceed(t, IF i7Ready.ready \cap Arg(t) \cap Errors = {} THEN After(t) ELSE Failed(t))
    BY <2>1, <2>2, GoOnOrFail DEF Free
  <2>3. CASE At(t, "any_state") /\ Proceed(t, After(t))
    BY <2>1, <2>3, AtStep, ProceedAfter
  <2> QED  BY <1>3, <2>2, <2>3 DEF WaitState
<1>4. CASE TimedOut(t)
  <2>1. PICK do \in {"irq", "consumed", "state", "any_state"} : At(t, do)
    BY <1>4 DEF TimedOut
  <2>2. do \notin Free /\ Proceed(t, Failed(t)) /\ lbp_lock' = lbp_lock
    BY <1>4 DEF TimedOut, Free
  <2> QED  BY <2>1, <2>2, ProceedFailed
<1>5. CASE CopyImage(t)
  <2>1. At(t, "copy") /\ lbp_lock' = lbp_lock
    BY <1>5 DEF CopyImage
  <2>2. CASE Proceed(t, After(t))
    BY <2>1, <2>2, AtStep, ProceedAfter
  <2>3. CASE Proceed(t, Failed(t))
    BY <2>1, <2>3, ProceedFailed DEF Free
  <2> QED  BY <1>5, <2>2, <2>3 DEF CopyImage
<1> QED  BY <1>1, <1>2, <1>3, <1>4, <1>5

LEMMA ReadSteps ==
    ASSUME Calls, ConstantsFit, NEW t \in Threads,
           \/ WriteCmd(t) \/ FromCache(t) \/ ReadData(t) \/ TestError(t)
    PROVE  Calls'
<1>1. CASE WriteCmd(t)
  <2> DEFINE o == IF Noted(t) THEN After(t).owed \cup Arg(t) ELSE {}
             c == [After(t) EXCEPT !.owed = o]
  <2>1. At(t, "cmd") /\ lbp_lock' = lbp_lock /\ Proceed(t, c)
    BY <1>1 DEF WriteCmd
  <2>2. After(t) \in CallType /\ Arg(t) \subseteq Commands
    BY <2>1, AtStep DEF Arg, Steps, Fits
  <2>3. o \in SUBSET Commands
    BY <2>2 DEF CallType
  <2> HIDE DEF o
  <2>4. c \in CallType /\ c.op = After(t).op /\ c.todo = After(t).todo
    BY <2>2, <2>3, Annotated DEF CallType
  <2> HIDE DEF c
  <2> QED  BY <2>1, <2>4, ProceedAfter
<1>2. CASE FromCache(t)
  <2> DEFINE p == The(Arg(t))
             b == bios_information[p] # p
             c == [call[t] EXCEPT !.todo = <<Unlock>>, !.bad = b]
  <2>1. At(t, "cached") /\ lbp_lock' = lbp_lock
    BY <1>2 DEF FromCache
  <2>2. Proceed(t, After(t)) \/ Proceed(t, Failed(t)) \/ Proceed(t, c)
    BY <1>2 DEF FromCache
  <2>3. CASE Proceed(t, After(t))
    BY <2>1, <2>3, AtStep, ProceedAfter
  <2>4. CASE Proceed(t, Failed(t))
    BY <2>1, <2>4, ProceedFailed DEF Free
  <2>5. CASE Proceed(t, c)
    <3>1. /\ Good(call[t], t, lbp_lock = t) /\ call[t] \in CallType /\ call[t].todo # <<>>
          /\ (lbp_lock = t) = TRUE
      BY <2>1, AtStep DEF Free
    <3>2. /\ <<Unlock>> \in GiveUp /\ <<Unlock>> \in Seq(Steps) /\ <<Unlock>> # <<>>
          /\ Bracketed(<<Unlock>>) /\ KeepsNothing(<<Unlock>>) /\ Inside(<<Unlock>>, 1)
      BY RemaindersFit DEF GiveUp
    <3>3. b \in BOOLEAN
      OBVIOUS
    <3> HIDE DEF b
    <3>4. c \in CallType /\ c.op = call[t].op /\ c.todo = <<Unlock>>
      BY <3>1, <3>2, <3>3 DEF CallType
    <3> HIDE DEF c
    <3>5. Good(c, t, TRUE)
      BY <3>1, <3>2, <3>4 DEF Good, Going
    <3> QED  BY <2>1, <2>5, <3>1, <3>4, <3>5, CallsKept
  <2> QED  BY <2>2, <2>3, <2>4, <2>5
<1>3. CASE ReadData(t)
  <2>1. lbp_lock' = lbp_lock
    BY <1>3 DEF ReadData
  <2>2. ASSUME NEW do, At(t, do), do \notin {"lock", "unlock"}, NEW b \in BOOLEAN,
               Proceed(t, [After(t) EXCEPT !.bad = b])
        PROVE  Calls'
    <3> DEFINE c == [After(t) EXCEPT !.bad = b]
    <3>1. After(t) \in CallType
      BY <2>2, AtStep
    <3>2. c \in CallType /\ c.op = After(t).op /\ c.todo = After(t).todo
      BY <3>1, <2>2 DEF CallType
    <3> HIDE DEF c
    <3> QED  BY <2>1, <2>2, <3>2, ProceedAfter DEF c
  <2>3. CASE At(t, "fetch") /\ Proceed(t, [After(t) EXCEPT !.bad = @ \/ (Noted(t) /\ data \notin Arg(t))])
    <3>1. (After(t).bad \/ (Noted(t) /\ data \notin Arg(t))) \in BOOLEAN
      OBVIOUS
    <3> QED  BY <2>2, <2>3, <3>1
  <2>4. CASE At(t, "rcvy")
    <3>1. (data # "flags" /\ i7Ready.ready = {"READY"}) \in BOOLEAN
      OBVIOUS
    <3>2. \/ Proceed(t, [After(t) EXCEPT !.bad = data # "flags" /\ i7Ready.ready = {"READY"}])
          \/ Proceed(t, Failed(t))
      BY <1>3, <2>4 DEF ReadData, At
    <3>3. CASE Proceed(t, Failed(t))
      BY <2>1, <2>4, <3>3, ProceedFailed DEF Free
    <3> QED  BY <2>2, <2>4, <3>1, <3>2, <3>3
  <2> QED  BY <1>3, <2>3, <2>4 DEF ReadData
<1>4. CASE TestError(t)
  <2> DEFINE c == [call[t] EXCEPT !.todo = ClearError, !.ok = FALSE, !.owed = {}]
  <2>1. At(t, "error") /\ lbp_lock' = lbp_lock
    BY <1>4 DEF TestError
  <2>2. Proceed(t, c) \/ Proceed(t, After(t))
    BY <1>4 DEF TestError
  <2>3. CASE Proceed(t, After(t))
    BY <2>1, <2>3, AtStep, ProceedAfter
  <2>4. CASE Proceed(t, c)
    <3>1. /\ Good(call[t], t, lbp_lock = t) /\ call[t] \in CallType /\ call[t].todo # <<>>
          /\ (lbp_lock = t) = TRUE /\ Head(call[t].todo).do = "error"
      BY <2>1, AtStep DEF Free
    <3>2. /\ ClearError \in Seq(Steps) /\ ClearError # <<>> /\ Bracketed(ClearError)
          /\ KeepsNothing(ClearError) /\ Inside(ClearError, 1)
      BY RemaindersFit
    <3>3. call[t].op # "handshake"
      <4> SUFFICES ASSUME call[t].op = "handshake" PROVE FALSE
        OBVIOUS
      <4>1. call[t].todo \notin GiveUp
        BY <3>1 DEF GiveUp, Unlock, E5, Step
      <4>2. PICK k \in 1..28 : call[t].todo = From(k)
        BY <3>1, <4>1 DEF Good, Going
      <4>3. Handshake[k].do = "error"
        BY <3>1, <4>2, FromIs
      <4> QED  BY <4>3, HandshakeAvoids
    <3>4. c \in CallType /\ c.op = call[t].op /\ c.todo = ClearError
      BY <3>1, <3>2 DEF CallType
    <3> HIDE DEF c
    <3>5. Good(c, t, TRUE)
      BY <3>1, <3>2, <3>3, <3>4 DEF Good, Going
    <3> QED  BY <2>1, <2>4, <3>1, <3>4, <3>5, CallsKept
  <2> QED  BY <2>2, <2>3, <2>4
<1> QED  BY <1>1, <1>2, <1>3, <1>4

(* The card's steps, and the host's without a call.                        *)
OtherStep ==
    FwStep \/ FwBoot \/ FwRing \/ FwLink \/ OsState \/ OsReboot \/ Interrupt \/ PowerFlag

LEMMA OtherSteps ==
    ASSUME Calls, OtherStep
    PROVE  Calls' /\ lbp_lock' = lbp_lock /\ \A t \in Threads : /\ call'[t].todo = call[t].todo
                                                                /\ call'[t].op = call[t].op
<1>1. lbp_lock' = lbp_lock
  BY DEF OtherStep, FwStep, FwTake, FwRun, FwConsume, FwState, FwFlashed, FwBoot, FwRing, FwLink,
         OsState, OsReboot, Interrupt, PowerFlag, host
<1>2. CASE call' = call
  BY <1>1, <1>2 DEF Calls
<1>3. CASE FwRun /\ call' # call
  <2>1. call' = [t \in Threads |->
                   IF t = lbp_lock /\ data = Input(fw.job)
                   THEN [call[t] EXCEPT !.owed = @ \ {fw.job}] ELSE call[t]]
    BY <1>3 DEF FwRun
  <2>2. ASSUME NEW t \in Threads
        PROVE  /\ call'[t] \in CallType /\ call'[t].todo = call[t].todo /\ call'[t].op = call[t].op
               /\ Good(call'[t], t, lbp_lock' = t)
    <3>1. call[t] \in CallType /\ Good(call[t], t, lbp_lock = t)
      BY DEF Calls
    <3>2. /\ call'[t] \in CallType /\ call'[t].todo = call[t].todo /\ call'[t].op = call[t].op
      BY <2>1, <3>1 DEF CallType
    <3> QED  BY <1>1, <3>1, <3>2, GoodFields
  <2>3. call' \in [Threads -> CallType]
    BY <2>1, <2>2
  <2> QED  BY <1>1, <2>2, <2>3 DEF Calls
<1>4. FwRun \/ call' = call
  BY DEF OtherStep, FwStep, FwTake, FwRun, FwConsume, FwState, FwFlashed, FwBoot, FwRing, FwLink,
         OsState, OsReboot, Interrupt, PowerFlag, host
<1> QED  BY <1>1, <1>2, <1>3, <1>4

LEMMA CallsStep ==
    ASSUME Calls, ConstantsFit, [Next]_vars
    PROVE  Calls'
<1>1. CASE \E t \in Threads :
             HostStep(t) \/ TakeLock(t) \/ TimedOut(t) \/ \E op \in Ops[t] : Call(t, op)
  BY <1>1, LockSteps, SimpleSteps, CheckSteps, ReadSteps DEF HostStep
<1>2. CASE OtherStep
  BY <1>2, OtherSteps
<1>3. CASE UNCHANGED vars
  BY <1>3 DEF vars, Calls
<1> QED  BY <1>1, <1>2, <1>3 DEF Next, OtherStep

LEMMA RegistersStep ==
    ASSUME Registers, Calls, ConstantsFit, [Next]_vars
    PROVE  Registers'
<1> USE DEF Registers
<1>1. ASSUME NEW t \in Threads, WriteCmd(t)
      PROVE  Registers'
  <2>1. At(t, "cmd") /\ UNCHANGED <<i7Ready, e5Ready, data, i7Error, card_wait, doorbell, bios_information, fw, faults>>
    BY <1>1 DEF WriteCmd
  <2>2. Arg(t) = {} \/ \E c \in Commands : Arg(t) = {c}
    BY <2>1, AtStep DEF Arg, Steps, Fits
  <2>3. i7Cmd' \in Commands \cup {None}
    BY <1>1, <2>2, TheOnly DEF WriteCmd
  <2> QED  BY <2>1, <2>3
<1>2. ASSUME NEW t \in Threads, WriteData(t)
      PROVE  Registers'
  <2>1. At(t, "data") /\ UNCHANGED <<i7Ready, e5Ready, i7Cmd, i7Error, card_wait, doorbell, bios_information, fw, faults>>
    BY <1>2 DEF WriteData
  <2>2. \E v \in Values : Arg(t) = {v}
    BY <2>1, AtStep DEF Arg, Steps, Fits
  <2>3. data' \in Values
    BY <1>2, <2>2, TheOnly DEF WriteData
  <2> QED  BY <2>1, <2>3
<1>3. ASSUME NEW t \in Threads, WriteE5(t)
      PROVE  Registers'
  <2>1. At(t, "e5") /\ UNCHANGED <<i7Ready, i7Cmd, data, i7Error, card_wait, doorbell, bios_information, fw, faults>>
    BY <1>3 DEF WriteE5
  <2>2. \E e \in Readiness : Arg(t) = {e}
    BY <2>1, AtStep DEF Arg, Steps, Fits
  <2>3. e5Ready' \in Readiness
    BY <1>3, <2>2, TheOnly DEF WriteE5
  <2> QED  BY <2>1, <2>3
<1>4. ASSUME NEW t \in Threads, Keep(t)
      PROVE  Registers'
  <2>1. UNCHANGED <<i7Ready, e5Ready, i7Cmd, data, i7Error, card_wait, doorbell, fw, faults>>
    BY <1>4 DEF Keep, registers
  <2>2. bios_information' \in [Cached -> Values \cup {None}]
    BY <1>4 DEF Keep
  <2> QED  BY <2>1, <2>2
<1>5. ASSUME NEW t \in Threads, Forget(t)
      PROVE  Registers'
  <2>1. UNCHANGED <<i7Ready, e5Ready, i7Cmd, data, i7Error, card_wait, doorbell, fw, faults>>
    BY <1>5 DEF Forget, registers
  <2>2. bios_information' \in [Cached -> Values \cup {None}]
    BY <1>5 DEF Forget
  <2> QED  BY <2>1, <2>2
<1>6. ASSUME NEW t \in Threads, Reinit(t) \/ NoError(t) \/ TimedOut(t) \/ CopyImage(t)
      PROVE  Registers'
  <2>1. CASE Reinit(t) \/ NoError(t)
    BY <2>1 DEF Reinit, NoError, registers
  <2>2. CASE TimedOut(t) \/ CopyImage(t)
    <3>1. /\ UNCHANGED <<registers, card_wait, doorbell, bios_information, fw>>
          /\ faults' = faults \/ Fault
      BY <2>2 DEF TimedOut, CopyImage
    <3>2. faults' \in 0..MaxFaults
      BY <3>1 DEF Fault, ConstantsFit
    <3> QED  BY <3>1, <3>2 DEF registers
  <2> QED  BY <1>6, <2>1, <2>2
<1>7. ASSUME NEW t \in Threads, Pulse(t) \/ ResetStop(t)
      PROVE  Registers'
  <2>1. CASE Pulse(t)
    <3>1. fw' \in FwType
      BY <2>1 DEF Pulse, FwType
    <3> QED  BY <2>1, <3>1 DEF Pulse, registers
  <2>2. CASE ResetStop(t)
    BY <2>2 DEF ResetStop
  <2> QED  BY <1>7, <2>1, <2>2
<1>8. ASSUME NEW t \in Threads,
             \/ LeaveLock(t) \/ Check(t) \/ FromCache(t) \/ WaitIrq(t) \/ WaitConsumed(t)
             \/ WaitState(t) \/ ReadData(t) \/ TestError(t) \/ TakeLock(t)
             \/ \E op \in Ops[t] : Call(t, op)
      PROVE  Registers'
  <2>1. UNCHANGED <<registers, card_wait, doorbell, bios_information, fw, faults>>
    BY <1>8 DEF LeaveLock, Check, FromCache, WaitIrq, WaitConsumed, WaitState, ReadData, TestError,
                TakeLock, Call
  <2> QED  BY <2>1 DEF registers
<1>9. ASSUME FwBoot \/ FwRing \/ FwLink \/ FwTake
      PROVE  Registers'
  <2>1. CASE FwBoot
    <3>1. fw' \in FwType /\ i7Ready' \in [ready : SUBSET Flags, version : BOOLEAN]
      BY <2>1 DEF FwBoot, FwType, Flags
    <3>2. data' \in Values /\ i7Error' \in BOOLEAN
      BY <2>1 DEF FwBoot, Values
    <3> QED  BY <2>1, <3>1, <3>2 DEF FwBoot, host
  <2>2. CASE FwRing
    <3>1. fw' \in FwType
      BY <2>2 DEF FwRing, FwType
    <3> QED  BY <2>2, <3>1 DEF FwRing, registers
  <2>3. CASE FwLink
    <3>1. fw' \in FwType /\ i7Ready' \in [ready : SUBSET Flags, version : BOOLEAN]
      BY <2>3 DEF FwLink, FwType, Flags
    <3> QED  BY <2>3, <3>1 DEF FwLink, host
  <2>4. CASE FwTake
    <3>1. fw' \in FwType
      BY <2>4 DEF FwTake, FwType
    <3>2. i7Ready.ready \in SUBSET Flags /\ {"BUSY"} \in SUBSET Flags
      BY DEF Flags
    <3>3. i7Ready' \in [ready : SUBSET Flags, version : BOOLEAN]
      BY <2>4, <3>2 DEF FwTake
    <3> QED  BY <2>4, <3>1, <3>3 DEF FwTake, host
  <2> QED  BY <1>9, <2>1, <2>2, <2>3, <2>4
<1>10. CASE FwRun
  <2>1. fw' \in FwType
    BY <1>10 DEF FwRun, FwType
  <2>2. data' \in Values /\ i7Error' \in BOOLEAN
    BY <1>10 DEF FwRun, Answer, Values
  <2>3. faults' \in 0..MaxFaults
    BY <1>10 DEF FwRun, Fault, ConstantsFit
  <2> QED  BY <1>10, <2>1, <2>2, <2>3 DEF FwRun, host
<1>11. CASE FwConsume
  <2>1. fw' \in FwType
    BY <1>11 DEF FwConsume, FwType
  <2> QED  BY <1>11, <2>1 DEF FwConsume, host
<1>12. CASE FwState
  <2>1. fw' \in FwType
    BY <1>12 DEF FwState, FwType
  <2>2. \E ready \in SUBSET Flags : i7Ready' = [i7Ready EXCEPT !.ready = ready]
    <3>1. /\ {"GENERAL_ERROR"} \in SUBSET Flags /\ {"BOOTING_BLOCK_IO"} \in SUBSET Flags
          /\ {"BOOTING"} \in SUBSET Flags /\ {"FLASHING"} \in SUBSET Flags
          /\ {"DONE"} \in SUBSET Flags /\ {"READY"} \in SUBSET Flags /\ {"UP"} \in SUBSET Flags
      BY DEF Flags, Errors
    <3>2. \E ready \in {{"GENERAL_ERROR"}, {"BOOTING_BLOCK_IO"}, {"BOOTING"}, {"FLASHING"}, {"DONE"},
                        {"READY"}, {"UP"}} : i7Ready' = [i7Ready EXCEPT !.ready = ready]
      BY <1>12 DEF FwState
    <3> QED  BY <3>1, <3>2
  <2>3. i7Ready' \in [ready : SUBSET Flags, version : BOOLEAN]
    BY <2>2
  <2> QED  BY <1>12, <2>1, <2>3 DEF FwState, host
<1>13. CASE FwFlashed
  <2>1. fw' \in FwType /\ i7Ready' \in [ready : SUBSET Flags, version : BOOLEAN]
    BY <1>13 DEF FwFlashed, FwType, Flags
  <2> QED  BY <1>13, <2>1 DEF FwFlashed, host
<1>14. CASE OsState
  <2>1. i7Ready' \in [ready : SUBSET Flags, version : BOOLEAN]
    BY <1>14 DEF OsState, Flags
  <2> QED  BY <1>14, <2>1 DEF OsState, host
<1>15. CASE OsReboot
  <2>1. fw' \in FwType
    BY <1>15 DEF OsReboot, FwType
  <2> QED  BY <1>15, <2>1 DEF OsReboot, host
<1>16. CASE Interrupt
  BY <1>16 DEF Interrupt, registers
<1>17. CASE PowerFlag
  <2>1. i7Ready' \in [ready : SUBSET Flags, version : BOOLEAN]
    BY <1>17 DEF PowerFlag, Flags
  <2>2. faults' \in 0..MaxFaults
    BY <1>17 DEF PowerFlag, Fault, ConstantsFit
  <2> QED  BY <1>17, <2>1, <2>2 DEF PowerFlag
<1>18. CASE UNCHANGED vars
  BY <1>18 DEF vars, registers
<1> QED
  BY <1>1, <1>2, <1>3, <1>4, <1>5, <1>6, <1>7, <1>8, <1>9, <1>10, <1>11, <1>12, <1>13, <1>14,
     <1>15, <1>16, <1>17, <1>18 DEF Next, HostStep, FwStep

-----------------------------------------------------------------------------
(* What a handshake knows of the card, at each step of its script.         *)

LinkSettled ==
    /\ fw.pc = "off" => ~fw.linked
    /\ "UP" \in i7Ready.ready => ~fw.linked

(* The steps that write a command, those that wait for it, and which it is.*)
Orders == {13, 18, 21, 26}
Waits == {14, 19, 22, 27}
Asked(k) == IF k = 14 THEN "BIOS_BUILD_DATE" ELSE IF k = 22 THEN "BIOS_VER" ELSE "SET_TIME"

(* It has emptied the command register, where later there is only its own. *)
CommandAt(k) == k >= 4 => i7Cmd = None \/ (k \in Waits /\ i7Cmd = Asked(k))

(* Between the interrupt and the link the card is not READY, and once it   *)
(* links it has nothing to do.                                             *)
LinkingAt(k) == k \in 7..10 => /\ "READY" \in i7Ready.ready => fw.linked
                               /\ fw.linked => fw.pc = "idle"

(* From then on it does nothing but what the handshake gives it.           *)
ServingAt(k) ==
    k >= 11 => /\ fw.linked /\ fw.pc \in {"idle", "run", "answered", "consumed"}
               /\ fw.pc \in {"run", "answered"} => i7Cmd = fw.job
               /\ fw.pc # "idle" => fw.job \in Cached \cup {"SET_TIME"}

DataAt(k) ==
    /\ k \in {14, 22} /\ (i7Cmd = None \/ fw.pc = "answered") => data = Asked(k)
    /\ k \in {15, 23} => data = Asked(k - 1)

PhaseAt(t, k) ==
    lbp_lock = t /\ CommandAt(k) /\ LinkingAt(k) /\ ServingAt(k) /\ DataAt(k)

Place(t, k) == call[t].op = "handshake" /\ call[t].todo = From(k)
Phase(t) == \A k \in 3..27 : Place(t, k) => PhaseAt(t, k)

HandshakeInv == LinkSettled /\ \A t \in Threads : Phase(t)

LEMMA WhereIs ==
    \A j \in 1..28 :
      /\ (Handshake[j].do = "lock") = (j = 2) /\ (Handshake[j].do = "unlock") = (j = 28)
      /\ (Handshake[j].do = "cmd") = (j \in {3} \cup Orders)
      /\ (Handshake[j].do = "consumed") = (j \in Waits)
      /\ (Handshake[j].do = "irq") = (j = 6) /\ (Handshake[j].do = "state") = (j = 10)
      /\ (Handshake[j].do = "data") = (j \in {8, 17, 25})
      /\ (Handshake[j].do = "keep") = (j \in {15, 23})
<1> SUFFICES ASSUME NEW j \in 1..28
             PROVE  /\ (Handshake[j].do = "lock") = (j = 2) /\ (Handshake[j].do = "unlock") = (j = 28)
                    /\ (Handshake[j].do = "cmd") = (j \in {3} \cup Orders)
                    /\ (Handshake[j].do = "consumed") = (j \in Waits)
                    /\ (Handshake[j].do = "irq") = (j = 6) /\ (Handshake[j].do = "state") = (j = 10)
                    /\ (Handshake[j].do = "data") = (j \in {8, 17, 25})
                    /\ (Handshake[j].do = "keep") = (j \in {15, 23})
  OBVIOUS
<1> QED  BY HandshakeDoes DEF Orders, Waits

LEMMA NoOtherPlace ==
    /\ \A k \in 3..27 : From(k) \notin GiveUp /\ From(k) # ClearError /\ From(k) # From(1)
    /\ \A j, k \in 1..28 : From(j) = From(k) => j = k
<1>1. ASSUME NEW k \in 3..27
      PROVE  From(k) \notin GiveUp /\ From(k) # ClearError
  <2>0. k \in 1..28
    OBVIOUS
  <2>1. Head(From(k)) = Handshake[k] /\ Len(From(k)) = 29 - k
    BY <2>0, FromIs
  <2>2. Handshake[k].do \notin {"unlock", "no_error"}
    BY <2>0, WhereIs, HandshakeAvoids
  <2>3. Head(<<Unlock, E5("NOT_READY")>>).do = "unlock" /\ Head(<<Unlock>>).do = "unlock"
    BY DEF Unlock, Step
  <2>4. Head(ClearError).do = "no_error"
    BY DEF ClearError, Step
  <2>5. Len(<<E5("NOT_READY")>>) = 1 /\ 29 - k # 1
    OBVIOUS
  <2> QED  BY <2>1, <2>2, <2>3, <2>4, <2>5 DEF GiveUp
<1>2. ASSUME NEW j \in 1..28, NEW k \in 1..28, From(j) = From(k)
      PROVE  j = k
  <2>1. Len(From(j)) = 29 - j /\ Len(From(k)) = 29 - k
    BY FromIs
  <2> QED  BY <1>2, <2>1
<1> QED  BY <1>1, <1>2

(* A handshake at a place came there from the one before.                  *)
LEMMA CameFrom ==
    ASSUME Calls, ConstantsFit, NEW t \in Threads, call[t].todo # <<>>, NEW k \in 3..27,
           After(t).op = "handshake", After(t).todo = From(k)
    PROVE  Place(t, k - 1) /\ Head(call[t].todo) = Handshake[k - 1]
<1>1. Good(call[t], t, lbp_lock = t)
  BY DEF Calls
<1>2. None # "handshake"
  BY DEF ConstantsFit, Operations
<1>3. Tail(call[t].todo) = From(k) /\ call[t].op = "handshake"
  <2>1. Tail(call[t].todo) # <<>>
    BY <1>2 DEF After, Idle
  <2>2. After(t) = [call[t] EXCEPT !.todo = Tail(call[t].todo)]
    BY <2>1 DEF After
  <2>3. call[t] \in CallType
    BY <1>1 DEF Good
  <2> QED  BY <2>2, <2>3 DEF CallType
<1>4. call[t].todo \in GiveUp \/ \E j \in 1..28 : call[t].todo = From(j)
  BY <1>1, <1>3 DEF Good, Going
<1>5. Len(From(k)) = 29 - k /\ 29 - k > 1
  <2>1. k \in 1..28 /\ 29 - k > 1
    OBVIOUS
  <2> QED  BY <2>1, FromIs
<1>6. call[t].todo \notin GiveUp
  <2>1. \A x, y : Tail(<<x, y>>) = <<y>> /\ Tail(<<x>>) = <<>>
    OBVIOUS
  <2>2. \A y : Len(<<y>>) = 1 /\ Len(<<>>) = 0
    OBVIOUS
  <2>3. \A x \in GiveUp : Len(Tail(x)) = 0 \/ Len(Tail(x)) = 1
    BY <2>1, <2>2 DEF GiveUp
  <2>4. Len(Tail(call[t].todo)) = 29 - k /\ 29 - k \notin {0, 1}
    BY <1>3, <1>5
  <2> QED  BY <2>3, <2>4
<1>7. PICK j \in 1..28 : call[t].todo = From(j)
  BY <1>4, <1>6
<1>8. j = k - 1
  <2>1. j # 28
    <3>1. j = 28 => Tail(From(j)) = <<>>
      BY FromIs
    <3>2. Len(<<>>) = 0
      OBVIOUS
    <3>3. Len(Tail(From(j))) > 1
      BY <1>3, <1>5, <1>7
    <3> QED  BY <3>1, <3>2, <3>3
  <2>2. j < 28 /\ j + 1 \in 1..28 /\ k \in 1..28
    BY <2>1
  <2>3. Tail(From(j)) = From(j + 1)
    BY <2>2, FromIs
  <2>4. From(j + 1) = From(k)
    BY <1>3, <1>7, <2>3
  <2>5. j + 1 = k
    BY <2>2, <2>4, NoOtherPlace
  <2> QED  BY <1>7, <2>5
<1>9. Head(From(j)) = Handshake[j]
  BY FromIs
<1> QED  BY <1>3, <1>7, <1>8, <1>9 DEF Place

(* What a phase speaks of.                                                 *)
seen == <<lbp_lock, i7Ready, i7Cmd, data, fw>>

LEMMA PhaseSeen ==
    ASSUME NEW t, NEW k, PhaseAt(t, k), UNCHANGED seen
    PROVE  PhaseAt(t, k)'
  BY DEF PhaseAt, CommandAt, LinkingAt, ServingAt, DataAt, seen

(* A step of the handshake that gives no command.                          *)
LEMMA Advance ==
    ASSUME LinkSettled, NEW t, NEW j \in 3..26, PhaseAt(t, j), j \notin {3} \cup Orders,
           lbp_lock' = lbp_lock, i7Ready' = i7Ready, i7Cmd' = i7Cmd, fw' = fw,
           j \notin {8, 17, 25} => data' = data,
           j \in Waits => i7Cmd = None,
           j = 6 => i7Ready.ready \ {"AFTER_REBOOT"} = {"UP"},
           j = 10 => "READY" \in i7Ready.ready
    PROVE  PhaseAt(t, j + 1)'
<1>1. j + 1 \in 5..27
  BY DEF Orders
<1>2. CommandAt(j + 1)'
  <2>1. i7Cmd = None
    BY DEF PhaseAt, CommandAt, Orders
  <2> QED  BY <2>1 DEF CommandAt
<1>3. LinkingAt(j + 1)'
  <2> SUFFICES ASSUME j + 1 \in 7..10
               PROVE  ("READY" \in i7Ready.ready => fw.linked) /\ (fw.linked => fw.pc = "idle")
    BY DEF LinkingAt
  <2>1. CASE j = 6
    <3>1. "UP" \in i7Ready.ready /\ "READY" \notin i7Ready.ready
      BY <2>1
    <3> QED  BY <3>1 DEF LinkSettled
  <2>2. CASE j \in 7..9
    BY <2>2 DEF PhaseAt, LinkingAt
  <2> QED  BY <2>1, <2>2
<1>4. ServingAt(j + 1)'
  <2>1. CASE j + 1 < 11
    BY <2>1 DEF ServingAt
  <2>2. CASE j = 10
    <3>1. fw.linked /\ fw.pc = "idle"
      BY <2>2 DEF PhaseAt, LinkingAt
    <3> QED  BY <3>1 DEF ServingAt
  <2>3. CASE j >= 11
    BY <2>3 DEF PhaseAt, ServingAt
  <2> QED  BY <2>1, <2>2, <2>3
<1>5. DataAt(j + 1)'
  <2>1. j + 1 \notin {14, 22}
    BY DEF Orders
  <2>2. j + 1 \in {15, 23} => data' = Asked((j + 1) - 1)
    <3>1. CASE j \in {14, 22}
      <4>1. i7Cmd = None /\ data' = data
        BY <3>1 DEF Waits
      <4>2. (j + 1) - 1 = j
        OBVIOUS
      <4> QED  BY <3>1, <4>1, <4>2 DEF PhaseAt, DataAt
    <3> QED  BY <3>1
  <2> QED  BY <2>1, <2>2 DEF DataAt
<1> QED  BY <1>2, <1>3, <1>4, <1>5 DEF PhaseAt

(* A step of the handshake that empties the register, or gives a command.  *)
LEMMA Order ==
    ASSUME Registers, ConstantsFit, NEW t, NEW j \in {3} \cup Orders, PhaseAt(t, j),
           lbp_lock' = lbp_lock, i7Ready' = i7Ready, data' = data, fw' = fw,
           i7Cmd' = IF j = 3 THEN None ELSE Asked(j + 1)
    PROVE  PhaseAt(t, j + 1)'
<1>1. CASE j = 3
  <2>1. CommandAt(4)' /\ LinkingAt(4)' /\ ServingAt(4)' /\ DataAt(4)'
    BY <1>1 DEF CommandAt, LinkingAt, ServingAt, DataAt
  <2> QED  BY <1>1, <2>1 DEF PhaseAt
<1>2. CASE j \in Orders
  <2>1. j >= 11 /\ j >= 4 /\ j \notin Waits /\ j # 3 /\ j + 1 \in Waits /\ j + 1 >= 11
    BY <1>2 DEF Orders, Waits
  <2>2. i7Cmd = None
    BY <2>1 DEF PhaseAt, CommandAt
  <2>3. fw.linked /\ fw.pc \in {"idle", "consumed"} /\ (fw.pc # "idle" => fw.job \in Cached \cup {"SET_TIME"})
    <3>1. /\ fw.linked /\ fw.pc \in {"idle", "run", "answered", "consumed"}
          /\ fw.pc \in {"run", "answered"} => i7Cmd = fw.job
          /\ fw.pc # "idle" => fw.job \in Cached \cup {"SET_TIME"}
      BY <2>1 DEF PhaseAt, ServingAt
    <3>2. None \notin Cached \cup {"SET_TIME"}
      BY DEF ConstantsFit, Commands
    <3> QED  BY <2>2, <3>1, <3>2
  <2>4. Asked(j + 1) # None
    BY DEF ConstantsFit, Commands, Cached, Asked
  <2>5. CommandAt(j + 1)'
    BY <2>1 DEF CommandAt
  <2>6. LinkingAt(j + 1)' /\ ServingAt(j + 1)'
    BY <2>1, <2>3 DEF LinkingAt, ServingAt
  <2>7. DataAt(j + 1)'
    <3>1. i7Cmd' # None /\ fw.pc # "answered" /\ j + 1 \notin {15, 23}
      BY <2>1, <2>3, <2>4 DEF Waits
    <3> QED  BY <3>1 DEF DataAt
  <2> QED  BY <2>5, <2>6, <2>7 DEF PhaseAt
<1> QED  BY <1>1, <1>2

LEMMA OrdersAre ==
    /\ Handshake[3].arg = {} /\ Handshake[10].arg = {"READY"}
    /\ \A j \in Orders : Handshake[j].arg = {Asked(j + 1)}
<1>1. Handshake[3].arg = {} /\ Handshake[10].arg = {"READY"}
  BY HandshakeIs DEF Step, State
<1>2. /\ Handshake[13].arg = {"BIOS_BUILD_DATE"} /\ Handshake[18].arg = {"SET_TIME"}
      /\ Handshake[21].arg = {"BIOS_VER"} /\ Handshake[26].arg = {"SET_TIME"}
  BY HandshakeIs DEF Step, Command
<1>3. /\ Asked(13 + 1) = "BIOS_BUILD_DATE" /\ Asked(18 + 1) = "SET_TIME"
      /\ Asked(21 + 1) = "BIOS_VER" /\ Asked(26 + 1) = "SET_TIME"
  BY DEF Asked
<1> QED  BY <1>1, <1>2, <1>3 DEF Orders

LEMMA OwnStep ==
    ASSUME Registers, Calls, ConstantsFit, LinkSettled, NEW t \in Threads, Phase(t),
           HostStep(t) \/ TakeLock(t) \/ TimedOut(t) \/ \E op \in Ops[t] : Call(t, op)
    PROVE  Phase(t)'
<1> SUFFICES ASSUME NEW k \in 3..27, Place(t, k)'
             PROVE  PhaseAt(t, k)'
  BY DEF Phase
<1> DEFINE j == k - 1
<1>1. j \in 2..26 /\ j \in 1..28 /\ j + 1 = k
  OBVIOUS
<1>2. call'[t].op = "handshake" /\ call'[t].todo = From(k)
  BY DEF Place
<1> HIDE DEF j
<1>3. ASSUME NEW c, Proceed(t, c)
      PROVE  call'[t] = c
  BY <1>3 DEF Proceed, Calls
<1>4. ASSUME Proceed(t, Failed(t))
      PROVE  FALSE
  <2>1. call'[t] = Failed(t)
    BY <1>3, <1>4
  <2>2. Failed(t).todo \in GiveUp
    BY DEF Failed, Idle, GiveUp
  <2> QED  BY <1>2, <2>1, <2>2, NoOtherPlace
<1>5. ASSUME NEW do, At(t, do), NEW c, Proceed(t, c), c.op = After(t).op, c.todo = After(t).todo
      PROVE  /\ Place(t, j) /\ Handshake[j].do = do /\ Arg(t) = Handshake[j].arg
             /\ j \in 3..26 => PhaseAt(t, j)
  <2>1. call[t].todo # <<>> /\ Head(call[t].todo).do = do
    BY <1>5 DEF At
  <2>2. After(t).op = "handshake" /\ After(t).todo = From(k)
    BY <1>2, <1>3, <1>5
  <2>3. Place(t, j) /\ Head(call[t].todo) = Handshake[j]
    BY <2>1, <2>2, CameFrom DEF j
  <2>4. j \in 3..26 => PhaseAt(t, j)
    <3>1. j \in 3..26 => j \in 3..27
      OBVIOUS
    <3> QED  BY <2>3, <3>1 DEF Phase
  <2> QED  BY <2>1, <2>3, <2>4 DEF Arg
<1>6. ASSUME NEW do \in StepNames \ {"lock", "unlock", "cmd", "pulse", "down"}, At(t, do),
             NEW c, Proceed(t, c), c.op = After(t).op, c.todo = After(t).todo,
             lbp_lock' = lbp_lock, i7Ready' = i7Ready, i7Cmd' = i7Cmd, fw' = fw,
             do # "data" => data' = data, do = "consumed" => i7Cmd = None,
             do = "irq" => i7Ready.ready \ {"AFTER_REBOOT"} = {"UP"},
             do = "state" => i7Ready.ready \cap Arg(t) # {}
      PROVE  PhaseAt(t, k)'
  <2>1. /\ Handshake[j].do = do /\ Arg(t) = Handshake[j].arg
        /\ j \in 3..26 => PhaseAt(t, j)
    BY <1>5, <1>6
  <2>2. /\ j # 2 /\ j \notin {3} \cup Orders /\ (j \in Waits => i7Cmd = None)
        /\ j = 6 => i7Ready.ready \ {"AFTER_REBOOT"} = {"UP"}
        /\ j \notin {8, 17, 25} => data' = data
    BY <1>1, <1>6, <2>1, WhereIs
  <2>3. j = 10 => "READY" \in i7Ready.ready
    <3>1. j = 10 => do = "state" /\ Arg(t) = {"READY"}
      BY <1>1, <2>1, WhereIs, OrdersAre
    <3> QED  BY <1>6, <3>1
  <2>4. j \in 3..26
    BY <1>1, <2>2
  <2>5. PhaseAt(t, j + 1)'
    BY <1>6, <2>1, <2>2, <2>3, <2>4, Advance
  <2> QED  BY <1>1, <2>5
<1>7. CASE TakeLock(t)
  <2> DEFINE c == [After(t) EXCEPT !.alone = @ /\ CardIdle]
  <2>1. At(t, "lock") /\ Proceed(t, c) /\ lbp_lock' = t
    BY <1>7 DEF TakeLock
  <2>2. c.op = After(t).op /\ c.todo = After(t).todo
    BY <2>1, AtStep DEF CallType
  <2>3. j = 2
    <3>1. j \in 1..28 /\ Handshake[j].do = "lock"
      BY <1>1, <1>5, <2>1, <2>2
    <3> QED  BY <3>1, WhereIs
  <2>4. k = 3
    BY <1>1, <2>3
  <2> QED  BY <2>1, <2>4 DEF PhaseAt, CommandAt, LinkingAt, ServingAt, DataAt
<1>8. CASE WriteCmd(t)
  <2> DEFINE c == [After(t) EXCEPT !.owed = IF Noted(t) THEN @ \cup Arg(t) ELSE {}]
  <2>1. At(t, "cmd") /\ Proceed(t, c)
    BY <1>8 DEF WriteCmd
  <2>2. c.op = After(t).op /\ c.todo = After(t).todo
    BY <2>1, AtStep DEF CallType
  <2>3. /\ Handshake[j].do = "cmd" /\ Arg(t) = Handshake[j].arg
        /\ j \in 3..26 => PhaseAt(t, j)
    BY <1>5, <2>1, <2>2
  <2>4. j \in {3} \cup Orders /\ j \in 3..26
    BY <1>1, <2>3, WhereIs DEF Orders
  <2>5. i7Cmd' = IF j = 3 THEN None ELSE Asked(j + 1)
    <3>1. j = 3 => Arg(t) = {}
      BY <2>3, OrdersAre
    <3>2. j \in Orders => Arg(t) = {Asked(j + 1)} /\ j # 3
      BY <2>3, OrdersAre DEF Orders
    <3> QED  BY <1>8, <2>4, <3>1, <3>2, TheOnly DEF WriteCmd
  <2>6. lbp_lock' = lbp_lock /\ i7Ready' = i7Ready /\ data' = data /\ fw' = fw
    BY <1>8 DEF WriteCmd
  <2>7. PhaseAt(t, j + 1)'
    BY <2>3, <2>4, <2>5, <2>6, Order
  <2> QED  BY <1>1, <2>7
<1>9. CASE LeaveLock(t) \/ Pulse(t) \/ ResetStop(t)
  <2>1. PICK do \in {"unlock", "pulse", "down"} : At(t, do)
    BY <1>9 DEF LeaveLock, Pulse, ResetStop
  <2>2. Proceed(t, After(t))
    BY <1>9 DEF LeaveLock, Pulse, ResetStop
  <2>3. Handshake[j].do = do
    BY <1>5, <2>1, <2>2
  <2>4. Handshake[j].do # "unlock"
    BY <1>1, WhereIs
  <2> QED  BY <1>1, <2>1, <2>3, <2>4, HandshakeAvoids
<1>10. ASSUME NEW op \in Ops[t], Call(t, op)
       PROVE  FALSE
  <2>1. call'[t] = [Idle EXCEPT !.op = op, !.todo = Script(op)]
    BY <1>3, <1>10 DEF Call
  <2>2. op = "handshake" /\ From(k) = Handshake
    BY <1>2, <2>1 DEF Idle, Script
  <2>3. From(k) = From(1) /\ 1 \in 1..28 /\ k \in 1..28 /\ k # 1
    BY <2>2, FromFits
  <2> QED  BY <2>3, NoOtherPlace
<1> USE DEF StepNames
<1>11. CASE Forget(t) \/ WriteE5(t) \/ Reinit(t) \/ WaitConsumed(t) \/ Keep(t) \/ NoError(t)
  <2>1. /\ Proceed(t, After(t)) /\ lbp_lock' = lbp_lock /\ i7Ready' = i7Ready /\ i7Cmd' = i7Cmd
        /\ fw' = fw /\ data' = data
    BY <1>11 DEF Forget, WriteE5, Reinit, WaitConsumed, Keep, NoError, registers
  <2>2. PICK do \in {"forget", "e5", "reinit", "consumed", "keep", "no_error"} :
          At(t, do) /\ (do = "consumed" => i7Cmd = None)
    BY <1>11 DEF Forget, WriteE5, Reinit, WaitConsumed, Keep, NoError
  <2> QED  BY <1>6, <2>1, <2>2
<1>12. CASE WriteData(t)
  <2>1. /\ Proceed(t, After(t)) /\ lbp_lock' = lbp_lock /\ i7Ready' = i7Ready /\ i7Cmd' = i7Cmd
        /\ fw' = fw /\ At(t, "data")
    BY <1>12 DEF WriteData
  <2> QED  BY <1>6, <2>1
<1>13. CASE Check(t)
  <2>1. lbp_lock' = lbp_lock /\ i7Ready' = i7Ready /\ i7Cmd' = i7Cmd /\ fw' = fw /\ data' = data
    BY <1>13 DEF Check, registers
  <2> DEFINE c == [After(t) EXCEPT !.linked = TRUE]
  <2>2. \/ Proceed(t, Failed(t))
        \/ (At(t, "require") \/ At(t, "version")) /\ Proceed(t, After(t))
        \/ At(t, "linked") /\ Proceed(t, c)
    BY <1>13 DEF Check
  <2>3. At(t, "linked") => c.op = After(t).op /\ c.todo = After(t).todo
    BY AtStep DEF CallType
  <2> HIDE DEF c
  <2> QED  BY <1>4, <1>6, <2>1, <2>2, <2>3
<1>14. CASE WaitIrq(t)
  <2>1. lbp_lock' = lbp_lock /\ i7Ready' = i7Ready /\ i7Cmd' = i7Cmd /\ fw' = fw /\ data' = data
    BY <1>14 DEF WaitIrq, registers
  <2>2. \/ Proceed(t, Failed(t))
        \/ At(t, "irq") /\ i7Ready.ready \ {"AFTER_REBOOT"} = {"UP"} /\ Proceed(t, After(t))
    BY <1>14 DEF WaitIrq
  <2> QED  BY <1>4, <1>6, <2>1, <2>2
<1>15. CASE WaitState(t)
  <2>1. lbp_lock' = lbp_lock /\ i7Ready' = i7Ready /\ i7Cmd' = i7Cmd /\ fw' = fw /\ data' = data
    BY <1>15 DEF WaitState, registers
  <2>2. \/ Proceed(t, Failed(t))
        \/ /\ At(t, "state") \/ At(t, "any_state")
           /\ i7Ready.ready \cap Arg(t) # {} /\ Proceed(t, After(t))
    BY <1>15 DEF WaitState
  <2> QED  BY <1>4, <1>6, <2>1, <2>2
<1>16. CASE TimedOut(t)
  BY <1>4, <1>16 DEF TimedOut
<1>17. CASE CopyImage(t)
  <2>1. lbp_lock' = lbp_lock /\ i7Ready' = i7Ready /\ i7Cmd' = i7Cmd /\ fw' = fw /\ data' = data
    BY <1>17 DEF CopyImage, registers
  <2>2. Proceed(t, Failed(t)) \/ (At(t, "copy") /\ Proceed(t, After(t)))
    BY <1>17 DEF CopyImage
  <2> QED  BY <1>4, <1>6, <2>1, <2>2
<1>18. CASE FromCache(t)
  <2>1. lbp_lock' = lbp_lock /\ i7Ready' = i7Ready /\ i7Cmd' = i7Cmd /\ fw' = fw /\ data' = data
    BY <1>18 DEF FromCache, registers
  <2> DEFINE c == [call[t] EXCEPT !.todo = <<Unlock>>,
                                  !.bad = bios_information[The(Arg(t))] # The(Arg(t))]
  <2>2. At(t, "cached") /\ (Proceed(t, Failed(t)) \/ Proceed(t, After(t)) \/ Proceed(t, c))
    BY <1>18 DEF FromCache
  <2>3. c.todo \in GiveUp
    BY DEF Calls, CallType, GiveUp
  <2> HIDE DEF c
  <2>4. CASE Proceed(t, c)
    BY <1>2, <1>3, <2>3, <2>4, NoOtherPlace
  <2> QED  BY <1>4, <1>6, <2>1, <2>2, <2>4
<1>19. CASE ReadData(t)
  <2>1. lbp_lock' = lbp_lock /\ i7Ready' = i7Ready /\ i7Cmd' = i7Cmd /\ fw' = fw /\ data' = data
    BY <1>19 DEF ReadData, registers
  <2>2. \/ Proceed(t, Failed(t))
        \/ \E do \in {"fetch", "rcvy"} : \E b :
             At(t, do) /\ Proceed(t, [After(t) EXCEPT !.bad = b])
    BY <1>19 DEF ReadData
  <2>3. ASSUME NEW do \in {"fetch", "rcvy"}, NEW b, At(t, do),
               Proceed(t, [After(t) EXCEPT !.bad = b])
        PROVE  PhaseAt(t, k)'
    <3> DEFINE c == [After(t) EXCEPT !.bad = b]
    <3>1. c.op = After(t).op /\ c.todo = After(t).todo
      BY <2>3, AtStep DEF CallType
    <3> HIDE DEF c
    <3>2. Proceed(t, c)
      BY <2>3 DEF c
    <3> QED  BY <1>6, <2>1, <2>3, <3>1, <3>2
  <2> QED  BY <1>4, <2>2, <2>3
<1>20. CASE TestError(t)
  <2>1. lbp_lock' = lbp_lock /\ i7Ready' = i7Ready /\ i7Cmd' = i7Cmd /\ fw' = fw /\ data' = data
    BY <1>20 DEF TestError, registers
  <2> DEFINE c == [call[t] EXCEPT !.todo = ClearError, !.ok = FALSE, !.owed = {}]
  <2>2. At(t, "error") /\ (Proceed(t, After(t)) \/ Proceed(t, c))
    BY <1>20 DEF TestError
  <2>3. c.todo = ClearError
    BY DEF Calls, CallType
  <2> HIDE DEF c
  <2>4. CASE Proceed(t, c)
    BY <1>2, <1>3, <2>3, <2>4, NoOtherPlace
  <2> QED  BY <1>6, <2>1, <2>2, <2>4
<1> QED
  BY <1>7, <1>8, <1>9, <1>10, <1>11, <1>12, <1>13, <1>14, <1>15, <1>16, <1>17, <1>18, <1>19, <1>20
  DEF HostStep

(* While a handshake has the lock, other callers do not touch what its     *)
(* phase speaks of.                                                        *)
LEMMA OthersStep ==
    ASSUME Calls, ConstantsFit, NEW t \in Threads, Phase(t), NEW u \in Threads, u # t,
           HostStep(u) \/ TakeLock(u) \/ TimedOut(u) \/ \E op \in Ops[u] : Call(u, op)
    PROVE  Phase(t)'
<1> SUFFICES ASSUME NEW k \in 3..27, Place(t, k)'
             PROVE  PhaseAt(t, k)'
  BY DEF Phase
<1>1. \E c : Proceed(u, c)
  BY DEF HostStep, LeaveLock, Forget, WriteCmd, WriteData, WriteE5, Reinit, Check, FromCache, WaitIrq,
         WaitConsumed, WaitState, ReadData, Keep, CopyImage, TestError, NoError, Pulse, ResetStop,
         TakeLock, TimedOut, Call
<1>2. call'[t] = call[t]
  BY <1>1 DEF Proceed, Calls
<1>3. PhaseAt(t, k) /\ lbp_lock = t
  BY <1>2 DEF Phase, Place, PhaseAt
<1>4. ASSUME NEW do, At(u, do)
      PROVE  do \in Free
  BY <1>3, <1>4, AtStep
<1>5. lbp_lock # None
  BY <1>3 DEF ConstantsFit
<1>6. Forget(u) \/ WriteE5(u) \/ \E op \in Ops[u] : Call(u, op)
  BY <1>4, <1>5 DEF HostStep, LeaveLock, WriteCmd, WriteData, Reinit, Check, FromCache, WaitIrq,
         WaitConsumed, WaitState, ReadData, Keep, CopyImage, TestError, NoError, Pulse, ResetStop,
         TakeLock, TimedOut, Free
<1>7. UNCHANGED seen
  BY <1>6 DEF Forget, WriteE5, Call, seen, registers
<1> QED  BY <1>3, <1>7, PhaseSeen

(* The card's steps.                                                       *)
LEMMA CardStep ==
    ASSUME Registers, Calls, ConstantsFit, LinkSettled, NEW t \in Threads, Phase(t), OtherStep
    PROVE  Phase(t)'
<1> SUFFICES ASSUME NEW k \in 3..27, Place(t, k)'
             PROVE  PhaseAt(t, k)'
  BY DEF Phase
<1>1. /\ lbp_lock' = lbp_lock /\ call'[t].todo = call[t].todo /\ call'[t].op = call[t].op
  BY OtherSteps
<1>2. PhaseAt(t, k)
  BY <1>1 DEF Phase, Place
<1>3. lbp_lock' = t /\ CommandAt(k) /\ LinkingAt(k) /\ ServingAt(k) /\ DataAt(k)
  BY <1>1, <1>2 DEF PhaseAt
<1>4. None \notin Cached \cup {"SET_TIME"} /\ \A i : Asked(i) # None
  BY DEF ConstantsFit, Commands, Cached, Asked
<1>5. fw \in FwType /\ i7Ready \in [ready : SUBSET Flags, version : BOOLEAN]
  BY DEF Registers
<1> USE DEF FwType
<1>6. CommandAt(k)'
  <2>1. i7Cmd' = i7Cmd \/ i7Cmd' = None
    BY DEF OtherStep, FwStep, FwTake, FwRun, FwConsume, FwState, FwFlashed, FwBoot, FwRing, FwLink,
           OsState, OsReboot, Interrupt, PowerFlag, registers
  <2> QED  BY <1>3, <2>1 DEF CommandAt
<1>7. LinkingAt(k)'
  <2> SUFFICES ASSUME k \in 7..10
               PROVE  /\ "READY" \in i7Ready'.ready => fw'.linked
                      /\ fw'.linked => fw'.pc = "idle"
    BY DEF LinkingAt
  <2>1. /\ "READY" \in i7Ready.ready => fw.linked
        /\ fw.linked => fw.pc = "idle"
        /\ i7Cmd = None
    BY <1>3 DEF LinkingAt, CommandAt, Waits
  <2>2. CASE FwTake
    BY <2>1, <2>2 DEF FwTake
  <2>3. CASE FwRun
    BY <1>5, <2>1, <2>3 DEF FwRun
  <2>4. CASE FwConsume
    BY <1>5, <2>1, <2>4 DEF FwConsume
  <2>5. CASE FwState
    <3>1. ~fw.linked
      BY <2>1, <2>5 DEF FwState
    <3>2. fw'.linked = fw.linked
      BY <1>5, <2>5 DEF FwState
    <3>3. "READY" \notin i7Ready'.ready
      BY <1>5, <2>5, <3>1 DEF FwState
    <3> QED  BY <3>1, <3>2, <3>3
  <2>6. CASE FwFlashed
    BY <1>5, <2>1, <2>6 DEF FwFlashed
  <2>7. CASE FwBoot
    <3>1. ~fw.linked /\ fw'.linked = fw.linked /\ "READY" \notin i7Ready'.ready
      BY <1>5, <2>7 DEF FwBoot, LinkSettled
    <3> QED  BY <3>1
  <2>8. CASE FwRing
    BY <1>5, <2>1, <2>8 DEF FwRing, registers
  <2>9. CASE FwLink
    BY <1>5, <2>9 DEF FwLink
  <2>10. CASE OsState
    BY <1>5, <2>1, <2>10 DEF OsState
  <2>11. CASE OsReboot
    BY <1>5, <2>1, <2>11 DEF OsReboot
  <2>12. CASE Interrupt
    BY <2>1, <2>12 DEF Interrupt, registers
  <2>13. CASE PowerFlag
    BY <2>1, <2>13 DEF PowerFlag
  <2> QED  BY <2>2, <2>3, <2>4, <2>5, <2>6, <2>7, <2>8, <2>9, <2>10, <2>11, <2>12, <2>13
           DEF OtherStep, FwStep
<1>8. ServingAt(k)'
  <2> SUFFICES ASSUME k >= 11
               PROVE  /\ fw'.linked /\ fw'.pc \in {"idle", "run", "answered", "consumed"}
                      /\ fw'.pc \in {"run", "answered"} => i7Cmd' = fw'.job
                      /\ fw'.pc # "idle" => fw'.job \in Cached \cup {"SET_TIME"}
    BY DEF ServingAt
  <2>1. /\ fw.linked /\ fw.pc \in {"idle", "run", "answered", "consumed"}
        /\ fw.pc \in {"run", "answered"} => i7Cmd = fw.job
        /\ fw.pc # "idle" => fw.job \in Cached \cup {"SET_TIME"}
    BY <1>3 DEF ServingAt
  <2>2. CASE FwTake
    <3>1. i7Cmd \in Cached \cup {"SET_TIME"}
      BY <1>3, <2>2 DEF CommandAt, FwTake, Asked, Cached
    <3> QED  BY <1>5, <2>1, <2>2, <3>1 DEF FwTake
  <2>3. CASE FwRun
    BY <1>5, <2>1, <2>3 DEF FwRun
  <2>4. CASE FwConsume
    BY <1>5, <2>1, <2>4 DEF FwConsume
  <2>5. CASE FwState
    <3>1. fw.job \notin {"BOOT_RAMDISK", "BOOT_BLOCK_IO", "BOOT_LOADER", "FLASH"}
      BY <2>1, <2>5 DEF FwState, Cached
    <3>2. fw'.linked /\ fw'.pc = "idle"
      BY <1>5, <2>1, <2>5, <3>1 DEF FwState
    <3> QED  BY <3>2
  <2>6. CASE FwFlashed \/ FwBoot \/ FwRing \/ FwLink \/ OsReboot \/ OsState
    BY <2>1, <2>6 DEF FwFlashed, FwBoot, FwRing, FwLink, OsReboot, OsState
  <2>7. CASE Interrupt \/ PowerFlag
    BY <2>1, <2>7 DEF Interrupt, PowerFlag, registers
  <2> QED  BY <2>2, <2>3, <2>4, <2>5, <2>6, <2>7 DEF OtherStep, FwStep
<1>9. DataAt(k)'
  <2> SUFFICES ASSUME k \in {14, 15, 22, 23}
               PROVE  DataAt(k)'
    BY DEF DataAt
  <2>1. /\ fw.linked /\ fw.pc \in {"idle", "run", "answered", "consumed"}
        /\ fw.pc \in {"run", "answered"} => i7Cmd = fw.job
        /\ fw.pc # "idle" => fw.job \in Cached \cup {"SET_TIME"}
    BY <1>3 DEF ServingAt
  <2>2. CASE FwRun
    <3>1. fw.pc = "run" /\ i7Cmd = fw.job /\ fw.job # None
      BY <1>4, <2>1, <2>2 DEF FwRun
    <3>2. k \in {14, 22} /\ fw.job = Asked(k)
      BY <1>3, <3>1 DEF CommandAt, Waits
    <3>3. fw.job \in Cached
      BY <3>2 DEF Asked, Cached
    <3>4. data' = Answer(fw.job)
      BY <2>2, <3>3 DEF FwRun, Cached
    <3>5. Answer(fw.job) = fw.job
      BY <3>3 DEF Answer, Cached, Values
    <3> QED  BY <3>2, <3>4, <3>5 DEF DataAt
  <2>3. CASE FwConsume
    BY <1>3, <2>3 DEF FwConsume, DataAt
  <2>4. CASE FwTake
    BY <1>3, <1>5, <2>4 DEF FwTake, DataAt
  <2>5. CASE FwState
    <3>1. fw'.pc # "answered" /\ data' = data /\ i7Cmd' = i7Cmd
      BY <1>5, <2>5 DEF FwState
    <3> QED  BY <1>3, <3>1 DEF DataAt
  <2>6. CASE FwFlashed \/ FwBoot \/ FwRing \/ FwLink \/ OsReboot \/ OsState
    BY <2>1, <2>6 DEF FwFlashed, FwBoot, FwRing, FwLink, OsReboot, OsState
  <2>7. CASE Interrupt \/ PowerFlag
    BY <1>3, <2>7 DEF Interrupt, PowerFlag, registers, DataAt
  <2> QED  BY <2>2, <2>3, <2>4, <2>5, <2>6, <2>7 DEF OtherStep, FwStep
<1> QED  BY <1>3, <1>6, <1>7, <1>8, <1>9 DEF PhaseAt

LEMMA LinkStep ==
    ASSUME Registers, LinkSettled, [Next]_vars
    PROVE  LinkSettled'
<1>1. fw \in FwType /\ i7Ready \in [ready : SUBSET Flags, version : BOOLEAN]
  BY DEF Registers
<1> USE DEF LinkSettled, FwType
<1>2. ASSUME NEW t \in Threads,
             HostStep(t) \/ TakeLock(t) \/ TimedOut(t) \/ \E op \in Ops[t] : Call(t, op)
      PROVE  LinkSettled'
  <2>1. CASE Pulse(t)
    BY <2>1 DEF Pulse, registers
  <2>2. CASE ResetStop(t)
    BY <2>2 DEF ResetStop
  <2>3. CASE ~Pulse(t) /\ ~ResetStop(t)
    <3>1. i7Ready' = i7Ready /\ fw' = fw
      BY <1>2, <2>3 DEF HostStep, LeaveLock, Forget, WriteCmd, WriteData, WriteE5, Reinit, Check,
             FromCache, WaitIrq, WaitConsumed, WaitState, ReadData, Keep, CopyImage, TestError, NoError,
             TakeLock, TimedOut, Call, registers
    <3> QED  BY <3>1
  <2> QED  BY <2>1, <2>2, <2>3
<1>3. CASE FwTake
  BY <1>1, <1>3 DEF FwTake
<1>4. CASE FwRun
  BY <1>1, <1>4 DEF FwRun
<1>5. CASE FwConsume
  BY <1>1, <1>5 DEF FwConsume
<1>6. CASE FwState
  <2>1. fw'.linked = fw.linked /\ fw'.pc # "off"
    BY <1>1, <1>6 DEF FwState
  <2>2. fw.linked => "UP" \notin i7Ready'.ready
    BY <1>1, <1>6 DEF FwState
  <2> QED  BY <2>1, <2>2
<1>7. CASE FwFlashed
  BY <1>1, <1>7 DEF FwFlashed
<1>8. CASE FwBoot
  BY <1>1, <1>8 DEF FwBoot
<1>9. CASE FwRing
  BY <1>1, <1>9 DEF FwRing, registers
<1>10. CASE FwLink
  BY <1>1, <1>10 DEF FwLink
<1>11. CASE OsState
  BY <1>1, <1>11 DEF OsState
<1>12. CASE OsReboot
  BY <1>1, <1>12 DEF OsReboot
<1>13. CASE Interrupt \/ PowerFlag
  BY <1>1, <1>13 DEF Interrupt, PowerFlag, registers
<1>14. CASE UNCHANGED vars
  BY <1>14 DEF vars, registers
<1> QED
  BY <1>2, <1>3, <1>4, <1>5, <1>6, <1>7, <1>8, <1>9, <1>10, <1>11, <1>12, <1>13, <1>14
  DEF Next, FwStep

LEMMA PhasesStep ==
    ASSUME Registers, Calls, ConstantsFit, HandshakeInv, [Next]_vars, NEW t \in Threads
    PROVE  Phase(t)'
<1>1. Phase(t) /\ LinkSettled
  BY DEF HandshakeInv
<1>2. ASSUME NEW u \in Threads,
             HostStep(u) \/ TakeLock(u) \/ TimedOut(u) \/ \E op \in Ops[u] : Call(u, op)
      PROVE  Phase(t)'
  <2>1. CASE u = t
    BY <1>1, <1>2, <2>1, OwnStep
  <2>2. CASE u # t
    BY <1>1, <1>2, <2>2, OthersStep
  <2> QED  BY <2>1, <2>2
<1>3. CASE OtherStep
  BY <1>1, <1>3, CardStep
<1>4. CASE UNCHANGED vars
  <2>1. call' = call /\ UNCHANGED seen
    BY <1>4 DEF vars, registers, seen
  <2>2. ASSUME NEW k \in 3..27, Place(t, k)'
        PROVE  PhaseAt(t, k)'
    BY <1>1, <2>1, <2>2, PhaseSeen DEF Phase, Place
  <2> QED  BY <2>2 DEF Phase
<1> QED  BY <1>2, <1>3, <1>4 DEF Next, OtherStep

(* Only a handshake keeps a value, at its two places.                      *)
LEMMA HonestStep ==
    ASSUME Registers, Calls, ConstantsFit, HandshakeInv, CacheHonest, [Next]_vars
    PROVE  CacheHonest'
<1>1. ASSUME NEW t \in Threads, Keep(t)
      PROVE  CacheHonest'
  <2>1. At(t, "keep") /\ bios_information' = [bios_information EXCEPT ![The(Arg(t))] = data]
    BY <1>1 DEF Keep
  <2>2. /\ Good(call[t], t, lbp_lock = t) /\ call[t] \in CallType /\ call[t].todo # <<>>
        /\ Head(call[t].todo).do = "keep"
    BY <2>1, AtStep
  <2>3. call[t].op = "handshake"
    <3> SUFFICES ASSUME call[t].op # "handshake" PROVE FALSE
      OBVIOUS
    <3>1. KeepsNothing(call[t].todo)
      BY <2>2 DEF Good, Going
    <3>2. call[t].todo \in Seq(Steps)
      BY <2>2 DEF CallType
    <3>3. 1 \in 1..Len(call[t].todo) /\ Head(call[t].todo) = call[t].todo[1]
      BY <2>2, <3>2
    <3> QED  BY <2>2, <3>1, <3>3 DEF KeepsNothing
  <2>4. call[t].todo \notin GiveUp
    BY <2>2 DEF GiveUp, Unlock, E5, Step
  <2>5. PICK k \in 1..28 : call[t].todo = From(k)
    BY <2>2, <2>3, <2>4 DEF Good, Going
  <2>6. Head(call[t].todo) = Handshake[k] /\ Handshake[k].do = "keep"
    BY <2>2, <2>5, FromIs
  <2>7. k \in {15, 23}
    BY <2>5, <2>6, WhereIs
  <2>8. PhaseAt(t, k)
    BY <2>3, <2>5, <2>7 DEF HandshakeInv, Phase, Place
  <2>9. data = Asked(k - 1)
    BY <2>7, <2>8 DEF PhaseAt, DataAt
  <2>10. Handshake[15].arg = {"BIOS_BUILD_DATE"} /\ Handshake[23].arg = {"BIOS_VER"}
    BY HandshakeIs DEF Step
  <2>11. Arg(t) = {Asked(k - 1)}
    BY <2>6, <2>7, <2>10 DEF Arg, Asked
  <2>12. bios_information' = [bios_information EXCEPT ![data] = data]
    BY <2>1, <2>9, <2>11, TheOnly
  <2>13. bios_information \in [Cached -> Values \cup {None}]
    BY DEF Registers
  <2> QED  BY <2>12, <2>13 DEF CacheHonest
<1>2. ASSUME NEW t \in Threads, Forget(t)
      PROVE  CacheHonest'
  BY <1>2 DEF Forget, CacheHonest
<1>3. ASSUME NEW t \in Threads,
             HostStep(t) \/ TakeLock(t) \/ TimedOut(t) \/ \E op \in Ops[t] : Call(t, op),
             ~Keep(t), ~Forget(t)
      PROVE  bios_information' = bios_information
  BY <1>3 DEF HostStep, LeaveLock, WriteCmd, WriteData, WriteE5, Reinit, Check, FromCache, WaitIrq,
         WaitConsumed, WaitState, ReadData, CopyImage, TestError, NoError, Pulse, ResetStop,
         TakeLock, TimedOut, Call
<1>4. ASSUME OtherStep \/ UNCHANGED vars
      PROVE  bios_information' = bios_information
  BY <1>4 DEF OtherStep, FwStep, FwTake, FwRun, FwConsume, FwState, FwFlashed, FwBoot, FwRing, FwLink,
         OsState, OsReboot, Interrupt, PowerFlag, host, vars
<1>5. bios_information' = bios_information => CacheHonest'
  BY DEF CacheHonest
<1> QED  BY <1>1, <1>2, <1>3, <1>4, <1>5 DEF Next, OtherStep

LbpInv == Registers /\ Calls /\ HandshakeInv /\ CacheHonest

(* The inductive invariant of the boot protocol: what is left of each call *)
(* fits the lock, and what the card may be doing, what the command         *)
(* register has and whose answer the data registers have, at each step of  *)
(* a handshake.                                                            *)
THEOREM LbpInvariant == Spec => []LbpInv
<1>1. Init => LbpInv
  <2> SUFFICES ASSUME Init PROVE LbpInv
    OBVIOUS
  <2>1. Registers /\ Calls
    BY CallsInit, LbpAssumption
  <2>2. LinkSettled /\ CacheHonest
    BY DEF Init, LinkSettled, CacheHonest
  <2>3. \A t \in Threads : Phase(t)
    BY LbpAssumption DEF Init, Idle, Phase, Place, ConstantsFit, Operations
  <2> QED  BY <2>1, <2>2, <2>3 DEF LbpInv, HandshakeInv
<1>2. LbpInv /\ [Next]_vars => LbpInv'
  <2> SUFFICES ASSUME LbpInv, [Next]_vars PROVE LbpInv'
    OBVIOUS
  <2>1. ConstantsFit /\ Registers /\ Calls /\ HandshakeInv /\ LinkSettled /\ CacheHonest
    BY LbpAssumption DEF LbpInv, HandshakeInv
  <2>2. Registers' /\ Calls' /\ LinkSettled' /\ CacheHonest'
    BY <2>1, CallsStep, RegistersStep, LinkStep, HonestStep
  <2>3. \A t \in Threads : Phase(t)'
    BY <2>1, PhasesStep
  <2> QED  BY <2>2, <2>3 DEF LbpInv, HandshakeInv
<1> QED  BY <1>1, <1>2, PTL DEF Spec

(* TypeOK: registers stay in range; whoever has the lock is going to leave *)
(* it, and nobody else does, on every way out of every ioctl.              *)
THEOREM LbpTypes == Spec => []TypeOK
<1>1. LbpInv => TypeOK
  BY TypesFollow DEF LbpInv
<1> QED  BY <1>1, LbpInvariant, PTL

(* CacheHonest: the build date and version that a handshake keeps are what *)
(* it asked for, whatever command an earlier call left in the register.    *)
THEOREM CacheStaysHonest == Spec => []CacheHonest
<1>1. LbpInv => CacheHonest
  BY DEF LbpInv
<1> QED  BY <1>1, LbpInvariant, PTL

-----------------------------------------------------------------------------
(* What a call that returns success may be believed.  Each command is      *)
(* waited for by what follows it in the script.                            *)

(* The calls DoneAsTold speaks of, but the reset, which gives no command.  *)
Believed == Operations \ {"handshake", "boot_from_usb", "get_rcvy_state", "reset"}

Boots == {"BOOT_RAMDISK", "BOOT_BLOCK_IO"}
Last == Boots \cup {"FLASH"}
Slow == Last \cup {"MAP_RAMDISK"}               \* waited for by the card's state
Quick == Commands \ (Slow \cup {"BOOT_LOADER"})   \* waited for by the register
Failing == Slow \cup {"SET_PARAM"}
HasInput == {"SET_TIME", "MAP_RAMDISK", "SET_PARAM"}
Answering == {"SET_TIME", "MAP_RAMDISK", "GET_MAC_ADDR", "BOOT_BLOCK_IO", "CPU_MAX_FREQ_NON_TURBO"}
                 \cup Cached
Takes(c) == IF c = "SET_TIME" THEN "time" ELSE IF c = "MAP_RAMDISK" THEN "size" ELSE "value"
Gives(c) ==
    IF c = "SET_TIME" THEN "flags" ELSE IF c = "MAP_RAMDISK" THEN "address"
    ELSE IF c = "GET_MAC_ADDR" THEN "mac" ELSE IF c = "BOOT_BLOCK_IO" THEN "devpage" ELSE c
Polls == {"consumed", "state"}

(* The states that tell of the end of a slow command.                      *)
Mask(c) ==
    IF c = "MAP_RAMDISK" THEN {"DONE"} ELSE IF c = "BOOT_RAMDISK" THEN {"BOOTING", "OS_READY"}
    ELSE IF c = "BOOT_BLOCK_IO" THEN {"BOOTING_BLOCK_IO", "OS_READY"} ELSE {"FLASHING"}

(* Only waits before the next reading, which is of v.                      *)
Ahead(s, k, v) == \E j \in k..Len(s) : s[j] = Fetch(v) /\ \A m \in k..j - 1 : s[m].do \in Polls

(* Command c before the next look at the card's state.                     *)
Unchecked(s, k, c) ==
    \E j \in k..Len(s) : s[j] = Command(c) /\ \A m \in k..j - 1 : s[m].do \notin {"require", "lock"}

NoCmd(s) == \A j \in 1..Len(s) : s[j].do # "cmd"
NoCmdAfter(s, i) == \A j \in i + 1..Len(s) : s[j].do # "cmd"
OnlyLast(s, i) == \A j \in i + 1..Len(s) : s[j].do = "cmd" => \E d \in Last : s[j].arg = {d}

WaitedFor(op, s, i, c) ==
    /\ s[i].arg = {c} /\ i < Len(s)
    /\ c \in Quick \cup Slow
    /\ c \in Quick => s[i + 1] = Consumed
    /\ c = "SET_PARAM" => i + 1 < Len(s) /\ s[i + 2].do = "error"
    /\ c \in Slow => s[i + 1] = State(Mask(c) \cup Errors)
    /\ c \in Boots => op \in {"boot_ramdisk", "boot_blkdisk"}
    /\ c = "MAP_RAMDISK" => OnlyLast(s, i)
    /\ c \in Last => NoCmdAfter(s, i)

ToldAt(op, s, i) ==
    /\ s[i].do \in {"lock", "unlock", "require", "data", "cmd", "consumed", "state", "fetch",
                    "version", "copy", "error", "cached"}
    /\ s[i].do = "cmd" => \E c \in Commands : WaitedFor(op, s, i, c)
    /\ \A c \in HasInput : i < Len(s) /\ s[i + 1] = Command(c) => s[i] = Data(Takes(c))
    /\ \A v \in Values : Ahead(s, i + 1, v) =>
         s[i].do \in Polls \/ \E c \in Answering : s[i] = Command(c) /\ Gives(c) = v
    /\ s[i].do = "lock" => \A c \in Slow : ~Unchecked(s, i + 1, c)
    /\ s[i].do = "require" => s[i].arg = {"READY"}
    /\ s[i].do = "fetch" => \E v \in Values : s[i] = Fetch(v)

Told(op, s) == \A i \in 1..Len(s) : ToldAt(op, s, i)

LEMMA ToldRest ==
    ASSUME NEW op, NEW s \in Seq(Steps), s # <<>>, Told(op, s)
    PROVE  /\ Told(op, Tail(s))
           /\ \A v : Ahead(Tail(s), 1, v) => Ahead(s, 2, v)
           /\ \A c : Unchecked(Tail(s), 1, c) => Unchecked(s, 2, c)
           /\ NoCmd(s) => NoCmd(Tail(s))
           /\ OnlyLast(s, 1) <=> OnlyLast(Tail(s), 0)
           /\ NoCmdAfter(s, 1) <=> NoCmd(Tail(s))
           /\ \A i \in 1..Len(Tail(s)) : Tail(s)[i] = s[i + 1]
           /\ Len(Tail(s)) = Len(s) - 1 /\ Head(s) = s[1]
<1> DEFINE u == Tail(s)
<1>1. PICK n \in Nat : n = Len(s) /\ n > 0 /\ Len(u) = n - 1
  OBVIOUS
<1>2. \A i \in 1..n - 1 : u[i] = s[i + 1]
  BY <1>1
<1>3. Head(s) = s[1]
  OBVIOUS
<1> HIDE DEF u
<1>4. ASSUME NEW k \in Nat, k > 0, NEW v, Ahead(u, k, v)
      PROVE  Ahead(s, k + 1, v)
  <2>1. PICK j \in k..n - 1 : u[j] = Fetch(v) /\ \A m \in k..j - 1 : u[m].do \in Polls
    BY <1>1, <1>4 DEF Ahead
  <2>0. j \in 1..n - 1 /\ j \in Nat
    BY <1>1, <1>4, <2>1
  <2>2. j + 1 \in k + 1..n /\ s[j + 1] = Fetch(v)
    BY <1>2, <2>0, <2>1
  <2>3. ASSUME NEW m \in k + 1..j
        PROVE  s[m].do \in Polls
    <3>1. m - 1 \in k..j - 1 /\ m - 1 \in 1..n - 1 /\ (m - 1) + 1 = m
      BY <1>4, <2>0
    <3> QED  BY <1>2, <2>1, <3>1
  <2> QED  BY <1>1, <2>2, <2>3 DEF Ahead
<1>5. ASSUME NEW k \in Nat, k > 0, NEW c, Unchecked(u, k, c)
      PROVE  Unchecked(s, k + 1, c)
  <2>1. PICK j \in k..n - 1 : u[j] = Command(c) /\ \A m \in k..j - 1 : u[m].do \notin {"require", "lock"}
    BY <1>1, <1>5 DEF Unchecked
  <2>0. j \in 1..n - 1 /\ j \in Nat
    BY <1>1, <1>5, <2>1
  <2>2. j + 1 \in k + 1..n /\ s[j + 1] = Command(c)
    BY <1>2, <2>0, <2>1
  <2>3. ASSUME NEW m \in k + 1..j
        PROVE  s[m].do \notin {"require", "lock"}
    <3>1. m - 1 \in k..j - 1 /\ m - 1 \in 1..n - 1 /\ (m - 1) + 1 = m
      BY <1>5, <2>0
    <3> QED  BY <1>2, <2>1, <3>1
  <2> QED  BY <1>1, <2>2, <2>3 DEF Unchecked
<1>6. \A i \in 0..n - 1 : /\ OnlyLast(s, i + 1) <=> OnlyLast(u, i)
                          /\ NoCmdAfter(s, i + 1) <=> NoCmdAfter(u, i)
  <2> SUFFICES ASSUME NEW i \in 0..n - 1
               PROVE  /\ OnlyLast(s, i + 1) <=> OnlyLast(u, i)
                      /\ NoCmdAfter(s, i + 1) <=> NoCmdAfter(u, i)
    OBVIOUS
  <2>1. \A j \in i + 1..n - 1 : j + 1 \in i + 2..n /\ u[j] = s[j + 1]
    BY <1>2
  <2>2. \A j \in (i + 1) + 1..n : j - 1 \in i + 1..n - 1 /\ u[j - 1] = s[j]
    <3> SUFFICES ASSUME NEW j \in (i + 1) + 1..n PROVE j - 1 \in i + 1..n - 1 /\ u[j - 1] = s[j]
      OBVIOUS
    <3>1. j - 1 \in 1..n - 1 /\ (j - 1) + 1 = j
      OBVIOUS
    <3> QED  BY <1>2, <3>1
  <2>3. OnlyLast(s, i + 1) <=> OnlyLast(u, i)
    <3>1. ASSUME OnlyLast(s, i + 1) PROVE OnlyLast(u, i)
      <4> SUFFICES ASSUME NEW j \in i + 1..n - 1, u[j].do = "cmd" PROVE \E d \in Last : u[j].arg = {d}
        BY <1>1 DEF OnlyLast
      <4>1. j + 1 \in (i + 1) + 1..n /\ s[j + 1] = u[j]
        BY <2>1
      <4>2. \E d \in Last : s[j + 1].arg = {d}
        BY <1>1, <3>1, <4>1 DEF OnlyLast
      <4> QED  BY <4>1, <4>2
    <3>2. ASSUME OnlyLast(u, i) PROVE OnlyLast(s, i + 1)
      <4> SUFFICES ASSUME NEW j \in (i + 1) + 1..n, s[j].do = "cmd" PROVE \E d \in Last : s[j].arg = {d}
        BY <1>1 DEF OnlyLast
      <4>1. j - 1 \in i + 1..n - 1 /\ u[j - 1] = s[j]
        BY <2>2
      <4> QED  BY <1>1, <3>2, <4>1 DEF OnlyLast
    <3> QED  BY <3>1, <3>2
  <2>4. NoCmdAfter(s, i + 1) <=> NoCmdAfter(u, i)
    <3>1. ASSUME NoCmdAfter(s, i + 1) PROVE NoCmdAfter(u, i)
      BY <1>1, <2>1, <3>1 DEF NoCmdAfter
    <3>2. ASSUME NoCmdAfter(u, i) PROVE NoCmdAfter(s, i + 1)
      BY <1>1, <2>2, <3>2 DEF NoCmdAfter
    <3> QED  BY <3>1, <3>2
  <2> QED  BY <2>3, <2>4
<1>7. ASSUME NEW i \in 1..n - 1
      PROVE  ToldAt(op, u, i)
  <2>1. i + 1 \in 1..n /\ u[i] = s[i + 1] /\ ToldAt(op, s, i + 1)
    BY <1>1, <1>2 DEF Told
  <2>2. i < n - 1 => u[i + 1] = s[(i + 1) + 1] /\ i + 1 < n
    BY <1>2
  <2>3. i + 1 < n - 1 => u[i + 2] = s[(i + 1) + 2] /\ (i + 1) + 1 < n
    <3> SUFFICES ASSUME i + 1 < n - 1 PROVE u[i + 2] = s[(i + 1) + 2] /\ (i + 1) + 1 < n
      OBVIOUS
    <3>1. i + 2 \in 1..n - 1 /\ (i + 2) + 1 = (i + 1) + 2
      OBVIOUS
    <3> QED  BY <1>2, <3>1
  <2>4. i + 1 < n => i < n - 1
    OBVIOUS
  <2>5. (i + 1) + 1 < n => i + 1 < n - 1
    OBVIOUS
  <2>6. \A c \in Commands : WaitedFor(op, s, i + 1, c) => WaitedFor(op, u, i, c)
    BY <1>1, <1>6, <2>1, <2>2, <2>3, <2>4, <2>5 DEF WaitedFor
  <2>7. \A v \in Values : Ahead(u, i + 1, v) => Ahead(s, (i + 1) + 1, v)
    BY <1>4
  <2>8. \A c \in Slow : Unchecked(u, i + 1, c) => Unchecked(s, (i + 1) + 1, c)
    BY <1>5
  <2>9. \A c \in HasInput : i < n - 1 /\ u[i + 1] = Command(c) => u[i] = Data(Takes(c))
    <3> SUFFICES ASSUME NEW c \in HasInput, i < n - 1, u[i + 1] = Command(c) PROVE u[i] = Data(Takes(c))
      OBVIOUS
    <3>1. i + 1 < Len(s) /\ s[(i + 1) + 1] = Command(c)
      BY <1>1, <2>2
    <3> QED  BY <2>1, <3>1 DEF ToldAt
  <2> QED  BY <1>1, <2>1, <2>6, <2>7, <2>8, <2>9 DEF ToldAt
<1>8. Told(op, u)
  BY <1>1, <1>7 DEF Told
<1>9. OnlyLast(s, 1) <=> OnlyLast(u, 0)
  <2>1. 0 \in 0..n - 1 /\ 0 + 1 = 1
    BY <1>1
  <2> QED  BY <1>6, <2>1
<1>10. (NoCmdAfter(s, 1) <=> NoCmd(u)) /\ (NoCmd(s) => NoCmd(u))
  <2>1. 0 \in 0..n - 1 /\ 0 + 1 = 1
    BY <1>1
  <2>2. NoCmdAfter(s, 1) <=> NoCmdAfter(u, 0)
    BY <1>6, <2>1
  <2>3. NoCmdAfter(u, 0) <=> NoCmd(u)
    BY <2>1 DEF NoCmdAfter, NoCmd
  <2>4. NoCmd(s) => NoCmdAfter(s, 1)
    BY <1>1 DEF NoCmdAfter, NoCmd
  <2> QED  BY <2>2, <2>3, <2>4
<1>11. 1 + 1 = 2 /\ 1 \in Nat /\ 1 > 0
  OBVIOUS
<1>12. (\A v : Ahead(u, 1, v) => Ahead(s, 2, v)) /\ (\A c : Unchecked(u, 1, c) => Unchecked(s, 2, c))
  BY <1>4, <1>5, <1>11
<1> QED  BY <1>1, <1>2, <1>3, <1>8, <1>9, <1>10, <1>12 DEF u

(* A reading comes after the command it has the answer of.                 *)
ReadsAnswer(s, j) ==
    \E g \in 1..j - 1 : \E c \in Answering :
      s[g] = Command(c) /\ s[j] = Fetch(Gives(c)) /\ \A m \in g + 1..j - 1 : s[m].do \in Polls

Careful(op, s) ==
    \A i \in 1..Len(s) :
      /\ s[i].do \in {"lock", "unlock", "require", "data", "cmd", "consumed", "state", "fetch",
                      "version", "copy", "error", "cached"}
      /\ s[i].do = "cmd" => \E c \in Commands : WaitedFor(op, s, i, c)
      /\ \A c \in HasInput : i < Len(s) /\ s[i + 1] = Command(c) => s[i] = Data(Takes(c))
      /\ s[i].do = "fetch" => ReadsAnswer(s, i)
      /\ s[i].do = "lock" => (i < Len(s) /\ s[i + 1].do = "require")
                              \/ \A j \in 1..Len(s), c \in Slow : s[j] # Command(c)
      /\ s[i].do = "require" => s[i].arg = {"READY"}

LEMMA CarefulIsTold ==
    ASSUME NEW op, NEW s \in Seq(Steps), Careful(op, s)
    PROVE  Told(op, s)
<1>1. PICK n \in Nat : n = Len(s)
  OBVIOUS
<1>2. ASSUME NEW i \in 1..n, NEW v \in Values, Ahead(s, i + 1, v)
      PROVE  s[i].do \in Polls \/ \E c \in Answering : s[i] = Command(c) /\ Gives(c) = v
  <2>1. PICK j \in i + 1..n : s[j] = Fetch(v) /\ \A m \in i + 1..j - 1 : s[m].do \in Polls
    BY <1>1, <1>2 DEF Ahead
  <2>2. j \in 1..n /\ s[j].do = "fetch"
    BY <2>1 DEF Fetch, Step
  <2>3. ReadsAnswer(s, j)
    BY <1>1, <2>2 DEF Careful
  <2>4. PICK g \in 1..j - 1 : \E c \in Answering :
          s[g] = Command(c) /\ s[j] = Fetch(Gives(c)) /\ \A m \in g + 1..j - 1 : s[m].do \in Polls
    BY <2>3 DEF ReadsAnswer
  <2>5. PICK c \in Answering :
          s[g] = Command(c) /\ s[j] = Fetch(Gives(c)) /\ \A m \in g + 1..j - 1 : s[m].do \in Polls
    BY <2>4
  <2>6. Gives(c) = v
    <3>1. \A x : Fetch(x).arg = {x}
      BY DEF Fetch, Step
    <3>2. Fetch(v).arg = Fetch(Gives(c)).arg
      BY <2>1, <2>5
    <3> QED  BY <3>1, <3>2
  <2>7. s[g].do \notin Polls
    BY <2>5 DEF Command, Step, Polls
  <2>8. ~(i < g)
    BY <2>1, <2>2, <2>4, <2>7
  <2>9. CASE i = g
    BY <2>5, <2>6, <2>9
  <2>10. CASE i > g
    BY <2>1, <2>2, <2>4, <2>5, <2>10
  <2> QED  BY <2>2, <2>4, <2>8, <2>9, <2>10
<1>3. ASSUME NEW i \in 1..n, s[i].do = "lock", NEW c \in Slow, Unchecked(s, i + 1, c)
      PROVE  FALSE
  <2>1. PICK j \in i + 1..n : s[j] = Command(c) /\ \A m \in i + 1..j - 1 : s[m].do \notin {"require", "lock"}
    BY <1>1, <1>3 DEF Unchecked
  <2>2. j \in 1..n /\ s[j].do = "cmd"
    BY <2>1 DEF Command, Step
  <2>3. s[i + 1].do = "require"
    BY <1>1, <1>3, <2>1, <2>2 DEF Careful
  <2>4. j # i + 1 /\ i + 1 \in i + 1..j - 1
    BY <2>1, <2>2, <2>3
  <2> QED  BY <2>1, <2>3, <2>4
<1>4. \A i \in 1..n : s[i].do = "fetch" => \E v \in Values : s[i] = Fetch(v)
  <2>1. \A c \in Answering : Gives(c) \in Values
    BY DEF Answering, Gives, Values, Cached
  <2> QED  BY <1>1, <2>1 DEF Careful, ReadsAnswer
<1> QED  BY <1>1, <1>2, <1>3, <1>4 DEF Told, ToldAt, Careful

LEMMA SetTimeTold == Told("set_time", SetTime)
<1> DEFINE s == SetTime
<1>1. /\ Len(s) = 7 /\ s[1] = Lock /\ s[2] = Require /\ s[3] = Data("time")
      /\ s[4] = Command("SET_TIME") /\ s[5] = Consumed /\ s[6] = State({"READY"})
      /\ s[7] = Unlock
  BY DEF SetTime, SetTimeNoMutex
<1>2. s \in Seq(Steps)
  BY ScriptsTyped DEF Script, Operations
<1> HIDE DEF s
<1>3. /\ s[1].do = "lock" /\ s[2].do = "require" /\ s[3].do = "data" /\ s[4].do = "cmd"
      /\ s[5].do = "consumed" /\ s[6].do = "state" /\ s[7].do = "unlock"
  BY <1>1 DEF Lock, Unlock, Require, Command, Data, Fetch, State, Consumed, Step
<1>4. /\ s[2].arg = {"READY"} /\ s[4].arg = {"SET_TIME"}
  BY <1>1 DEF Require, Command, Step
<1>5. \A i \in 1..7 : s[i].do = "cmd" => i \in {4}
  BY <1>3
<1>6. WaitedFor("set_time", s, 4, "SET_TIME")
  BY <1>1, <1>3, <1>4 DEF WaitedFor, Quick, Slow, Last, Boots, Commands, Cached
<1>7. \A i \in 1..7 : s[i].do = "cmd" => \E c \in Commands : WaitedFor("set_time", s, i, c)
  BY <1>5, <1>6 DEF Commands, Cached
<1>8. ASSUME NEW i \in 1..7, NEW c \in HasInput, i < 7, s[i + 1] = Command(c)
      PROVE  s[i] = Data(Takes(c))
  <2>1. s[i + 1].do = "cmd" /\ s[i + 1].arg = {c}
    BY <1>8 DEF Command, Step
  <2>2. i + 1 \in {4}
    BY <1>5, <1>8, <2>1
  <2>3. (i + 1 = 4 /\ c = "SET_TIME")
    BY <1>4, <2>1, <2>2 DEF HasInput
  <2> QED  BY <1>1, <2>3 DEF Takes
<1>9. \A i \in 1..7 : s[i].do = "fetch" => ReadsAnswer(s, i)
  BY <1>3
<1>10. \A i \in 1..7 : s[i].do = "lock" => i < 7 /\ s[i + 1].do = "require"
  BY <1>3
<1>11. /\ \A i \in 1..7 : s[i].do = "require" => s[i].arg = {"READY"}
      /\ \A i \in 1..7 : s[i].do \in {"lock", "unlock", "require", "data", "cmd", "consumed",
                                    "state", "fetch", "version", "copy", "error", "cached"}
  BY <1>3, <1>4
<1>12. Careful("set_time", s)
  BY <1>1, <1>7, <1>8, <1>9, <1>10, <1>11 DEF Careful
<1> QED  BY <1>2, <1>12, CarefulIsTold DEF s

LEMMA GetMacAddrTold == Told("get_mac_addr", GetMacAddr)
<1> DEFINE s == GetMacAddr
<1>1. /\ Len(s) = 7 /\ s[1] = Lock /\ s[2] = Require /\ s[3] = Command("GET_MAC_ADDR")
      /\ s[4] = Consumed /\ s[5] = State({"READY"}) /\ s[6] = Fetch("mac") /\ s[7] = Unlock
  BY DEF GetMacAddr
<1>2. s \in Seq(Steps)
  BY ScriptsTyped DEF Script, Operations
<1> HIDE DEF s
<1>3. /\ s[1].do = "lock" /\ s[2].do = "require" /\ s[3].do = "cmd" /\ s[4].do = "consumed"
      /\ s[5].do = "state" /\ s[6].do = "fetch" /\ s[7].do = "unlock"
  BY <1>1 DEF Lock, Unlock, Require, Command, Data, Fetch, State, Consumed, Step
<1>4. /\ s[2].arg = {"READY"} /\ s[3].arg = {"GET_MAC_ADDR"}
  BY <1>1 DEF Require, Command, Step
<1>5. \A i \in 1..7 : s[i].do = "cmd" => i \in {3}
  BY <1>3
<1>6. WaitedFor("get_mac_addr", s, 3, "GET_MAC_ADDR")
  BY <1>1, <1>3, <1>4 DEF WaitedFor, Quick, Slow, Last, Boots, Commands, Cached
<1>7. \A i \in 1..7 : s[i].do = "cmd" => \E c \in Commands : WaitedFor("get_mac_addr", s, i, c)
  BY <1>5, <1>6 DEF Commands, Cached
<1>8. ASSUME NEW i \in 1..7, NEW c \in HasInput, i < 7, s[i + 1] = Command(c)
      PROVE  s[i] = Data(Takes(c))
  <2>1. s[i + 1].do = "cmd" /\ s[i + 1].arg = {c}
    BY <1>8 DEF Command, Step
  <2>2. i + 1 \in {3}
    BY <1>5, <1>8, <2>1
  <2> QED  BY <1>4, <2>1, <2>2 DEF HasInput
<1>9. ReadsAnswer(s, 6)
  <2>1. \A m \in 3 + 1..6 - 1 : s[m].do \in Polls
    BY <1>3 DEF Polls
  <2> QED  BY <1>1, <2>1 DEF ReadsAnswer, Answering, Gives, Cached
<1>10. \A i \in 1..7 : s[i].do = "fetch" => ReadsAnswer(s, i)
  BY <1>3, <1>9
<1>11. \A i \in 1..7 : s[i].do = "lock" => i < 7 /\ s[i + 1].do = "require"
  BY <1>3
<1>12. /\ \A i \in 1..7 : s[i].do = "require" => s[i].arg = {"READY"}
      /\ \A i \in 1..7 : s[i].do \in {"lock", "unlock", "require", "data", "cmd", "consumed",
                                    "state", "fetch", "version", "copy", "error", "cached"}
  BY <1>3, <1>4
<1>13. Careful("get_mac_addr", s)
  BY <1>1, <1>7, <1>8, <1>10, <1>11, <1>12 DEF Careful
<1> QED  BY <1>2, <1>13, CarefulIsTold DEF s

LEMMA BootRamdiskTold == Told("boot_ramdisk", BootRamdisk)
<1> DEFINE s == BootRamdisk
<1>1. /\ Len(s) = 17 /\ s[1] = Lock /\ s[2] = Require /\ s[3] = Command("GET_MAC_ADDR")
      /\ s[4] = Consumed /\ s[5] = State({"READY"}) /\ s[6] = Fetch("mac") /\ s[7] = Unlock
      /\ s[8] = Lock /\ s[9] = Require /\ s[10] = Data("size")
      /\ s[11] = Command("MAP_RAMDISK") /\ s[12] = State({"DONE"} \cup Errors)
      /\ s[13] = Fetch("address") /\ s[14] = Step("copy", {})
      /\ s[15] = Command("BOOT_RAMDISK")
      /\ s[16] = State({"BOOTING", "OS_READY"} \cup Errors) /\ s[17] = Unlock
  BY DEF BootRamdisk, GetMacAddr, SendRamdisk
<1>2. s \in Seq(Steps)
  BY ScriptsTyped DEF Script, Operations
<1> HIDE DEF s
<1>3. /\ s[1].do = "lock" /\ s[2].do = "require" /\ s[3].do = "cmd" /\ s[4].do = "consumed"
      /\ s[5].do = "state" /\ s[6].do = "fetch" /\ s[7].do = "unlock" /\ s[8].do = "lock"
      /\ s[9].do = "require" /\ s[10].do = "data" /\ s[11].do = "cmd" /\ s[12].do = "state"
      /\ s[13].do = "fetch" /\ s[14].do = "copy" /\ s[15].do = "cmd" /\ s[16].do = "state"
      /\ s[17].do = "unlock"
  BY <1>1 DEF Lock, Unlock, Require, Command, Data, Fetch, State, Consumed, Step
<1>4. /\ s[2].arg = {"READY"} /\ s[9].arg = {"READY"} /\ s[3].arg = {"GET_MAC_ADDR"}
      /\ s[11].arg = {"MAP_RAMDISK"} /\ s[15].arg = {"BOOT_RAMDISK"}
  BY <1>1 DEF Require, Command, Step
<1>5. \A i \in 1..17 : s[i].do = "cmd" => i \in {3, 11, 15}
  BY <1>3
<1>6. WaitedFor("boot_ramdisk", s, 3, "GET_MAC_ADDR")
  BY <1>1, <1>3, <1>4 DEF WaitedFor, Quick, Slow, Last, Boots, Commands, Cached
<1>7. WaitedFor("boot_ramdisk", s, 11, "MAP_RAMDISK")
  <2>1. OnlyLast(s, 11)
    BY <1>1, <1>4, <1>5 DEF OnlyLast, Last, Boots
  <2> QED  BY <1>1, <1>4, <2>1 DEF WaitedFor, Quick, Slow, Last, Boots, Commands, Mask
<1>8. WaitedFor("boot_ramdisk", s, 15, "BOOT_RAMDISK")
  <2>1. NoCmdAfter(s, 15)
    BY <1>1, <1>5 DEF NoCmdAfter
  <2> QED  BY <1>1, <1>4, <2>1 DEF WaitedFor, Quick, Slow, Last, Boots, Commands, Mask
<1>9. \A i \in 1..17 : s[i].do = "cmd" => \E c \in Commands : WaitedFor("boot_ramdisk", s, i, c)
  BY <1>5, <1>6, <1>7, <1>8 DEF Commands, Cached
<1>10. ASSUME NEW i \in 1..17, NEW c \in HasInput, i < 17, s[i + 1] = Command(c)
      PROVE  s[i] = Data(Takes(c))
  <2>1. s[i + 1].do = "cmd" /\ s[i + 1].arg = {c}
    BY <1>10 DEF Command, Step
  <2>2. i + 1 \in {3, 11, 15}
    BY <1>5, <1>10, <2>1
  <2>3. (i + 1 = 11 /\ c = "MAP_RAMDISK")
    BY <1>4, <2>1, <2>2 DEF HasInput
  <2> QED  BY <1>1, <2>3 DEF Takes
<1>11. ReadsAnswer(s, 6)
  <2>1. \A m \in 3 + 1..6 - 1 : s[m].do \in Polls
    BY <1>3 DEF Polls
  <2> QED  BY <1>1, <2>1 DEF ReadsAnswer, Answering, Gives, Cached
<1>12. ReadsAnswer(s, 13)
  <2>1. \A m \in 11 + 1..13 - 1 : s[m].do \in Polls
    BY <1>3 DEF Polls
  <2> QED  BY <1>1, <2>1 DEF ReadsAnswer, Answering, Gives, Cached
<1>13. \A i \in 1..17 : s[i].do = "fetch" => ReadsAnswer(s, i)
  BY <1>3, <1>11, <1>12
<1>14. \A i \in 1..17 : s[i].do = "lock" => i < 17 /\ s[i + 1].do = "require"
  BY <1>3
<1>15. /\ \A i \in 1..17 : s[i].do = "require" => s[i].arg = {"READY"}
      /\ \A i \in 1..17 : s[i].do \in {"lock", "unlock", "require", "data", "cmd", "consumed",
                                    "state", "fetch", "version", "copy", "error", "cached"}
  BY <1>3, <1>4
<1>16. Careful("boot_ramdisk", s)
  BY <1>1, <1>9, <1>10, <1>13, <1>14, <1>15 DEF Careful
<1> QED  BY <1>2, <1>16, CarefulIsTold DEF s

LEMMA BootBlkdiskTold == Told("boot_blkdisk", BootBlkdisk)
<1> DEFINE s == BootBlkdisk
<1>1. /\ Len(s) = 13 /\ s[1] = Lock /\ s[2] = Require /\ s[3] = Command("GET_MAC_ADDR")
      /\ s[4] = Consumed /\ s[5] = State({"READY"}) /\ s[6] = Fetch("mac") /\ s[7] = Unlock
      /\ s[8] = Lock /\ s[9] = Require /\ s[10] = Command("BOOT_BLOCK_IO")
      /\ s[11] = State({"BOOTING_BLOCK_IO", "OS_READY"} \cup Errors)
      /\ s[12] = Fetch("devpage") /\ s[13] = Unlock
  BY DEF BootBlkdisk, GetMacAddr
<1>2. s \in Seq(Steps)
  BY ScriptsTyped DEF Script, Operations
<1> HIDE DEF s
<1>3. /\ s[1].do = "lock" /\ s[2].do = "require" /\ s[3].do = "cmd" /\ s[4].do = "consumed"
      /\ s[5].do = "state" /\ s[6].do = "fetch" /\ s[7].do = "unlock" /\ s[8].do = "lock"
      /\ s[9].do = "require" /\ s[10].do = "cmd" /\ s[11].do = "state" /\ s[12].do = "fetch"
      /\ s[13].do = "unlock"
  BY <1>1 DEF Lock, Unlock, Require, Command, Data, Fetch, State, Consumed, Step
<1>4. /\ s[2].arg = {"READY"} /\ s[9].arg = {"READY"} /\ s[3].arg = {"GET_MAC_ADDR"}
      /\ s[10].arg = {"BOOT_BLOCK_IO"}
  BY <1>1 DEF Require, Command, Step
<1>5. \A i \in 1..13 : s[i].do = "cmd" => i \in {3, 10}
  BY <1>3
<1>6. WaitedFor("boot_blkdisk", s, 3, "GET_MAC_ADDR")
  BY <1>1, <1>3, <1>4 DEF WaitedFor, Quick, Slow, Last, Boots, Commands, Cached
<1>7. WaitedFor("boot_blkdisk", s, 10, "BOOT_BLOCK_IO")
  <2>1. NoCmdAfter(s, 10)
    BY <1>1, <1>5 DEF NoCmdAfter
  <2> QED  BY <1>1, <1>4, <2>1 DEF WaitedFor, Quick, Slow, Last, Boots, Commands, Mask
<1>8. \A i \in 1..13 : s[i].do = "cmd" => \E c \in Commands : WaitedFor("boot_blkdisk", s, i, c)
  BY <1>5, <1>6, <1>7 DEF Commands, Cached
<1>9. ASSUME NEW i \in 1..13, NEW c \in HasInput, i < 13, s[i + 1] = Command(c)
      PROVE  s[i] = Data(Takes(c))
  <2>1. s[i + 1].do = "cmd" /\ s[i + 1].arg = {c}
    BY <1>9 DEF Command, Step
  <2>2. i + 1 \in {3, 10}
    BY <1>5, <1>9, <2>1
  <2> QED  BY <1>4, <2>1, <2>2 DEF HasInput
<1>10. ReadsAnswer(s, 6)
  <2>1. \A m \in 3 + 1..6 - 1 : s[m].do \in Polls
    BY <1>3 DEF Polls
  <2> QED  BY <1>1, <2>1 DEF ReadsAnswer, Answering, Gives, Cached
<1>11. ReadsAnswer(s, 12)
  <2>1. \A m \in 10 + 1..12 - 1 : s[m].do \in Polls
    BY <1>3 DEF Polls
  <2> QED  BY <1>1, <2>1 DEF ReadsAnswer, Answering, Gives, Cached
<1>12. \A i \in 1..13 : s[i].do = "fetch" => ReadsAnswer(s, i)
  BY <1>3, <1>10, <1>11
<1>13. \A i \in 1..13 : s[i].do = "lock" => i < 13 /\ s[i + 1].do = "require"
  BY <1>3
<1>14. /\ \A i \in 1..13 : s[i].do = "require" => s[i].arg = {"READY"}
      /\ \A i \in 1..13 : s[i].do \in {"lock", "unlock", "require", "data", "cmd", "consumed",
                                    "state", "fetch", "version", "copy", "error", "cached"}
  BY <1>3, <1>4
<1>15. Careful("boot_blkdisk", s)
  BY <1>1, <1>8, <1>9, <1>12, <1>13, <1>14 DEF Careful
<1> QED  BY <1>2, <1>15, CarefulIsTold DEF s

LEMMA FlashTold == Told("flash", Flash)
<1> DEFINE s == Flash
<1>1. /\ Len(s) = 11 /\ s[1] = Lock /\ s[2] = Require /\ s[3] = Data("size")
      /\ s[4] = Command("MAP_RAMDISK") /\ s[5] = State({"DONE"} \cup Errors)
      /\ s[6] = Fetch("address") /\ s[7] = Step("copy", {}) /\ s[8] = Command("FLASH")
      /\ s[9] = State({"FLASHING"} \cup Errors) /\ s[10] = State({"DONE"} \cup Errors)
      /\ s[11] = Unlock
  BY DEF Flash, SendRamdisk
<1>2. s \in Seq(Steps)
  BY ScriptsTyped DEF Script, Operations
<1> HIDE DEF s
<1>3. /\ s[1].do = "lock" /\ s[2].do = "require" /\ s[3].do = "data" /\ s[4].do = "cmd"
      /\ s[5].do = "state" /\ s[6].do = "fetch" /\ s[7].do = "copy" /\ s[8].do = "cmd"
      /\ s[9].do = "state" /\ s[10].do = "state" /\ s[11].do = "unlock"
  BY <1>1 DEF Lock, Unlock, Require, Command, Data, Fetch, State, Consumed, Step
<1>4. /\ s[2].arg = {"READY"} /\ s[4].arg = {"MAP_RAMDISK"} /\ s[8].arg = {"FLASH"}
  BY <1>1 DEF Require, Command, Step
<1>5. \A i \in 1..11 : s[i].do = "cmd" => i \in {4, 8}
  BY <1>3
<1>6. WaitedFor("flash", s, 4, "MAP_RAMDISK")
  <2>1. OnlyLast(s, 4)
    BY <1>1, <1>4, <1>5 DEF OnlyLast, Last, Boots
  <2> QED  BY <1>1, <1>4, <2>1 DEF WaitedFor, Quick, Slow, Last, Boots, Commands, Mask
<1>7. WaitedFor("flash", s, 8, "FLASH")
  <2>1. NoCmdAfter(s, 8)
    BY <1>1, <1>5 DEF NoCmdAfter
  <2> QED  BY <1>1, <1>4, <2>1 DEF WaitedFor, Quick, Slow, Last, Boots, Commands, Mask
<1>8. \A i \in 1..11 : s[i].do = "cmd" => \E c \in Commands : WaitedFor("flash", s, i, c)
  BY <1>5, <1>6, <1>7 DEF Commands, Cached
<1>9. ASSUME NEW i \in 1..11, NEW c \in HasInput, i < 11, s[i + 1] = Command(c)
      PROVE  s[i] = Data(Takes(c))
  <2>1. s[i + 1].do = "cmd" /\ s[i + 1].arg = {c}
    BY <1>9 DEF Command, Step
  <2>2. i + 1 \in {4, 8}
    BY <1>5, <1>9, <2>1
  <2>3. (i + 1 = 4 /\ c = "MAP_RAMDISK")
    BY <1>4, <2>1, <2>2 DEF HasInput
  <2> QED  BY <1>1, <2>3 DEF Takes
<1>10. ReadsAnswer(s, 6)
  <2>1. \A m \in 4 + 1..6 - 1 : s[m].do \in Polls
    BY <1>3 DEF Polls
  <2> QED  BY <1>1, <2>1 DEF ReadsAnswer, Answering, Gives, Cached
<1>11. \A i \in 1..11 : s[i].do = "fetch" => ReadsAnswer(s, i)
  BY <1>3, <1>10
<1>12. \A i \in 1..11 : s[i].do = "lock" => i < 11 /\ s[i + 1].do = "require"
  BY <1>3
<1>13. /\ \A i \in 1..11 : s[i].do = "require" => s[i].arg = {"READY"}
      /\ \A i \in 1..11 : s[i].do \in {"lock", "unlock", "require", "data", "cmd", "consumed",
                                    "state", "fetch", "version", "copy", "error", "cached"}
  BY <1>3, <1>4
<1>14. Careful("flash", s)
  BY <1>1, <1>8, <1>9, <1>11, <1>12, <1>13 DEF Careful
<1> QED  BY <1>2, <1>14, CarefulIsTold DEF s

LEMMA SetBiosParamTold == Told("set_bios_param", SetBiosParam)
<1> DEFINE s == SetBiosParam
<1>1. /\ Len(s) = 8 /\ s[1] = Lock /\ s[2] = Step("version", {}) /\ s[3] = Require
      /\ s[4] = Data("value") /\ s[5] = Command("SET_PARAM") /\ s[6] = Consumed
      /\ s[7] = Step("error", {}) /\ s[8] = Unlock
  BY DEF SetBiosParam
<1>2. s \in Seq(Steps)
  BY ScriptsTyped DEF Script, Operations
<1> HIDE DEF s
<1>3. /\ s[1].do = "lock" /\ s[2].do = "version" /\ s[3].do = "require" /\ s[4].do = "data"
      /\ s[5].do = "cmd" /\ s[6].do = "consumed" /\ s[7].do = "error" /\ s[8].do = "unlock"
  BY <1>1 DEF Lock, Unlock, Require, Command, Data, Fetch, State, Consumed, Step
<1>4. /\ s[3].arg = {"READY"} /\ s[5].arg = {"SET_PARAM"}
  BY <1>1 DEF Require, Command, Step
<1>5. \A i \in 1..8 : s[i].do = "cmd" => i \in {5}
  BY <1>3
<1>6. WaitedFor("set_bios_param", s, 5, "SET_PARAM")
  BY <1>1, <1>3, <1>4 DEF WaitedFor, Quick, Slow, Last, Boots, Commands, Cached
<1>7. \A i \in 1..8 : s[i].do = "cmd" => \E c \in Commands : WaitedFor("set_bios_param", s, i, c)
  BY <1>5, <1>6 DEF Commands, Cached
<1>8. ASSUME NEW i \in 1..8, NEW c \in HasInput, i < 8, s[i + 1] = Command(c)
      PROVE  s[i] = Data(Takes(c))
  <2>1. s[i + 1].do = "cmd" /\ s[i + 1].arg = {c}
    BY <1>8 DEF Command, Step
  <2>2. i + 1 \in {5}
    BY <1>5, <1>8, <2>1
  <2>3. (i + 1 = 5 /\ c = "SET_PARAM")
    BY <1>4, <2>1, <2>2 DEF HasInput
  <2> QED  BY <1>1, <2>3 DEF Takes
<1>9. \A i \in 1..8 : s[i].do = "fetch" => ReadsAnswer(s, i)
  BY <1>3
<1>10. \A j \in 1..8, c \in Slow : s[j] # Command(c)
  <2> SUFFICES ASSUME NEW j \in 1..8, NEW c \in Slow, s[j] = Command(c) PROVE FALSE
    OBVIOUS
  <2>1. s[j].do = "cmd" /\ s[j].arg = {c}
    BY DEF Command, Step
  <2>2. j \in {5}
    BY <1>5, <2>1
  <2> QED  BY <1>4, <2>1, <2>2 DEF Slow, Last, Boots
<1>11. /\ \A i \in 1..8 : s[i].do = "require" => s[i].arg = {"READY"}
      /\ \A i \in 1..8 : s[i].do \in {"lock", "unlock", "require", "data", "cmd", "consumed",
                                    "state", "fetch", "version", "copy", "error", "cached"}
  BY <1>3, <1>4
<1>12. Careful("set_bios_param", s)
  BY <1>1, <1>7, <1>8, <1>9, <1>10, <1>11 DEF Careful
<1> QED  BY <1>2, <1>12, CarefulIsTold DEF s

LEMMA GetBiosDateTold == Told("get_bios_date", GetBiosParam("BIOS_BUILD_DATE"))
<1> DEFINE s == GetBiosParam("BIOS_BUILD_DATE")
<1>1. /\ Len(s) = 11 /\ s[1] = Lock /\ s[2] = Step("cached", {"BIOS_BUILD_DATE"})
      /\ s[3] = Step("version", {}) /\ s[4] = Command("BIOS_BUILD_DATE") /\ s[5] = Consumed
      /\ s[6] = Fetch("BIOS_BUILD_DATE") /\ s[7] = Require /\ s[8] = Data("time")
      /\ s[9] = Command("SET_TIME") /\ s[10] = Consumed /\ s[11] = Unlock
  BY DEF GetBiosParam, CopyBiosInfo, SetTimeNoMutex, Fetch, Cached
<1>2. s \in Seq(Steps)
  BY ScriptsTyped DEF Script, Operations
<1> HIDE DEF s
<1>3. /\ s[1].do = "lock" /\ s[2].do = "cached" /\ s[3].do = "version" /\ s[4].do = "cmd"
      /\ s[5].do = "consumed" /\ s[6].do = "fetch" /\ s[7].do = "require" /\ s[8].do = "data"
      /\ s[9].do = "cmd" /\ s[10].do = "consumed" /\ s[11].do = "unlock"
  BY <1>1 DEF Lock, Unlock, Require, Command, Data, Fetch, State, Consumed, Step
<1>4. /\ s[7].arg = {"READY"} /\ s[4].arg = {"BIOS_BUILD_DATE"} /\ s[9].arg = {"SET_TIME"}
  BY <1>1 DEF Require, Command, Step
<1>5. \A i \in 1..11 : s[i].do = "cmd" => i \in {4, 9}
  BY <1>3
<1>6. WaitedFor("get_bios_date", s, 4, "BIOS_BUILD_DATE")
  BY <1>1, <1>3, <1>4 DEF WaitedFor, Quick, Slow, Last, Boots, Commands, Cached
<1>7. WaitedFor("get_bios_date", s, 9, "SET_TIME")
  BY <1>1, <1>3, <1>4 DEF WaitedFor, Quick, Slow, Last, Boots, Commands, Cached
<1>8. \A i \in 1..11 : s[i].do = "cmd" => \E c \in Commands : WaitedFor("get_bios_date", s, i, c)
  BY <1>5, <1>6, <1>7 DEF Commands, Cached
<1>9. ASSUME NEW i \in 1..11, NEW c \in HasInput, i < 11, s[i + 1] = Command(c)
      PROVE  s[i] = Data(Takes(c))
  <2>1. s[i + 1].do = "cmd" /\ s[i + 1].arg = {c}
    BY <1>9 DEF Command, Step
  <2>2. i + 1 \in {4, 9}
    BY <1>5, <1>9, <2>1
  <2>3. (i + 1 = 9 /\ c = "SET_TIME")
    BY <1>4, <2>1, <2>2 DEF HasInput
  <2> QED  BY <1>1, <2>3 DEF Takes
<1>10. ReadsAnswer(s, 6)
  <2>1. \A m \in 4 + 1..6 - 1 : s[m].do \in Polls
    BY <1>3 DEF Polls
  <2> QED  BY <1>1, <2>1 DEF ReadsAnswer, Answering, Gives, Cached
<1>11. \A i \in 1..11 : s[i].do = "fetch" => ReadsAnswer(s, i)
  BY <1>3, <1>10
<1>12. \A j \in 1..11, c \in Slow : s[j] # Command(c)
  <2> SUFFICES ASSUME NEW j \in 1..11, NEW c \in Slow, s[j] = Command(c) PROVE FALSE
    OBVIOUS
  <2>1. s[j].do = "cmd" /\ s[j].arg = {c}
    BY DEF Command, Step
  <2>2. j \in {4, 9}
    BY <1>5, <2>1
  <2> QED  BY <1>4, <2>1, <2>2 DEF Slow, Last, Boots
<1>13. /\ \A i \in 1..11 : s[i].do = "require" => s[i].arg = {"READY"}
      /\ \A i \in 1..11 : s[i].do \in {"lock", "unlock", "require", "data", "cmd", "consumed",
                                    "state", "fetch", "version", "copy", "error", "cached"}
  BY <1>3, <1>4
<1>14. Careful("get_bios_date", s)
  BY <1>1, <1>8, <1>9, <1>11, <1>12, <1>13 DEF Careful
<1> QED  BY <1>2, <1>14, CarefulIsTold DEF s

LEMMA GetMaxFreqTold == Told("get_max_freq", GetBiosParam("CPU_MAX_FREQ_NON_TURBO"))
<1> DEFINE s == GetBiosParam("CPU_MAX_FREQ_NON_TURBO")
<1>1. /\ Len(s) = 11 /\ s[1] = Lock /\ s[2] = Require /\ s[3] = Step("version", {})
      /\ s[4] = Command("CPU_MAX_FREQ_NON_TURBO") /\ s[5] = Consumed
      /\ s[6] = Fetch("CPU_MAX_FREQ_NON_TURBO") /\ s[7] = Require /\ s[8] = Data("time")
      /\ s[9] = Command("SET_TIME") /\ s[10] = Consumed /\ s[11] = Unlock
  BY DEF GetBiosParam, CopyBiosInfo, SetTimeNoMutex, Fetch, Cached
<1>2. s \in Seq(Steps)
  BY ScriptsTyped DEF Script, Operations
<1> HIDE DEF s
<1>3. /\ s[1].do = "lock" /\ s[2].do = "require" /\ s[3].do = "version" /\ s[4].do = "cmd"
      /\ s[5].do = "consumed" /\ s[6].do = "fetch" /\ s[7].do = "require" /\ s[8].do = "data"
      /\ s[9].do = "cmd" /\ s[10].do = "consumed" /\ s[11].do = "unlock"
  BY <1>1 DEF Lock, Unlock, Require, Command, Data, Fetch, State, Consumed, Step
<1>4. /\ s[2].arg = {"READY"} /\ s[7].arg = {"READY"}
      /\ s[4].arg = {"CPU_MAX_FREQ_NON_TURBO"} /\ s[9].arg = {"SET_TIME"}
  BY <1>1 DEF Require, Command, Step
<1>5. \A i \in 1..11 : s[i].do = "cmd" => i \in {4, 9}
  BY <1>3
<1>6. WaitedFor("get_max_freq", s, 4, "CPU_MAX_FREQ_NON_TURBO")
  BY <1>1, <1>3, <1>4 DEF WaitedFor, Quick, Slow, Last, Boots, Commands, Cached
<1>7. WaitedFor("get_max_freq", s, 9, "SET_TIME")
  BY <1>1, <1>3, <1>4 DEF WaitedFor, Quick, Slow, Last, Boots, Commands, Cached
<1>8. \A i \in 1..11 : s[i].do = "cmd" => \E c \in Commands : WaitedFor("get_max_freq", s, i, c)
  BY <1>5, <1>6, <1>7 DEF Commands, Cached
<1>9. ASSUME NEW i \in 1..11, NEW c \in HasInput, i < 11, s[i + 1] = Command(c)
      PROVE  s[i] = Data(Takes(c))
  <2>1. s[i + 1].do = "cmd" /\ s[i + 1].arg = {c}
    BY <1>9 DEF Command, Step
  <2>2. i + 1 \in {4, 9}
    BY <1>5, <1>9, <2>1
  <2>3. (i + 1 = 9 /\ c = "SET_TIME")
    BY <1>4, <2>1, <2>2 DEF HasInput
  <2> QED  BY <1>1, <2>3 DEF Takes
<1>10. ReadsAnswer(s, 6)
  <2>1. \A m \in 4 + 1..6 - 1 : s[m].do \in Polls
    BY <1>3 DEF Polls
  <2> QED  BY <1>1, <2>1 DEF ReadsAnswer, Answering, Gives, Cached
<1>11. \A i \in 1..11 : s[i].do = "fetch" => ReadsAnswer(s, i)
  BY <1>3, <1>10
<1>12. \A i \in 1..11 : s[i].do = "lock" => i < 11 /\ s[i + 1].do = "require"
  BY <1>3
<1>13. /\ \A i \in 1..11 : s[i].do = "require" => s[i].arg = {"READY"}
      /\ \A i \in 1..11 : s[i].do \in {"lock", "unlock", "require", "data", "cmd", "consumed",
                                    "state", "fetch", "version", "copy", "error", "cached"}
  BY <1>3, <1>4
<1>14. Careful("get_max_freq", s)
  BY <1>1, <1>8, <1>9, <1>11, <1>12, <1>13 DEF Careful
<1> QED  BY <1>2, <1>14, CarefulIsTold DEF s

LEMMA ScriptsTold ==
    \A op \in Believed : Told(op, Script(op)) /\ Head(Script(op)) = Lock
<1>1. \A op \in Believed : Told(op, Script(op))
  BY SetTimeTold, GetMacAddrTold, BootRamdiskTold, BootBlkdiskTold, FlashTold, SetBiosParamTold,
     GetBiosDateTold, GetMaxFreqTold DEF Believed, Operations, Script
<1>2. /\ Head(SetTime) = Lock /\ Head(GetMacAddr) = Lock /\ Head(Flash) = Lock
      /\ Head(SetBiosParam) = Lock /\ Head(CardReset) = Lock
  BY DEF SetTime, SetTimeNoMutex, GetMacAddr, Flash, SendRamdisk, SetBiosParam, CardReset
<1>3. Head(BootRamdisk) = Lock /\ Head(BootBlkdisk) = Lock
  BY DEF BootRamdisk, BootBlkdisk, GetMacAddr, SendRamdisk
<1>4. \A p \in {"BIOS_BUILD_DATE", "CPU_MAX_FREQ_NON_TURBO"} : Head(GetBiosParam(p)) = Lock
  BY DEF GetBiosParam, CopyBiosInfo, SetTimeNoMutex
<1> QED  BY <1>1, <1>2, <1>3, <1>4 DEF Believed, Operations, Script

-----------------------------------------------------------------------------
(* What the holder of the lock may rely on, whose call has s left and owes *)
(* the commands owed.                                                      *)

Home == {"up", "rung", "idle"}
BootCalls == {"boot_ramdisk", "boot_blkdisk"}
Behind == fw.pc = "consumed" /\ fw.job \in Quick

(* Nothing is owed, and the card is able to take a command, if there is    *)
(* one to come.                                                            *)
Resting(op, s, owed) ==
    /\ i7Cmd = None /\ owed = {}
    /\ \/ fw.pc \in Home \/ Behind
       \/ fw.pc = "flash" /\ NoCmd(s)
       \/ fw.pc = "os" /\ NoCmd(s) /\ "OS_REBOOTING" \notin i7Ready.ready /\ op \in BootCalls

(* One command is on its way; a slow one has not shown its state yet.      *)
Outcome(c, owed) == IF fw.failed THEN c \in Failing /\ i7Error ELSE owed = {}
Stage(c, owed) ==
    \/ /\ i7Cmd = c /\ owed = {c} /\ (c \in HasInput => data = Takes(c))
       /\ fw.pc \in Home \/ Behind \/ (fw.pc = "run" /\ fw.job = c /\ ~fw.failed)
    \/ i7Cmd = c /\ fw.pc = "answered" /\ fw.job = c /\ Outcome(c, owed)
    \/ i7Cmd = None /\ fw.pc = "consumed" /\ fw.job = c /\ Outcome(c, owed)
    \/ i7Cmd = None /\ fw.pc \in Home /\ i7Error /\ c \in Failing
Serving(c, op, s, owed) ==
    /\ Stage(c, owed)
    /\ c \in Slow => Mask(c) \cap i7Ready.ready = {}
    /\ c \in Boots => op \in BootCalls
    /\ c = "MAP_RAMDISK" => OnlyLast(s, 0)
    /\ c \in Last => NoCmd(s)

(* A command ended in an error that is still to be looked for.             *)
Refused == i7Cmd = None /\ i7Error /\ (fw.pc \in Home \/ Behind)

Waiting(op, s, owed) ==
    /\ Head(s).do \notin Polls \cup {"error"} => Resting(op, s, owed)
    /\ Head(s).do = "error" => Resting(op, s, owed) \/ Refused
    /\ Head(s).do = "consumed" => Resting(op, s, owed) \/ \E c \in Quick :
         Serving(c, op, s, owed) /\ (c = "SET_PARAM" => Len(s) > 1 /\ s[2].do = "error")
    /\ Head(s).do = "state" => Resting(op, s, owed) \/ \E c \in Slow :
         Serving(c, op, s, owed) /\ Head(s).arg = Mask(c) \cup Errors
Reading(s, owed) ==
    \A v \in Values : Ahead(s, 1, v) =>
      IF owed = {} THEN data = v ELSE \E c \in Answering : owed = {c} /\ Gives(c) = v
Writing(s) == \A c \in HasInput : Head(s) = Command(c) => data = Takes(c)
Quiet(s) == \A c \in Slow : Unchecked(s, 1, c) => Mask(c) \cap i7Ready.ready = {}

Holds(op, s, owed) == Waiting(op, s, owed) /\ Reading(s, owed) /\ Writing(s) /\ Quiet(s)

(* Steps of the card and of its environment, but the one that answers.     *)
Outer == FwTake \/ FwConsume \/ FwState \/ FwFlashed \/ FwBoot \/ FwRing \/ FwLink
           \/ OsState \/ OsReboot \/ Interrupt \/ PowerFlag

LEMMA Distinct ==
    /\ Slow \cap Quick = {} /\ Last \subseteq Slow /\ Boots \subseteq Last
    /\ Slow \cup Quick \subseteq Commands /\ Slow = Last \cup {"MAP_RAMDISK"}
    /\ Failing \cap Quick = {"SET_PARAM"} /\ Failing \subseteq Commands /\ Slow \subseteq Failing
    /\ "BOOT_LOADER" \notin Slow \cup Quick /\ "MAP_RAMDISK" \notin Last
    /\ HasInput \subseteq Commands /\ Answering \subseteq Commands
    /\ ConstantsFit => None \notin Slow \cup Quick
  BY DEF Slow, Quick, Last, Boots, Commands, Failing, HasInput, Answering, ConstantsFit, Cached

(* The states that the masks do not know.                                  *)
LEMMA MaskMisses ==
    \A c \in Slow :
      /\ \A x \in {"READY", "UP", "BUSY", "GENERAL_ERROR", "POWER_DOWN"} : Mask(c) \cap {x} = {}
      /\ c \in Last => Mask(c) \cap {"DONE"} = {}
      /\ Mask(c) \cap Errors = {}
  BY DEF Mask, Slow, Last, Boots, Errors

(* What a command leaves behind when it ends.                              *)
LEMMA Ends ==
    ASSUME Registers, FwState
    PROVE  /\ fw.pc = "consumed" /\ i7Cmd' = i7Cmd /\ i7Error' = i7Error /\ data' = data
           /\ fw' \in FwType
           /\ fw.job \in Quick \/ fw.failed => fw'.pc \in {"up", "idle"}
           /\ fw.job \in Quick => i7Ready'.ready \in {{"GENERAL_ERROR"}, {"READY"}, {"UP"}}
           /\ fw.job \in Slow /\ fw.failed => i7Ready'.ready = {"GENERAL_ERROR"}
           /\ fw.job = "MAP_RAMDISK" /\ ~fw.failed => fw'.pc \in {"up", "idle"} /\ i7Ready'.ready = {"DONE"}
           /\ fw.job = "FLASH" /\ ~fw.failed => fw'.pc = "flash"
           /\ fw.job \in Boots /\ ~fw.failed => fw'.pc = "os" /\ "OS_REBOOTING" \notin i7Ready'.ready
<1>1. fw \in FwType /\ i7Ready \in [ready : SUBSET Flags, version : BOOLEAN]
  BY DEF Registers
<1> DEFINE home == IF fw.linked THEN "idle" ELSE "up"
           boots == fw.job \in {"BOOT_RAMDISK", "BOOT_BLOCK_IO", "BOOT_LOADER"} /\ ~fw.failed
           flashes == fw.job = "FLASH" /\ ~fw.failed
           shown == IF fw.failed /\ fw.job # "SET_PARAM" THEN {"GENERAL_ERROR"}
                    ELSE IF fw.job = "BOOT_BLOCK_IO" THEN {"BOOTING_BLOCK_IO"}
                    ELSE IF boots THEN {"BOOTING"}
                    ELSE IF flashes THEN {"FLASHING"}
                    ELSE IF fw.job = "MAP_RAMDISK" THEN {"DONE"}
                    ELSE IF fw.linked THEN {"READY"} ELSE {"UP"}
<1>2. /\ fw.pc = "consumed" /\ i7Cmd' = i7Cmd /\ i7Error' = i7Error /\ data' = data
      /\ fw' = [fw EXCEPT !.job = None, !.pc = IF boots THEN "os" ELSE IF flashes THEN "flash" ELSE home]
      /\ i7Ready' = [i7Ready EXCEPT !.ready = shown]
  BY DEF FwState
<1> HIDE DEF shown
<1>3. fw' \in FwType /\ fw'.pc = (IF boots THEN "os" ELSE IF flashes THEN "flash" ELSE home) /\ home \in {"up", "idle"}
  BY <1>1, <1>2 DEF FwType
<1>4. i7Ready'.ready = shown
  BY <1>1, <1>2
<1>5. /\ fw.job \in Quick => fw.job \notin {"BOOT_RAMDISK", "BOOT_BLOCK_IO", "BOOT_LOADER", "FLASH", "MAP_RAMDISK"}
      /\ fw.job \in Slow => fw.job # "SET_PARAM"
  BY DEF Quick, Slow, Last, Boots
<1>6. fw.job \in Quick => shown \in {{"GENERAL_ERROR"}, {"READY"}, {"UP"}}
  BY <1>5 DEF shown
<1>7. fw.job \in Slow /\ fw.failed => shown = {"GENERAL_ERROR"}
  BY <1>5 DEF shown
<1>8. fw.job = "MAP_RAMDISK" /\ ~fw.failed => shown = {"DONE"}
  BY DEF shown
<1>9. fw.job \in Boots /\ ~fw.failed => "OS_REBOOTING" \notin shown
  BY DEF shown, Boots
<1> QED  BY <1>2, <1>3, <1>4, <1>5, <1>6, <1>7, <1>8, <1>9 DEF Boots

LEMMA RestingKept ==
    ASSUME Registers, ConstantsFit, NEW t \in Threads, lbp_lock = t, NEW op, call[t].op = op, NEW s, NEW owed,
           Resting(op, s, owed), Outer
    PROVE  /\ Resting(op, s, owed)' /\ data' = data
           /\ Quiet(s) => Quiet(s)'
<1>1. fw \in FwType /\ i7Ready \in [ready : SUBSET Flags, version : BOOLEAN]
  BY DEF Registers
<1>2. i7Cmd = None /\ owed = {} /\ fw.pc \in Home \cup {"consumed", "flash", "os"}
  BY DEF Resting, Behind
<1>3. \A c \in Slow : Unchecked(s, 1, c) => ~NoCmd(s)
  BY DEF Unchecked, NoCmd, Command, Step
<1>4. ASSUME i7Ready'.ready \in {{}, {"READY"}, {"UP"}, {"BUSY"}, {"GENERAL_ERROR"}, {"POWER_DOWN"}} \/ NoCmd(s)
             \/ i7Ready' = i7Ready
      PROVE  Quiet(s) => Quiet(s)'
  BY <1>3, <1>4, MaskMisses DEF Quiet, Unchecked
<1>5. ~FwTake /\ ~FwConsume /\ ~FwBoot
  BY <1>2 DEF FwTake, FwConsume, FwBoot, Home
<1>6. CASE FwState
  <2>1. Behind
    BY <1>6, Ends DEF Resting, Home
  <2>2. /\ i7Cmd' = i7Cmd /\ data' = data /\ fw'.pc \in Home
        /\ i7Ready'.ready \in {{"GENERAL_ERROR"}, {"READY"}, {"UP"}}
    BY <1>6, <2>1, Ends DEF Behind, Home
  <2> QED  BY <1>2, <1>4, <2>2 DEF Resting
<1>7. CASE FwFlashed
  <2>1. /\ fw.pc = "flash" /\ fw'.pc = "idle" /\ i7Cmd' = i7Cmd /\ data' = data
    BY <1>1, <1>7 DEF FwFlashed, FwType
  <2>2. NoCmd(s)
    BY <2>1 DEF Resting, Home, Behind
  <2> QED  BY <1>2, <1>4, <2>1, <2>2 DEF Resting, Home
<1>8. CASE FwRing
  <2>1. fw.pc \in {"up", "rung"} /\ fw'.pc = "rung" /\ i7Cmd' = i7Cmd /\ data' = data /\ i7Ready' = i7Ready
    BY <1>1, <1>8 DEF FwRing, FwType, registers
  <2> QED  BY <1>2, <1>4, <2>1 DEF Resting, Home
<1>9. CASE FwLink
  <2>1. /\ fw'.pc = "idle" /\ i7Cmd' = i7Cmd /\ data' = data
        /\ i7Ready'.ready = {"READY"}
    BY <1>1, <1>9 DEF FwLink, FwType
  <2> QED  BY <1>2, <1>4, <2>1 DEF Resting, Home
<1>10. CASE OsState
  <2>1. fw.pc = "os" /\ op \notin BootCalls
    BY <1>10 DEF OsState, ConstantsFit, BootCalls
  <2> QED  BY <2>1 DEF Resting, Home, Behind
<1>11. CASE OsReboot
  <2>1. fw.pc = "os" /\ i7Ready.ready = {"OS_REBOOTING"}
    BY <1>11 DEF OsReboot
  <2> QED  BY <2>1 DEF Resting, Home, Behind
<1>12. CASE Interrupt
  <2>1. UNCHANGED <<i7Cmd, data, i7Ready, fw>>
    BY <1>12 DEF Interrupt, registers
  <2> QED  BY <1>4, <2>1 DEF Resting, Behind
<1>13. CASE PowerFlag
  <2>1. i7Cmd' = i7Cmd /\ data' = data /\ fw' = fw /\ i7Ready'.ready \in {{}, {"POWER_DOWN"}}
    BY <1>13 DEF PowerFlag
  <2> QED  BY <1>4, <2>1 DEF Resting, Behind
<1> QED  BY <1>5, <1>6, <1>7, <1>8, <1>9, <1>10, <1>11, <1>12, <1>13 DEF Outer

LEMMA RefusedKept ==
    ASSUME Registers, ConstantsFit, Refused, Outer
    PROVE  Refused' /\ data' = data /\ \A s : Quiet(s) => Quiet(s)'
<1>0. ASSUME i7Ready'.ready \in {{}, {"READY"}, {"UP"}, {"BUSY"}, {"GENERAL_ERROR"}, {"POWER_DOWN"}}
             \/ i7Ready' = i7Ready
      PROVE  \A s : Quiet(s) => Quiet(s)'
  BY <1>0, MaskMisses DEF Quiet, Unchecked
<1>1. fw \in FwType /\ i7Ready \in [ready : SUBSET Flags, version : BOOLEAN]
  BY DEF Registers
<1>2. ~FwTake /\ ~FwConsume /\ ~FwBoot /\ ~FwFlashed /\ ~OsState /\ ~OsReboot
  BY DEF FwTake, FwConsume, FwBoot, FwFlashed, OsState, OsReboot, Home, Refused, Behind
<1>3. CASE FwState
  <2>1. Behind
    BY <1>3, Ends DEF Refused, Home
  <2> QED  BY <1>0, <1>3, <2>1, Ends DEF Refused, Behind, Home
<1>4. CASE FwRing
  BY <1>0, <1>1, <1>4 DEF FwRing, Refused, Home, FwType, registers
<1>5. CASE FwLink
  BY <1>0, <1>1, <1>5 DEF FwLink, Refused, Home, FwType
<1>6. CASE Interrupt
  BY <1>0, <1>6 DEF Interrupt, Refused, Behind, registers
<1>7. CASE PowerFlag
  BY <1>0, <1>7 DEF PowerFlag, Refused, Behind
<1> QED  BY <1>2, <1>3, <1>4, <1>5, <1>6, <1>7 DEF Outer

LEMMA ServingKept ==
    ASSUME Registers, ConstantsFit, NEW op, NEW s, NEW owed, NEW c \in Quick \cup Slow,
           Serving(c, op, s, owed), Outer
    PROVE  /\ Serving(c, op, s, owed)' \/ Resting(op, s, owed)'
           /\ data' = data /\ (Quiet(s) => Quiet(s)')
<1>1. fw \in FwType /\ i7Ready \in [ready : SUBSET Flags, version : BOOLEAN] /\ i7Cmd \in Commands \cup {None}
  BY DEF Registers
<1>2. c \in Commands /\ c # None
  BY Distinct
<1>3. /\ c \in Boots => op \in BootCalls
      /\ c = "MAP_RAMDISK" => OnlyLast(s, 0)
      /\ c \in Last => NoCmd(s)
  BY DEF Serving
<1>4. ASSUME i7Ready'.ready \in {{}, {"READY"}, {"UP"}, {"BUSY"}, {"GENERAL_ERROR"}, {"POWER_DOWN"}}
             \/ i7Ready' = i7Ready
      PROVE  (Quiet(s) => Quiet(s)') /\ (c \in Slow => Mask(c) \cap i7Ready'.ready = {})
  <2>1. c \in Slow => Mask(c) \cap i7Ready.ready = {}
    BY DEF Serving
  <2> QED  BY <1>4, <2>1, MaskMisses DEF Quiet, Unchecked
<1>5. ~FwBoot /\ ~FwFlashed /\ ~OsState /\ ~OsReboot
  BY DEF FwBoot, FwFlashed, OsState, OsReboot, Serving, Stage, Home, Behind
<1>6. Stage(c, owed)
  BY DEF Serving
<1>7. ASSUME (c \in Slow => Mask(c) \cap i7Ready'.ready = {}), Stage(c, owed)'
      PROVE  Serving(c, op, s, owed)'
  BY <1>3, <1>7 DEF Serving, OnlyLast, NoCmd
<1>8. CASE FwTake
  <2>1. /\ i7Cmd # None /\ fw.pc \in {"up", "idle"} /\ i7Cmd' = i7Cmd /\ data' = data
        /\ fw'.pc = "run" /\ fw'.job = i7Cmd /\ ~fw'.failed
    BY <1>1, <1>8 DEF FwTake, FwType
  <2>2. i7Ready' = i7Ready \/ i7Ready'.ready = {"BUSY"}
    BY <1>1, <1>8 DEF FwTake
  <2>3. Stage(c, owed)'
    BY <1>6, <2>1 DEF Stage
  <2> QED  BY <1>4, <1>7, <2>1, <2>2, <2>3
<1>9. CASE FwConsume
  <2>1. /\ fw.pc = "answered" /\ fw'.pc = "consumed" /\ fw'.job = fw.job /\ fw'.failed = fw.failed
        /\ i7Cmd' = None /\ data' = data /\ i7Ready' = i7Ready /\ i7Error' = i7Error
    BY <1>1, <1>9 DEF FwConsume, FwType
  <2>2. Stage(c, owed)'
    BY <1>6, <2>1 DEF Stage, Outcome, Home, Behind
  <2> QED  BY <1>4, <1>7, <2>1, <2>2
<1>10. CASE FwState
  <2>1. fw.pc = "consumed" /\ i7Cmd' = i7Cmd /\ data' = data /\ i7Error' = i7Error
    BY <1>10, Ends
  <2>2. CASE i7Cmd = c
    <3>1. Behind /\ owed = {c} /\ (c \in HasInput => data = Takes(c))
      BY <1>2, <1>6, <2>1, <2>2 DEF Stage, Home
    <3>2. fw'.pc \in Home /\ i7Ready'.ready \in {{"GENERAL_ERROR"}, {"READY"}, {"UP"}}
      BY <1>10, <3>1, Ends DEF Behind, Home
    <3>3. Stage(c, owed)'
      BY <2>1, <2>2, <3>1, <3>2 DEF Stage
    <3> QED  BY <1>4, <1>7, <2>1, <3>2, <3>3
  <2>3. CASE i7Cmd # c
    <3>1. i7Cmd = None /\ fw.job = c /\ Outcome(c, owed)
      BY <1>6, <2>1, <2>3 DEF Stage, Home
    <3>2. CASE fw.failed
      <4>1. c \in Failing /\ i7Error /\ fw'.pc \in Home
        BY <1>10, <3>1, <3>2, Ends DEF Outcome, Home
      <4>2. i7Ready'.ready \in {{"GENERAL_ERROR"}, {"READY"}, {"UP"}}
        BY <1>10, <3>1, <3>2, Ends
      <4>3. Stage(c, owed)'
        BY <2>1, <3>1, <4>1 DEF Stage
      <4> QED  BY <1>4, <1>7, <2>1, <4>2, <4>3
    <3>3. CASE ~fw.failed /\ c \in Quick
      <4>1. owed = {} /\ fw'.pc \in Home /\ i7Ready'.ready \in {{"GENERAL_ERROR"}, {"READY"}, {"UP"}}
        BY <1>10, <3>1, <3>3, Ends DEF Outcome, Home
      <4>2. Resting(op, s, owed)'
        BY <2>1, <3>1, <4>1 DEF Resting
      <4> QED  BY <1>4, <2>1, <4>1, <4>2
    <3>4. CASE ~fw.failed /\ c = "MAP_RAMDISK"
      <4>1. owed = {} /\ fw'.pc \in Home /\ i7Ready'.ready = {"DONE"}
        BY <1>10, <3>1, <3>4, Ends DEF Outcome, Home
      <4>2. Resting(op, s, owed)'
        BY <2>1, <3>1, <4>1 DEF Resting
      <4>3. \A d \in Slow : Unchecked(s, 1, d) => d \in Last
        <5> SUFFICES ASSUME NEW d \in Slow, Unchecked(s, 1, d) PROVE d \in Last
          OBVIOUS
        <5>1. PICK j \in 1..Len(s) : s[j] = Command(d)
          BY DEF Unchecked
        <5>2. s[j].do = "cmd" /\ s[j].arg = {d}
          BY <5>1 DEF Command, Step
        <5>3. \A i \in 1..Len(s) : s[i].do = "cmd" => \E e \in Last : s[i].arg = {e}
          <6>1. OnlyLast(s, 0) /\ 0 + 1 = 1
            BY <1>3, <3>4
          <6>2. \A i \in 0 + 1..Len(s) : s[i].do = "cmd" => \E e \in Last : s[i].arg = {e}
            BY <6>1 DEF OnlyLast
          <6> QED  BY <6>1, <6>2
        <5>4. PICK e \in Last : s[j].arg = {e}
          BY <5>1, <5>2, <5>3
        <5>5. d \in s[j].arg
          BY <5>2
        <5> QED  BY <5>4, <5>5
      <4>4. Quiet(s)'
        BY <4>1, <4>3, MaskMisses DEF Quiet, Unchecked
      <4> QED  BY <2>1, <4>2, <4>4
    <3>5. CASE ~fw.failed /\ c \in Last
      <4>1. /\ owed = {} /\ NoCmd(s)
            /\ fw'.pc = "flash" \/ (fw'.pc = "os" /\ "OS_REBOOTING" \notin i7Ready'.ready /\ op \in BootCalls)
        BY <1>3, <1>10, <3>1, <3>5, Ends DEF Outcome, Last
      <4>2. Resting(op, s, owed)'
        BY <2>1, <3>1, <4>1 DEF Resting
      <4>3. \A d : ~Unchecked(s, 1, d)
        BY <4>1 DEF Unchecked, NoCmd, Command, Step
      <4> QED  BY <2>1, <4>2, <4>3 DEF Quiet, Unchecked
    <3> QED  BY <3>2, <3>3, <3>4, <3>5, Distinct
  <2> QED  BY <2>2, <2>3
<1>11. CASE FwRing
  <2>1. fw.pc \in {"up", "rung"} /\ fw'.pc = "rung" /\ UNCHANGED <<i7Cmd, data, i7Ready, i7Error>>
    BY <1>1, <1>11 DEF FwRing, FwType, registers
  <2>2. Stage(c, owed)'
    BY <1>6, <2>1 DEF Stage, Home, Behind
  <2> QED  BY <1>4, <1>7, <2>1, <2>2
<1>12. CASE FwLink
  <2>1. /\ fw.pc = "rung" /\ fw'.pc = "idle" /\ UNCHANGED <<i7Cmd, data, i7Error>>
        /\ i7Ready'.ready = {"READY"}
    BY <1>1, <1>12 DEF FwLink, FwType
  <2>2. Stage(c, owed)'
    BY <1>6, <2>1 DEF Stage, Home, Behind
  <2> QED  BY <1>4, <1>7, <2>1, <2>2
<1>13. CASE Interrupt
  <2>1. UNCHANGED <<i7Cmd, data, i7Ready, i7Error, fw>>
    BY <1>13 DEF Interrupt, registers
  <2>2. Stage(c, owed)'
    BY <1>6, <2>1 DEF Stage, Behind, Outcome
  <2> QED  BY <1>4, <1>7, <2>1, <2>2
<1>14. CASE PowerFlag
  <2>1. UNCHANGED <<i7Cmd, data, i7Error, fw>> /\ i7Ready'.ready \in {{}, {"POWER_DOWN"}}
    BY <1>14 DEF PowerFlag
  <2>2. Stage(c, owed)'
    BY <1>6, <2>1 DEF Stage, Behind, Outcome
  <2> QED  BY <1>4, <1>7, <2>1, <2>2
<1> QED  BY <1>5, <1>8, <1>9, <1>10, <1>11, <1>12, <1>13, <1>14 DEF Outer

(* So what the holder relies on is kept by all of them.                    *)
LEMMA HoldsKept ==
    ASSUME Registers, ConstantsFit, NEW t \in Threads, lbp_lock = t, NEW op, call[t].op = op, NEW s, NEW owed,
           Holds(op, s, owed), Outer
    PROVE  Holds(op, s, owed)'
<1>1. CASE Resting(op, s, owed)
  <2>1. Resting(op, s, owed)' /\ data' = data /\ Quiet(s)'
    BY <1>1, RestingKept DEF Holds
  <2> QED  BY <2>1 DEF Holds, Waiting, Reading, Writing, Ahead
<1>2. CASE Head(s).do = "error" /\ Refused
  <2>1. Refused' /\ data' = data /\ Quiet(s)'
    BY <1>2, RefusedKept DEF Holds
  <2> QED  BY <1>2, <2>1 DEF Holds, Waiting, Reading, Writing, Ahead, Polls
<1>3. ASSUME Head(s).do = "consumed", NEW c \in Quick, Serving(c, op, s, owed),
             c = "SET_PARAM" => Len(s) > 1 /\ s[2].do = "error"
      PROVE  Holds(op, s, owed)'
  <2>1. (Serving(c, op, s, owed)' \/ Resting(op, s, owed)') /\ data' = data /\ Quiet(s)'
    BY <1>3, ServingKept DEF Holds
  <2> QED  BY <1>3, <2>1 DEF Holds, Waiting, Reading, Writing, Ahead, Polls
<1>4. ASSUME Head(s).do = "state", NEW c \in Slow, Serving(c, op, s, owed), Head(s).arg = Mask(c) \cup Errors
      PROVE  Holds(op, s, owed)'
  <2>1. (Serving(c, op, s, owed)' \/ Resting(op, s, owed)') /\ data' = data /\ Quiet(s)'
    BY <1>4, ServingKept DEF Holds
  <2> QED  BY <1>4, <2>1 DEF Holds, Waiting, Reading, Writing, Ahead, Polls
<1> QED  BY <1>1, <1>2, <1>3, <1>4 DEF Holds, Waiting, Polls

LEMMA AnswerIs ==
    /\ \A c \in Answering : Answer(c) = Gives(c)
    /\ \A c \in HasInput : Input(c) = Takes(c)
    /\ \A c \in Commands \ HasInput : Input(c) = data
<1>1. \A c \in HasInput : Input(c) = Takes(c)
  BY DEF HasInput, Input, Takes
<1>2. \A c \in Commands \ HasInput : Input(c) = data
  BY DEF HasInput, Input
<1>3. \A c \in Answering : Answer(c) = Gives(c)
  BY DEF Answering, Answer, Gives, Cached, Values
<1> QED  BY <1>1, <1>2, <1>3

(* The answer: the command is not owed any more, or has failed.            *)
LEMMA HoldsRun ==
    ASSUME Registers, ConstantsFit, NEW t \in Threads, lbp_lock = t, call \in [Threads -> CallType],
           NEW op, NEW s, Holds(op, s, call[t].owed), FwRun
    PROVE  Holds(op, s, call[t].owed)'
<1> DEFINE owed == call[t].owed
<1>1. fw \in FwType /\ fw.pc = "run" /\ call[t] \in CallType
  BY DEF Registers, FwRun
<1>2. ~Resting(op, s, owed) /\ ~Refused
  BY <1>1 DEF Resting, Refused, Home, Behind
<1>3. PICK c \in Quick \cup Slow :
        /\ Serving(c, op, s, owed)
        /\ \/ Head(s).do = "consumed" /\ c \in Quick /\ (c = "SET_PARAM" => Len(s) > 1 /\ s[2].do = "error")
           \/ Head(s).do = "state" /\ c \in Slow /\ Head(s).arg = Mask(c) \cup Errors
  BY <1>2 DEF Holds, Waiting, Polls
<1>4. i7Cmd = c /\ owed = {c} /\ (c \in HasInput => data = Takes(c)) /\ fw.job = c /\ ~fw.failed
  BY <1>1, <1>3 DEF Serving, Stage, Home, Behind
<1>5. c \in Commands /\ data = Input(c)
  BY <1>4, Distinct, AnswerIs
<1>6. i7Cmd' = i7Cmd /\ i7Ready' = i7Ready /\ fw'.pc = "answered" /\ fw'.job = c
  BY <1>1, <1>4 DEF FwRun, FwType
<1>9. Writing(s)' /\ Quiet(s)'
  <2>1. \A d : Head(s) # Command(d)
    BY <1>3 DEF Command, Step
  <2> QED  BY <1>6, <2>1 DEF Holds, Writing, Quiet, Unchecked
<1>7. CASE fw' = [fw EXCEPT !.pc = "answered"] /\ data' = Answer(fw.job)
           /\ call' = [u \in Threads |->
                IF u = lbp_lock /\ data = Input(fw.job)
                THEN [call[u] EXCEPT !.owed = @ \ {fw.job}] ELSE call[u]]
  <2>1. call'[t].owed = {}
    <3>1. call'[t] = [call[t] EXCEPT !.owed = @ \ {fw.job}]
      BY <1>4, <1>5, <1>7
    <3>2. call'[t].owed = owed \ {c}
      BY <1>1, <1>4, <3>1 DEF CallType
    <3> QED  BY <1>4, <3>2
  <2>2. Outcome(c, {})'
    BY <1>1, <1>4, <1>7 DEF Outcome, FwType
  <2>3. Serving(c, op, s, {})'
    BY <1>3, <1>4, <1>6, <2>2 DEF Serving, Stage, OnlyLast, NoCmd
  <2>4. Reading(s, {})'
    <3> SUFFICES ASSUME NEW v \in Values, Ahead(s, 1, v) PROVE data' = v
      BY DEF Reading, Ahead
    <3>1. PICK d \in Answering : owed = {d} /\ Gives(d) = v
      BY <1>4 DEF Holds, Reading
    <3>2. d = c
      BY <1>4, <3>1
    <3> QED  BY <1>4, <1>7, <3>1, <3>2, AnswerIs
  <2>5. Waiting(op, s, {})'
    BY <1>3, <2>3 DEF Waiting, Polls
  <2>6. Holds(op, s, {})'
    BY <1>9, <2>4, <2>5 DEF Holds
  <2> QED  BY <2>1, <2>6
<1>8. CASE /\ fw.job \in {"MAP_RAMDISK", "BOOT_RAMDISK", "BOOT_BLOCK_IO", "BOOT_LOADER", "SET_PARAM", "FLASH"}
           /\ fw' = [fw EXCEPT !.pc = "answered", !.failed = TRUE]
           /\ i7Error' = TRUE /\ UNCHANGED <<data, call>>
  <2>1. c \in Failing
    BY <1>3, <1>4, <1>8, Distinct DEF Failing, Slow, Last, Boots
  <2>2. Outcome(c, owed)'
    BY <1>1, <1>8, <2>1 DEF Outcome, FwType
  <2>3. Serving(c, op, s, owed)'
    BY <1>3, <1>4, <1>6, <1>8, <2>2 DEF Serving, Stage, OnlyLast, NoCmd
  <2>4. Waiting(op, s, owed)'
    BY <1>3, <2>3 DEF Waiting, Polls
  <2>5. Reading(s, owed)'
    BY <1>8 DEF Holds, Reading, Ahead
  <2>6. Holds(op, s, owed)'
    BY <1>9, <2>4, <2>5 DEF Holds
  <2> QED  BY <1>8, <2>6
<1> QED  BY <1>7, <1>8 DEF FwRun, host

-----------------------------------------------------------------------------
(* The steps of the holder.                                                *)

(* The first of the steps left, and the second.                            *)
LEMMA FirstTwo ==
    ASSUME NEW r \in Seq(Steps), r # <<>>
    PROVE  /\ Len(r) \in Nat /\ 1 \in 1..Len(r) /\ Head(r) = r[1] /\ Tail(r) \in Seq(Steps)
           /\ Tail(r) # <<>> => /\ 1 < Len(r) /\ Len(Tail(r)) = Len(r) - 1
                                /\ Head(Tail(r)) = r[1 + 1] /\ Tail(r)[1] = r[1 + 1]
           /\ 1 < Len(r) => Tail(r) # <<>>
<1>1. PICK n \in Nat : n = Len(r) /\ n > 0 /\ Len(Tail(r)) = n - 1
  OBVIOUS
<1>2. Head(r) = r[1] /\ Tail(r) \in Seq(Steps) /\ \A i \in 1..n - 1 : Tail(r)[i] = r[i + 1]
  BY <1>1
<1>3. ASSUME Tail(r) # <<>>
      PROVE  1 < n /\ Head(Tail(r)) = r[1 + 1] /\ Tail(r)[1] = r[1 + 1]
  <2>1. Len(Tail(r)) # 0 /\ Head(Tail(r)) = Tail(r)[1]
    BY <1>2, <1>3
  <2>2. 1 \in 1..n - 1
    BY <1>1, <2>1
  <2> QED  BY <1>1, <1>2, <2>1, <2>2
<1>4. 1 < n => Tail(r) # <<>>
  <2>1. 1 < n => n - 1 # 0
    OBVIOUS
  <2>2. Tail(r) = <<>> <=> Len(Tail(r)) = 0
    BY <1>2, EmptySeq
  <2> QED  BY <1>1, <2>1, <2>2, Zenon
<1>5. 1 \in 1..n
  BY <1>1
<1> QED  BY <1>1, <1>2, <1>3, <1>4, <1>5

(* What is ahead of a step is ahead of the next one, too.                  *)
LEMMA Beyond ==
    ASSUME NEW r \in Seq(Steps), r # <<>>
    PROVE  /\ \A v : Head(r).do \in Polls /\ Ahead(r, 2, v) => Ahead(r, 1, v)
           /\ \A c : Head(r).do \notin {"require", "lock"} /\ Unchecked(r, 2, c) => Unchecked(r, 1, c)
<1>1. Len(r) \in Nat /\ Head(r) = r[1]
  BY FirstTwo
<1>2. \A j \in 2..Len(r) : j \in 1..Len(r) /\ \A m \in 1..j - 1 : m = 1 \/ m \in 2..j - 1
  BY <1>1
<1> QED  BY <1>1, <1>2 DEF Ahead, Unchecked

LEMMA NothingAhead ==
    ASSUME NEW r \in Seq(Steps), r # <<>>
    PROVE  /\ Head(r).do \notin Polls \cup {"fetch"} => \A v : ~Ahead(r, 1, v)
           /\ Head(r).do # "cmd" => \A c : Head(r) # Command(c)
<1>1. Len(r) \in Nat /\ Head(r) = r[1]
  BY FirstTwo
<1>2. \A j \in 1..Len(r) : j = 1 \/ 1 \in 1..j - 1
  BY <1>1
<1>3. \A v : Fetch(v).do = "fetch" /\ Command(v).do = "cmd"
  BY DEF Fetch, Command, Step
<1> QED  BY <1>1, <1>2, <1>3 DEF Ahead

(* A step that finds nothing owed, and gives no command.                   *)
LEMMA GoesOn ==
    ASSUME NEW op, NEW r \in Seq(Steps), r # <<>>, NEW owed, Told(op, r), Tail(r) # <<>>,
           Resting(op, r, owed), Head(r).do # "cmd",
           Head(r).do # "lock" => Reading(r, owed) /\ Quiet(r),
           Head(r).do = "require" => i7Ready.ready = {"READY"},
           i7Ready' = i7Ready, i7Cmd' = i7Cmd, fw' = fw,
           data' = IF Head(r).do = "data" THEN The(Head(r).arg) ELSE data
    PROVE  Told(op, Tail(r)) /\ Holds(op, Tail(r), owed)'
<1> DEFINE s == Tail(r)
<1>1. /\ Told(op, s) /\ s \in Seq(Steps)
      /\ \A v : Ahead(s, 1, v) => Ahead(r, 2, v)
      /\ \A c : Unchecked(s, 1, c) => Unchecked(r, 2, c)
      /\ NoCmd(r) => NoCmd(s)
  BY ToldRest, FirstTwo
<1>2. Head(r) = r[1] /\ Head(s) = r[1 + 1] /\ 1 < Len(r) /\ 1 + 1 = 2 /\ ToldAt(op, r, 1)
  BY FirstTwo DEF Told
<1> HIDE DEF s
<1>3. Resting(op, s, owed)'
  BY <1>1 DEF Resting, Behind
<1>4. Reading(s, owed)'
  <2> SUFFICES ASSUME NEW v \in Values, Ahead(s, 1, v) PROVE owed = {} /\ data' = v
    BY DEF Reading, Ahead
  <2>1. Ahead(r, 2, v)
    BY <1>1
  <2>2. Head(r).do \in Polls
    <3>1. r[1].do \in Polls \/ \E c \in Answering : r[1] = Command(c) /\ Gives(c) = v
      BY <1>2, <2>1 DEF ToldAt
    <3> QED  BY <1>2, <3>1, NothingAhead
  <2>3. Ahead(r, 1, v) /\ Head(r).do \notin {"lock", "data"}
    BY <2>1, <2>2, Beyond DEF Polls
  <2> QED  BY <2>3 DEF Reading, Resting
<1>5. Writing(s)'
  <2> SUFFICES ASSUME NEW c \in HasInput, Head(s) = Command(c) PROVE data' = Takes(c)
    BY DEF Writing
  <2>1. Head(r) = Data(Takes(c))
    BY <1>2 DEF ToldAt
  <2>2. Head(r).do = "data" /\ Head(r).arg = {Takes(c)}
    BY <2>1 DEF Data, Step
  <2> QED  BY <2>2, TheOnly
<1>6. Quiet(s)'
  <2> SUFFICES ASSUME NEW c \in Slow, Unchecked(s, 1, c) PROVE Mask(c) \cap i7Ready.ready = {}
    BY DEF Quiet, Unchecked
  <2>1. Unchecked(r, 2, c)
    BY <1>1
  <2>2. CASE Head(r).do = "lock"
    BY <1>2, <2>1, <2>2 DEF ToldAt
  <2>3. CASE Head(r).do = "require"
    BY <2>3, MaskMisses
  <2>4. CASE Head(r).do \notin {"lock", "require"}
    BY <2>1, <2>4, Beyond DEF Quiet
  <2> QED  BY <2>2, <2>3, <2>4
<1> QED  BY <1>1, <1>3, <1>4, <1>5, <1>6 DEF Holds, Waiting, s

(* The command goes into the register.                                     *)
LEMMA Commanded ==
    ASSUME NEW op, NEW r \in Seq(Steps), r # <<>>, NEW owed, Told(op, r), Holds(op, r, owed),
           NEW c, Head(r) = Command(c), i7Cmd' = c, UNCHANGED <<i7Ready, data, i7Error, fw>>
    PROVE  Tail(r) # <<>> /\ Told(op, Tail(r)) /\ Holds(op, Tail(r), owed \cup {c})'
<1> DEFINE s == Tail(r)
<1>1. /\ Head(r) = r[1] /\ 1 + 1 = 2 /\ ToldAt(op, r, 1) /\ s \in Seq(Steps)
      /\ Head(r).do = "cmd" /\ Head(r).arg = {c} /\ Len(r) \in Nat /\ 1 \in 1..Len(r)
  BY FirstTwo DEF Told, Command, Step
<1>2. WaitedFor(op, r, 1, c)
  <2>1. PICK d \in Commands : WaitedFor(op, r, 1, d)
    BY <1>1 DEF ToldAt
  <2>2. d = c
    BY <1>1, <2>1 DEF WaitedFor
  <2> QED  BY <2>1, <2>2
<1>3. s # <<>> /\ Head(s) = r[2] /\ s[1] = r[2] /\ Len(s) = Len(r) - 1
  BY <1>1, <1>2, FirstTwo DEF WaitedFor
<1>4. /\ Told(op, s)
      /\ \A v : Ahead(s, 1, v) => Ahead(r, 2, v)
      /\ \A d : Unchecked(s, 1, d) => Unchecked(r, 2, d)
      /\ OnlyLast(r, 1) <=> OnlyLast(s, 0)
      /\ NoCmdAfter(r, 1) <=> NoCmd(s)
      /\ \A i \in 1..Len(s) : s[i] = r[i + 1]
  BY ToldRest
<1> HIDE DEF s
<1>5. owed = {} /\ (fw.pc \in Home \/ Behind)
  <2>1. Resting(op, r, owed)
    BY <1>1 DEF Holds, Waiting, Polls
  <2>2. ~NoCmd(r)
    BY <1>1 DEF NoCmd
  <2> QED  BY <2>1, <2>2 DEF Resting
<1>6. /\ c \in Quick \cup Slow
      /\ c \in Quick => Head(s) = Consumed
      /\ c = "SET_PARAM" => 1 < Len(s) /\ s[2].do = "error"
      /\ c \in Slow => Head(s) = State(Mask(c) \cup Errors)
      /\ c \in Boots => op \in BootCalls
      /\ c = "MAP_RAMDISK" => OnlyLast(s, 0)
      /\ c \in Last => NoCmd(s)
  <2>1. c = "SET_PARAM" => 1 < Len(s) /\ s[2].do = "error"
    <3> SUFFICES ASSUME c = "SET_PARAM" PROVE 1 < Len(s) /\ s[2].do = "error"
      OBVIOUS
    <3>1. 1 + 1 < Len(r) /\ r[1 + 2].do = "error"
      BY <1>2 DEF WaitedFor
    <3>2. 1 < Len(s) /\ 2 \in 1..Len(s) /\ 2 + 1 = 1 + 2
      BY <1>1, <1>3, <3>1
    <3> QED  BY <1>4, <3>1, <3>2
  <2> QED  BY <1>1, <1>2, <1>3, <1>4, <2>1 DEF WaitedFor, BootCalls
<1>7. \A d \in Slow : Unchecked(s, 1, d) => Mask(d) \cap i7Ready.ready = {}
  BY <1>1, <1>4, Beyond DEF Holds, Quiet
<1>8. c \in Slow => Mask(c) \cap i7Ready.ready = {}
  <2>1. Unchecked(r, 1, c)
    BY <1>1 DEF Unchecked
  <2> QED  BY <2>1 DEF Holds, Quiet
<1>9. Serving(c, op, s, {c})'
  <2>1. c \in HasInput => data = Takes(c)
    BY DEF Holds, Writing
  <2>2. Stage(c, {c})'
    BY <1>5, <2>1 DEF Stage, Behind
  <2> QED  BY <1>6, <1>8, <2>2 DEF Serving, OnlyLast, NoCmd
<1>10. Waiting(op, s, {c})'
  <2>1. CASE c \in Quick
    <3>1. Head(s).do = "consumed" /\ "consumed" \in Polls
      BY <1>6, <2>1 DEF Consumed, Step, Polls
    <3> QED  BY <1>6, <1>9, <2>1, <3>1 DEF Waiting
  <2>2. CASE c \in Slow
    <3>1. Head(s).do = "state" /\ "state" \in Polls /\ Head(s).arg = Mask(c) \cup Errors
      BY <1>6, <2>2 DEF State, Step, Polls
    <3> QED  BY <1>9, <2>2, <3>1 DEF Waiting
  <2> QED  BY <1>6, <2>1, <2>2
<1>11. Reading(s, {c})'
  <2> SUFFICES ASSUME NEW v \in Values, Ahead(s, 1, v) PROVE \E d \in Answering : {c} = {d} /\ Gives(d) = v
    BY DEF Reading, Ahead
  <2>1. Ahead(r, 2, v) /\ r[1].do \notin Polls
    BY <1>1, <1>4 DEF Polls
  <2>2. PICK d \in Answering : r[1] = Command(d) /\ Gives(d) = v
    BY <1>1, <2>1 DEF ToldAt
  <2>3. {c} = {d}
    <3>1. r[1].arg = {d}
      BY <2>2 DEF Command, Step
    <3> QED  BY <1>1, <3>1
  <2> QED  BY <2>2, <2>3
<1>12. Writing(s)' /\ Quiet(s)'
  <2>1. Head(s).do # "cmd"
    BY <1>6 DEF Consumed, State, Step
  <2>2. Writing(s)'
    BY <2>1 DEF Writing, Command, Step
  <2>3. Quiet(s)'
    BY <1>7 DEF Quiet, Unchecked
  <2> QED  BY <2>2, <2>3
<1>13. owed \cup {c} = {c}
  BY <1>5
<1>14. Holds(op, s, {c})'
  BY <1>10, <1>11, <1>12 DEF Holds
<1> QED  BY <1>3, <1>4, <1>13, <1>14 DEF s

(* The waits end when the command is done, or in the error to look for.    *)
LEMMA ConsumedGoesOn ==
    ASSUME ConstantsFit, NEW op, NEW r \in Seq(Steps), r # <<>>, NEW owed, Told(op, r), Tail(r) # <<>>,
           Holds(op, r, owed), Head(r).do = "consumed", i7Cmd = None,
           UNCHANGED <<i7Ready, i7Cmd, data, i7Error, fw>>
    PROVE  Told(op, Tail(r)) /\ Holds(op, Tail(r), owed)'
<1>1. CASE Resting(op, r, owed)
  BY <1>1, GoesOn DEF Holds
<1>2. ASSUME NEW c \in Quick, Serving(c, op, r, owed),
             c = "SET_PARAM" => Len(r) > 1 /\ r[2].do = "error", ~Resting(op, r, owed)
      PROVE  Told(op, Tail(r)) /\ Holds(op, Tail(r), owed)'
  <2>1. c # None /\ c \notin Slow /\ (c \in Failing => c = "SET_PARAM")
    BY <1>2, Distinct
  <2>2. Refused /\ c \in Failing
    BY <1>2, <2>1 DEF Serving, Stage, Outcome, Refused, Resting, Behind
  <2>3. Tail(r) \in Seq(Steps) /\ Head(Tail(r)).do = "error" /\ Told(op, Tail(r))
    <3>1. r[1 + 1].do = "error" /\ 1 + 1 = 2
      BY <1>2, <2>1, <2>2
    <3> QED  BY <3>1, FirstTwo, ToldRest
  <2> DEFINE s == Tail(r)
  <2>4. Reading(s, owed)' /\ Writing(s)'
    <3>1. \A v : ~Ahead(s, 1, v)
      BY <2>3, NothingAhead DEF Polls
    <3>2. \A d : Head(s) # Command(d)
      BY <2>3, NothingAhead
    <3> QED  BY <3>1, <3>2 DEF Reading, Writing, Ahead
  <2>5. Quiet(s)'
    <3>1. \A d : Unchecked(s, 1, d) => Unchecked(r, 1, d)
      BY ToldRest, Beyond
    <3> QED  BY <3>1 DEF Holds, Quiet, Unchecked
  <2>6. Waiting(op, s, owed)'
    <3>1. Refused'
      BY <2>2 DEF Refused, Behind
    <3> QED  BY <2>3, <3>1 DEF Waiting, Polls
  <2> QED  BY <2>3, <2>4, <2>5, <2>6 DEF Holds
<1> QED  BY <1>1, <1>2 DEF Holds, Waiting

LEMMA StateReached ==
    ASSUME NEW op, NEW r, NEW owed, Holds(op, r, owed), Head(r).do = "state",
           i7Ready.ready \cap Head(r).arg # {}, i7Ready.ready \cap Head(r).arg \cap Errors = {}
    PROVE  Resting(op, r, owed)
  BY DEF Holds, Waiting, Serving

-----------------------------------------------------------------------------
(* What is known of a call.  One that has not failed, and found the card   *)
(* idle each time it took the lock, is to be trusted: without the lock it  *)
(* owes nothing, with it what is above holds.                              *)
Plainly(c) == c.op \in Believed => ~c.linked /\ \A i \in 1..Len(c.todo) : c.todo[i].do # "linked"
Resets(c) ==
    c.op = "reset" =>
      /\ c.owed = {} /\ ~c.bad
      /\ \A i \in 1..Len(c.todo) : c.todo[i].do \in {"lock", "pulse", "down", "unlock"}
Trusted(c) == c.op \in Believed /\ c.ok /\ c.alone
Works(c, held) ==
    Trusted(c) => /\ ~c.bad /\ Told(c.op, c.todo)
                  /\ IF held THEN Holds(c.op, c.todo, c.owed) ELSE c.owed = {}

DoneInv == \A t \in Threads : Plainly(call[t]) /\ Resets(call[t]) /\ Works(call[t], lbp_lock = t)

LEMMA IdleWorks ==
    ConstantsFit => Plainly(Idle) /\ Resets(Idle) /\ ~Trusted(Idle)
  BY DEF ConstantsFit, Plainly, Resets, Trusted, Idle, Believed, Operations

(* What a step leaves of a call is as plain as the call was.               *)
LEMMA RestPlain ==
    ASSUME ConstantsFit, NEW t \in Threads, call[t] \in CallType, call[t].todo # <<>>
    PROVE  /\ Plainly(call[t]) => Plainly(After(t))
           /\ Resets(call[t]) => Resets(After(t))
           /\ Tail(call[t].todo) = <<>> => After(t) = Idle
           /\ Tail(call[t].todo) # <<>> => After(t) = [call[t] EXCEPT !.todo = Tail(call[t].todo)]
<1> DEFINE r == call[t].todo
<1>1. CASE Tail(r) = <<>>
  BY <1>1, IdleWorks DEF After
<1>2. CASE Tail(r) # <<>>
  <2>1. After(t) = [call[t] EXCEPT !.todo = Tail(r)]
    BY <1>2 DEF After
  <2>2. /\ After(t).op = call[t].op /\ After(t).todo = Tail(r) /\ After(t).linked = call[t].linked
        /\ After(t).owed = call[t].owed /\ After(t).bad = call[t].bad
    BY <2>1 DEF CallType
  <2>3. r \in Seq(Steps) /\ r # <<>>
    BY DEF CallType
  <2> HIDE DEF r
  <2>4. \A i \in 1..Len(Tail(r)) : i + 1 \in 1..Len(r) /\ Tail(r)[i] = r[i + 1]
    BY <2>3
  <2>5. Plainly(call[t]) => Plainly(After(t))
    BY <2>2, <2>4 DEF Plainly, r
  <2>6. Resets(call[t]) => Resets(After(t))
    BY <2>2, <2>4 DEF Resets, r
  <2> QED  BY <1>2, <2>1, <2>5, <2>6 DEF r
<1> QED  BY <1>1, <1>2

LEMMA FailedPlain ==
    ASSUME ConstantsFit, NEW t \in Threads, call[t] \in CallType, Plainly(call[t])
    PROVE  Plainly(Failed(t)) /\ ~Trusted(Failed(t)) /\ (call[t].op # "reset" => Resets(Failed(t)))
<1> DEFINE s == IF call[t].op = "handshake" /\ ~call[t].linked THEN <<Unlock, E5("NOT_READY")>> ELSE <<Unlock>>
<1>1. Failed(t) = [Idle EXCEPT !.op = call[t].op, !.ok = call[t].linked, !.todo = s]
  BY DEF Failed
<1> HIDE DEF s
<1>2. /\ Failed(t).op = call[t].op /\ Failed(t).todo = s /\ Failed(t).linked = FALSE
      /\ Failed(t).ok = call[t].linked
  BY <1>1 DEF Idle
<1>3. call[t].op \in Believed => s = <<Unlock>>
  BY DEF s, Believed
<1>4. \A i \in 1..Len(<<Unlock>>) : <<Unlock>>[i].do # "linked"
  BY DEF Unlock, Step
<1>5. Plainly(Failed(t))
  BY <1>2, <1>3, <1>4 DEF Plainly
<1> QED  BY <1>2, <1>5 DEF Plainly, Resets, Trusted

(* A call d that has done the first step of c.                             *)
Follows(d, c) ==
    IF Tail(c.todo) = <<>> THEN d.op = None
    ELSE d.op = c.op /\ d.todo = Tail(c.todo) /\ d.linked = c.linked /\ d.ok = c.ok /\ (d.alone => c.alone)

LEMMA Onward ==
    ASSUME ConstantsFit, NEW t, NEW c \in CallType, c.todo # <<>>, NEW d, Follows(d, c), Plainly(c), Resets(c),
           c.op = "reset" => d.owed = {} /\ ~d.bad,
           Trusted(c) /\ d.alone /\ Tail(c.todo) # <<>> =>
             /\ ~d.bad /\ Told(c.op, Tail(c.todo))
             /\ IF lbp_lock' = t THEN Holds(c.op, Tail(c.todo), d.owed)' ELSE d.owed = {}
    PROVE  Plainly(d) /\ Resets(d) /\ Works(d, lbp_lock = t)'
<1>1. CASE Tail(c.todo) = <<>>
  BY <1>1 DEF Follows, Plainly, Resets, Works, Trusted, Believed, ConstantsFit, Operations
<1>2. CASE Tail(c.todo) # <<>>
  <2>1. /\ d.op = c.op /\ d.todo = Tail(c.todo) /\ d.linked = c.linked /\ d.ok = c.ok
        /\ d.alone => c.alone
    BY <1>2 DEF Follows
  <2>2. \A i \in 1..Len(Tail(c.todo)) : i + 1 \in 1..Len(c.todo) /\ Tail(c.todo)[i] = c.todo[i + 1]
    <3> DEFINE r == c.todo
    <3>1. r \in Seq(Steps) /\ r # <<>>
      BY DEF CallType
    <3> HIDE DEF r
    <3>2. \A i \in 1..Len(Tail(r)) : i + 1 \in 1..Len(r) /\ Tail(r)[i] = r[i + 1]
      BY <3>1
    <3> QED  BY <3>2 DEF r
  <2>3. Plainly(d) /\ Resets(d)
    BY <2>1, <2>2 DEF Plainly, Resets
  <2>4. Trusted(d) => Trusted(c) /\ d.alone
    BY <2>1 DEF Trusted
  <2>5. Works(d, lbp_lock = t)'
    BY <1>2, <2>1, <2>4 DEF Works
  <2> QED  BY <2>3, <2>5
<1> QED  BY <1>1, <1>2

LEMMA AfterFollows ==
    ASSUME NEW t \in Threads, NEW c \in CallType, c = call[t], c.todo # <<>>
    PROVE  /\ Follows(After(t), c) /\ After(t).owed \in {c.owed, {}} /\ (After(t).bad => c.bad)
           /\ Tail(c.todo) # <<>> => After(t) = [c EXCEPT !.todo = Tail(c.todo)]
           /\ Tail(c.todo) # <<>> => After(t).owed = c.owed /\ After(t).bad = c.bad
           /\ \A b \in BOOLEAN : /\ Follows([After(t) EXCEPT !.bad = b], c)
                                 /\ [After(t) EXCEPT !.bad = b].bad = b
                                 /\ [After(t) EXCEPT !.bad = b].owed = After(t).owed
           /\ \A o : /\ Follows([After(t) EXCEPT !.owed = o], c)
                     /\ [After(t) EXCEPT !.owed = o].owed = o
                     /\ [After(t) EXCEPT !.owed = o].bad = After(t).bad
           /\ \A b \in BOOLEAN : /\ Follows([After(t) EXCEPT !.alone = @ /\ b], c)
                                 /\ [After(t) EXCEPT !.alone = @ /\ b].owed = After(t).owed
                                 /\ [After(t) EXCEPT !.alone = @ /\ b].bad = After(t).bad
                                 /\ [After(t) EXCEPT !.alone = @ /\ b].alone => b
<1>1. CASE Tail(c.todo) = <<>>
  <2>1. After(t) = Idle
    BY <1>1 DEF After
  <2>2. \A b \in BOOLEAN : /\ [Idle EXCEPT !.bad = b].op = None /\ [Idle EXCEPT !.bad = b].bad = b
                          /\ [Idle EXCEPT !.bad = b].owed = {}
    BY DEF Idle
  <2>3. \A o : /\ [Idle EXCEPT !.owed = o].op = None /\ [Idle EXCEPT !.owed = o].owed = o
              /\ [Idle EXCEPT !.owed = o].bad = FALSE
    BY DEF Idle
  <2>4. \A b \in BOOLEAN : /\ [Idle EXCEPT !.alone = @ /\ b].op = None
                          /\ [Idle EXCEPT !.alone = @ /\ b].owed = {}
                          /\ [Idle EXCEPT !.alone = @ /\ b].bad = FALSE
                          /\ [Idle EXCEPT !.alone = @ /\ b].alone => b
    BY DEF Idle
  <2>5. Idle.op = None /\ Idle.owed = {} /\ Idle.bad = FALSE
    BY DEF Idle
  <2> QED  BY <1>1, <2>1, <2>2, <2>3, <2>4, <2>5 DEF Follows
<1>2. CASE Tail(c.todo) # <<>>
  <2>1. After(t) = [c EXCEPT !.todo = Tail(c.todo)]
    BY <1>2 DEF After
  <2> QED  BY <1>2, <2>1 DEF Follows, CallType
<1> QED  BY <1>1, <1>2

Sure == {"lock", "unlock", "require", "data", "cmd", "consumed", "state", "fetch",
         "version", "copy", "error", "cached"}

(* The steps that a call that is believed can be at, and what it has.      *)
LEMMA AtTold ==
    ASSUME Calls, ConstantsFit, NEW t \in Threads, NEW c \in CallType, c = call[t], NEW do, At(t, do),
           Plainly(c), Resets(c), Works(c, lbp_lock = t)
    PROVE  /\ c.todo \in Seq(Steps) /\ c.todo # <<>> /\ Head(c.todo) \in Steps /\ Head(c.todo).do = do
           /\ do \notin Free => lbp_lock = t
           /\ Trusted(c) => do \in Sure /\ ~c.bad /\ Told(c.op, c.todo)
           /\ Trusted(c) /\ lbp_lock = t => Holds(c.op, c.todo, c.owed)
           /\ Trusted(c) /\ lbp_lock # t => c.owed = {}
           /\ c.op \in Believed => do # "linked"
           /\ c.op = "reset" => do \in {"lock", "pulse", "down", "unlock"} /\ c.owed = {} /\ ~c.bad
<1>1. c.todo \in Seq(Steps) /\ c.todo # <<>> /\ Head(c.todo) \in Steps /\ Head(c.todo).do = do
  BY AtStep DEF CallType
<1>2. 1 \in 1..Len(c.todo) /\ Head(c.todo) = c.todo[1]
  <2> DEFINE r == c.todo
  <2> HIDE DEF r
  <2>1. r \in Seq(Steps) /\ r # <<>>
    BY <1>1 DEF r
  <2>2. 1 \in 1..Len(r) /\ Head(r) = r[1]
    BY <2>1, FirstTwo
  <2> QED  BY <2>2 DEF r
<1>3. do \notin Free => lbp_lock = t
  BY AtStep
<1>4. Trusted(c) => do \in Sure
  BY <1>1, <1>2 DEF Works, Told, ToldAt, Sure
<1> QED  BY <1>1, <1>2, <1>3, <1>4 DEF Works, Plainly, Resets

(* What is kept of a call.                                                 *)
Kept(t) == Plainly(call[t]) /\ Resets(call[t]) /\ Works(call[t], lbp_lock = t)

LEMMA Becomes ==
    ASSUME call \in [Threads -> CallType], NEW t \in Threads, NEW d, Proceed(t, d)
    PROVE  call'[t] = d
  BY DEF Proceed

LEMMA KeptIs ==
    ASSUME NEW t \in Threads, NEW d, call'[t] = d, Plainly(d), Resets(d), Works(d, lbp_lock = t)'
    PROVE  Kept(t)'
<1>1. Plainly(call[t])' /\ Resets(call[t])'
  BY DEF Plainly, Resets
<1>2. Works(call[t], lbp_lock = t)'
  BY DEF Works
<1> QED  BY <1>1, <1>2 DEF Kept

(* A failure.                                                              *)
LEMMA FailedKept ==
    ASSUME Calls, ConstantsFit, NEW t \in Threads, NEW do, At(t, do),
           do \notin {"lock", "pulse", "down", "unlock"}, Kept(t), Proceed(t, Failed(t))
    PROVE  Kept(t)'
<1>1. PICK c \in CallType : c = call[t]
  BY DEF Calls
<1>2. PICK d : d = Failed(t)
  OBVIOUS
<1>3. c.op # "reset"
  BY <1>1, AtTold DEF Kept
<1>4. Plainly(d) /\ Resets(d) /\ ~Trusted(d)
  BY <1>1, <1>2, <1>3, FailedPlain DEF Kept
<1>5. call'[t] = d
  BY <1>2, Becomes DEF Calls
<1> QED  BY <1>4, <1>5, KeptIs DEF Works

(* A step that a call to be believed never makes.                          *)
LEMMA OddKept ==
    ASSUME Calls, ConstantsFit, NEW t \in Threads, NEW do, At(t, do), do \notin Sure, Kept(t),
           NEW c \in CallType, c = call[t], NEW d, Follows(d, c), do \in {"pulse", "down"} => d.owed \in {c.owed, {}} /\ (d.bad => c.bad),
           Proceed(t, d)
    PROVE  Kept(t)'
<1>1. c.todo # <<>> /\ ~Trusted(c) /\ (c.op = "reset" => d.owed = {} /\ ~d.bad)
  BY AtTold DEF Kept, Sure
<1>2. Plainly(d) /\ Resets(d) /\ Works(d, lbp_lock = t)'
  BY <1>1, Onward DEF Kept
<1> QED  BY <1>2, Becomes, KeptIs DEF Calls

(* One that the holder makes with nothing owed.                            *)
LEMMA RestingGoesOn ==
    ASSUME Calls, ConstantsFit, NEW t \in Threads, NEW do, At(t, do), Kept(t),
           do \in {"data", "require", "version", "cached", "state", "copy", "error", "fetch"},
           NEW c \in CallType, c = call[t], NEW d, Follows(d, c), Tail(c.todo) # <<>> => d.owed = c.owed,
           Trusted(c) => Resting(c.op, c.todo, c.owed), Trusted(c) /\ d.alone => ~d.bad,
           do = "require" => i7Ready.ready = {"READY"},
           i7Ready' = i7Ready, i7Cmd' = i7Cmd, fw' = fw, lbp_lock' = lbp_lock,
           data' = IF do = "data" THEN The(Arg(t)) ELSE data, Proceed(t, d)
    PROVE  Kept(t)'
<1>1. /\ c.todo \in Seq(Steps) /\ c.todo # <<>> /\ c.op # "reset" /\ lbp_lock = t /\ Head(c.todo).do = do
      /\ Trusted(c) => Told(c.op, c.todo) /\ Holds(c.op, c.todo, c.owed)
  BY AtTold DEF Kept, Free
<1>2. PICK op : op = c.op
  OBVIOUS
<1>3. PICK r : r = c.todo
  OBVIOUS
<1>4. ASSUME Trusted(c), d.alone, Tail(r) # <<>>
      PROVE  Told(op, Tail(r)) /\ Holds(op, Tail(r), d.owed)'
  <2>1. r \in Seq(Steps) /\ r # <<>> /\ Told(op, r) /\ Holds(op, r, d.owed) /\ Resting(op, r, d.owed)
    BY <1>1, <1>2, <1>3, <1>4
  <2>2. /\ Head(r).do = do /\ Reading(r, d.owed) /\ Quiet(r)
        /\ data' = IF Head(r).do = "data" THEN The(Head(r).arg) ELSE data
    BY <1>1, <1>3, <2>1 DEF Holds, Arg
  <2>3. Head(r).do # "cmd" /\ (Head(r).do = "require" => i7Ready.ready = {"READY"})
    BY <2>2
  <2> QED  BY <1>4, <2>1, <2>2, <2>3, GoesOn
<1>5. Plainly(d) /\ Resets(d) /\ Works(d, lbp_lock = t)'
  BY <1>1, <1>2, <1>3, <1>4, Onward DEF Kept
<1> QED  BY <1>5, Becomes, KeptIs DEF Calls

LEMMA OddSteps ==
    ASSUME Calls, ConstantsFit, NEW t \in Threads, Kept(t),
           \/ Forget(t) \/ WriteE5(t) \/ Reinit(t) \/ WaitIrq(t) \/ Keep(t) \/ NoError(t) \/ Pulse(t)
           \/ ResetStop(t) \/ TimedOut(t)
           \/ (At(t, "linked") /\ Check(t)) \/ (At(t, "any_state") /\ WaitState(t)) \/ (At(t, "rcvy") /\ ReadData(t))
    PROVE  Kept(t)'
<1>1. PICK c \in CallType : c = call[t]
  BY DEF Calls
<1>2. ASSUME NEW do, At(t, do), do \notin Sure, Proceed(t, After(t))
      PROVE  Kept(t)'
  <2>1. c.todo # <<>>
    BY <1>1, <1>2, AtStep
  <2>2. PICK d : d = After(t)
    OBVIOUS
  <2>3. Follows(d, c) /\ d.owed \in {c.owed, {}} /\ (d.bad => c.bad)
    BY <1>1, <2>1, <2>2, AfterFollows
  <2>4. Proceed(t, d)
    BY <1>2, <2>2
  <2> QED  BY <1>1, <1>2, <2>3, <2>4, OddKept
<1>3. CASE Forget(t) \/ WriteE5(t) \/ Reinit(t) \/ Keep(t) \/ NoError(t) \/ Pulse(t) \/ ResetStop(t)
  <2>1. Proceed(t, After(t)) /\ \E do : do \notin Sure /\ At(t, do)
    BY <1>3 DEF Forget, WriteE5, Reinit, Keep, NoError, Pulse, ResetStop, Sure
  <2> QED  BY <1>2, <2>1
<1>4. CASE WaitIrq(t)
  <2>1. At(t, "irq") /\ (Proceed(t, After(t)) \/ Proceed(t, Failed(t)))
    BY <1>4 DEF WaitIrq
  <2> QED  BY <1>2, <2>1, FailedKept DEF Sure
<1>5. CASE TimedOut(t)
  <2>1. PICK do \in {"irq", "consumed", "state", "any_state"} : At(t, do)
    BY <1>5 DEF TimedOut
  <2>2. Proceed(t, Failed(t)) /\ do \notin {"lock", "pulse", "down", "unlock"}
    BY <1>5 DEF TimedOut
  <2> QED  BY <2>1, <2>2, FailedKept
<1>6. CASE At(t, "any_state") /\ WaitState(t)
  <2>1. At(t, "any_state") /\ Proceed(t, After(t))
    BY <1>6 DEF WaitState, At
  <2> QED  BY <1>2, <2>1 DEF Sure
<1>7. CASE At(t, "linked") /\ Check(t)
  <2>1. PICK d : d = [After(t) EXCEPT !.linked = TRUE]
    OBVIOUS
  <2>2. Proceed(t, d)
    BY <1>7, <2>1 DEF Check, At
  <2>3. c.op \notin Believed /\ c.op # "reset" /\ c.todo # <<>>
    BY <1>1, <1>7, AtTold DEF Kept
  <2>4. d.op \in {c.op, None}
    <3>1. After(t) \in CallType /\ After(t).op \in {c.op, None}
      BY <1>1, <1>7, <2>3, AtStep, AfterFollows DEF Follows
    <3> QED  BY <2>1, <3>1 DEF CallType
  <2>5. Plainly(d) /\ Resets(d) /\ ~Trusted(d)
    BY <2>3, <2>4 DEF Plainly, Resets, Trusted, ConstantsFit, Believed, Operations
  <2> QED  BY <2>2, <2>5, Becomes, KeptIs DEF Calls, Works
<1>8. CASE At(t, "rcvy") /\ ReadData(t)
  <2>1. \/ Proceed(t, [After(t) EXCEPT !.bad = data # "flags" /\ i7Ready.ready = {"READY"}])
        \/ Proceed(t, Failed(t))
    BY <1>8 DEF ReadData, At
  <2>2. CASE Proceed(t, [After(t) EXCEPT !.bad = data # "flags" /\ i7Ready.ready = {"READY"}])
    <3>1. PICK b \in BOOLEAN : b = (data # "flags" /\ i7Ready.ready = {"READY"})
      OBVIOUS
    <3>2. PICK d : d = [After(t) EXCEPT !.bad = b]
      OBVIOUS
    <3>3. c.todo # <<>>
      BY <1>1, <1>8, AtStep
    <3>4. Follows(d, c) /\ Proceed(t, d)
      BY <1>1, <2>2, <3>1, <3>2, <3>3, AfterFollows
    <3> QED  BY <1>1, <1>8, <3>4, OddKept DEF Sure
  <2>3. CASE Proceed(t, Failed(t))
    BY <1>8, <2>3, FailedKept
  <2> QED  BY <2>1, <2>2, <2>3
<1> QED  BY <1>3, <1>4, <1>5, <1>6, <1>7, <1>8

(* The steps that go on, or fail, with nothing owed.                       *)
LEMMA EasySteps ==
    ASSUME Calls, ConstantsFit, NEW t \in Threads, Kept(t),
           \/ WriteData(t) \/ Check(t) \/ (At(t, "state") /\ WaitState(t)) \/ CopyImage(t)
           \/ (At(t, "fetch") /\ ReadData(t))
    PROVE  Kept(t)'
<1>1. PICK c \in CallType : c = call[t]
  BY DEF Calls
<1>2. ASSUME NEW do, At(t, do), do \in {"data", "require", "version", "state", "copy"},
             Trusted(c) => Resting(c.op, c.todo, c.owed),
             do = "require" => i7Ready.ready = {"READY"},
             i7Ready' = i7Ready, i7Cmd' = i7Cmd, fw' = fw, lbp_lock' = lbp_lock,
             data' = IF do = "data" THEN The(Arg(t)) ELSE data, Proceed(t, After(t))
      PROVE  Kept(t)'
  <2>1. c.todo # <<>> /\ (Trusted(c) => ~c.bad)
    BY <1>1, <1>2, AtTold DEF Kept
  <2>2. PICK d : d = After(t)
    OBVIOUS
  <2>3. /\ Follows(d, c) /\ (d.bad => c.bad) /\ (Tail(c.todo) # <<>> => d.owed = c.owed)
        /\ Proceed(t, d)
    BY <1>1, <1>2, <2>1, <2>2, AfterFollows
  <2> QED  BY <1>1, <1>2, <2>1, <2>3, RestingGoesOn
<1>3. ASSUME NEW do, At(t, do), do \in {"data", "require", "version", "copy", "fetch"}
      PROVE  Trusted(c) => Resting(c.op, c.todo, c.owed)
  <2>1. /\ Head(c.todo).do = do /\ lbp_lock = t
        /\ Trusted(c) /\ lbp_lock = t => Holds(c.op, c.todo, c.owed)
    BY <1>1, <1>3, AtTold DEF Kept, Free
  <2>2. do \notin Polls \cup {"error"}
    BY <1>3 DEF Polls
  <2> QED  BY <2>1, <2>2 DEF Holds, Waiting
<1>4. CASE WriteData(t)
  <2>1. /\ At(t, "data") /\ Proceed(t, After(t)) /\ data' = The(Arg(t))
        /\ UNCHANGED <<i7Ready, i7Cmd, fw, lbp_lock>>
    BY <1>4 DEF WriteData
  <2> QED  BY <1>2, <1>3, <2>1
<1>5. CASE Check(t)
  <2>1. UNCHANGED <<i7Ready, i7Cmd, fw, lbp_lock, data>>
    BY <1>5 DEF Check, registers
  <2>2. CASE At(t, "require") /\ Proceed(t, IF i7Ready.ready = Arg(t) THEN After(t) ELSE Failed(t))
    <3>1. CASE Proceed(t, After(t)) /\ i7Ready.ready = Arg(t)
      <4>1. CASE Trusted(c)
        <5>1. Told(c.op, c.todo) /\ c.todo \in Seq(Steps) /\ c.todo # <<>> /\ Head(c.todo).do = "require"
          BY <1>1, <2>2, <4>1, AtTold DEF Kept
        <5>2. Arg(t) = {"READY"}
          <6>1. PICK r \in Seq(Steps) : r = c.todo
            BY <5>1
          <6>2. ToldAt(c.op, r, 1) /\ Head(r) = r[1]
            BY <5>1, <6>1, FirstTwo DEF Told
          <6> QED  BY <1>1, <5>1, <6>1, <6>2 DEF ToldAt, Arg
        <5> QED  BY <1>2, <1>3, <2>1, <2>2, <3>1, <5>2
      <4>2. CASE ~Trusted(c)
        <5>1. c.op # "reset" /\ c.todo # <<>>
          BY <1>1, <2>2, AtTold DEF Kept
        <5>2. PICK d : d = After(t)
          OBVIOUS
        <5>3. Follows(d, c) /\ Proceed(t, d)
          BY <1>1, <3>1, <5>1, <5>2, AfterFollows
        <5>4. Plainly(d) /\ Resets(d) /\ Works(d, lbp_lock = t)'
          BY <1>1, <4>2, <5>1, <5>3, Onward DEF Kept
        <5> QED  BY <5>3, <5>4, Becomes, KeptIs DEF Calls
      <4> QED  BY <4>1, <4>2
    <3>2. CASE Proceed(t, Failed(t))
      BY <2>2, <3>2, FailedKept
    <3> QED  BY <2>2, <3>1, <3>2
  <2>3. CASE At(t, "version") /\ Proceed(t, IF i7Ready.version THEN After(t) ELSE Failed(t))
    <3>1. CASE Proceed(t, After(t))
      BY <1>2, <1>3, <2>1, <2>3, <3>1
    <3>2. CASE Proceed(t, Failed(t))
      BY <2>3, <3>2, FailedKept
    <3> QED  BY <2>3, <3>1, <3>2
  <2>4. CASE At(t, "linked")
    BY <1>5, <2>4, OddSteps
  <2> QED  BY <1>5, <2>2, <2>3, <2>4 DEF Check
<1>6. CASE At(t, "state") /\ WaitState(t)
  <2>1. /\ UNCHANGED <<i7Ready, i7Cmd, fw, lbp_lock, data>> /\ i7Ready.ready \cap Arg(t) # {}
        /\ Proceed(t, IF i7Ready.ready \cap Arg(t) \cap Errors = {} THEN After(t) ELSE Failed(t))
    BY <1>6 DEF WaitState, registers, At
  <2>2. CASE i7Ready.ready \cap Arg(t) \cap Errors = {}
    <3>1. /\ Head(c.todo).do = "state" /\ lbp_lock = t
          /\ Trusted(c) /\ lbp_lock = t => Holds(c.op, c.todo, c.owed)
      BY <1>1, <1>6, AtTold DEF Kept, Free
    <3>2. Trusted(c) => Resting(c.op, c.todo, c.owed)
      BY <1>1, <2>1, <2>2, <3>1, StateReached DEF Arg
    <3> QED  BY <1>2, <1>6, <2>1, <2>2, <3>2
  <2>3. CASE Proceed(t, Failed(t))
    BY <1>6, <2>3, FailedKept
  <2> QED  BY <2>1, <2>2, <2>3
<1>7. CASE CopyImage(t)
  <2>1. /\ At(t, "copy") /\ UNCHANGED <<i7Ready, i7Cmd, fw, lbp_lock, data>>
        /\ Proceed(t, After(t)) \/ Proceed(t, Failed(t))
    BY <1>7 DEF CopyImage, registers
  <2> QED  BY <1>2, <1>3, <2>1, FailedKept
<1>8. CASE At(t, "fetch") /\ ReadData(t)
  <2>1. /\ UNCHANGED <<i7Ready, i7Cmd, fw, lbp_lock, data>>
        /\ Proceed(t, [After(t) EXCEPT !.bad = @ \/ (Noted(t) /\ data \notin Arg(t))])
    BY <1>8 DEF ReadData, registers, At
  <2>2. /\ c.todo \in Seq(Steps) /\ c.todo # <<>> /\ Head(c.todo).do = "fetch" /\ lbp_lock = t
        /\ Trusted(c) => ~c.bad /\ Told(c.op, c.todo) /\ Holds(c.op, c.todo, c.owed)
    BY <1>1, <1>8, AtTold DEF Kept, Free
  <2>3. Trusted(c) => data \in Arg(t)
    <3> SUFFICES ASSUME Trusted(c) PROVE data \in Arg(t)
      OBVIOUS
    <3>1. PICK r \in Seq(Steps) : r = c.todo
      BY <2>2
    <3>2. ToldAt(c.op, r, 1) /\ Head(r) = r[1] /\ r[1].do = "fetch" /\ Len(r) \in Nat /\ 1 \in 1..Len(r)
      BY <2>2, <3>1, FirstTwo DEF Told
    <3>3. PICK v \in Values : r[1] = Fetch(v)
      BY <3>2 DEF ToldAt
    <3>4. Ahead(r, 1, v)
      BY <3>2, <3>3 DEF Ahead
    <3>5. data = v
      <4>1. Resting(c.op, c.todo, c.owed)
        BY <1>3, <1>8
      <4> QED  BY <2>2, <3>1, <3>4, <4>1 DEF Holds, Reading, Resting
    <3> QED  BY <1>1, <3>1, <3>2, <3>3, <3>5 DEF Arg, Fetch, Step
  <2>4. PICK b \in BOOLEAN : b = (After(t).bad \/ (Noted(t) /\ data \notin Arg(t)))
    OBVIOUS
  <2>5. PICK d : d = [After(t) EXCEPT !.bad = b]
    OBVIOUS
  <2>6. After(t) \in CallType /\ (After(t).bad => c.bad) /\ (Tail(c.todo) # <<>> => After(t).owed = c.owed)
    BY <1>1, <1>8, <2>2, AtStep, AfterFollows
  <2>7. Proceed(t, d)
    BY <2>1, <2>4, <2>5, <2>6
  <2>8. Follows(d, c) /\ d.bad = b /\ d.owed = After(t).owed
    BY <1>1, <2>2, <2>5, AfterFollows
  <2>9. Trusted(c) => ~d.bad
    BY <2>2, <2>3, <2>4, <2>6, <2>8
  <2>10. Trusted(c) => Resting(c.op, c.todo, c.owed)
    BY <1>3, <1>8
  <2>11. Tail(c.todo) # <<>> => d.owed = c.owed
    BY <2>6, <2>8
  <2> QED  BY <1>1, <1>8, <2>1, <2>7, <2>8, <2>9, <2>10, <2>11, RestingGoesOn
<1> QED  BY <1>4, <1>5, <1>6, <1>7, <1>8

(* The steps of a command, and the ends of a call.                         *)
LEMMA UnlockLeft ==
    ASSUME NEW op, NEW r, NEW owed, Resting(op, r, owed)'
    PROVE  Told(op, <<Unlock>>) /\ Holds(op, <<Unlock>>, owed)'
<1>1. Len(<<Unlock>>) = 1 /\ <<Unlock>>[1] = Unlock /\ Head(<<Unlock>>) = Unlock
  OBVIOUS
<1> DEFINE s == <<Unlock>>
<1> HIDE DEF s
<1>2. /\ Len(s) = 1 /\ s[1].do = "unlock" /\ Head(s).do = "unlock" /\ \A i \in 1..Len(s) : i = 1
      /\ s \in Seq(Steps) /\ s # <<>>
  BY <1>1, RemaindersFit DEF s, Unlock, Step, GiveUp
<1>3. (\A v : ~Ahead(s, 1, v)) /\ (\A v : ~Ahead(s, 2, v)) /\ NoCmd(s) /\ \A c : Head(s) # Command(c)
  BY <1>2, NothingAhead DEF Polls, Ahead, NoCmd
<1>4. Told(op, s)
  BY <1>2, <1>3 DEF Told, ToldAt
<1>5. \A c : ~Unchecked(s, 1, c)
  BY <1>2 DEF Unchecked, Command, Step
<1>6. Resting(op, s, owed)'
  BY <1>3 DEF Resting
<1>7. Holds(op, s, owed)'
  BY <1>2, <1>3, <1>5, <1>6 DEF Holds, Waiting, Reading, Writing, Quiet, Ahead, Unchecked
<1> QED  BY <1>4, <1>7 DEF s

LEMMA CommandSteps ==
    ASSUME Calls, ConstantsFit, CacheHonest, NEW t \in Threads, Kept(t),
           WriteCmd(t) \/ WaitConsumed(t) \/ FromCache(t) \/ TestError(t)
    PROVE  Kept(t)'
<1>1. PICK c \in CallType : c = call[t]
  BY DEF Calls
<1>2. PICK r : r = c.todo
  OBVIOUS
<1>3. PICK op : op = c.op
  OBVIOUS
<1>4. ASSUME NEW do, At(t, do), do \in {"cmd", "consumed", "cached", "error"}
      PROVE  /\ r \in Seq(Steps) /\ r # <<>> /\ Head(r) \in Steps /\ Head(r).do = do
             /\ lbp_lock = t /\ op # "reset" /\ Plainly(c) /\ Resets(c)
             /\ Trusted(c) => ~c.bad /\ Told(op, r) /\ Holds(op, r, c.owed)
             /\ Arg(t) = Head(r).arg
  BY <1>1, <1>2, <1>3, <1>4, AtTold DEF Kept, Free, Arg
<1>5. CASE WriteCmd(t)
  <2>1. /\ At(t, "cmd") /\ UNCHANGED <<i7Ready, data, i7Error, fw, lbp_lock>>
        /\ i7Cmd' = IF Arg(t) = {} THEN None ELSE The(Arg(t))
    BY <1>5 DEF WriteCmd
  <2>2. PICK o : o = IF Noted(t) THEN After(t).owed \cup Arg(t) ELSE {}
    OBVIOUS
  <2>3. PICK d : d = [After(t) EXCEPT !.owed = o]
    OBVIOUS
  <2>4. After(t) \in CallType
    BY <2>1, AtStep
  <2>5. Proceed(t, d)
    BY <1>5, <2>2, <2>3, <2>4 DEF WriteCmd
  <2>6. /\ Follows(d, c) /\ d.owed = o /\ (d.bad => c.bad)
        /\ Tail(r) # <<>> => After(t).owed = c.owed
    <3>1. c.todo # <<>>
      BY <1>2, <1>4, <2>1
    <3>2. Follows(d, c) /\ d.owed = o /\ d.bad = After(t).bad
      BY <1>1, <2>3, <3>1, AfterFollows
    <3>3. (After(t).bad => c.bad) /\ (Tail(c.todo) # <<>> => After(t).owed = c.owed)
      BY <1>1, <3>1, AfterFollows
    <3> QED  BY <1>2, <3>2, <3>3
  <2>7. ASSUME Trusted(c), Tail(r) # <<>>
        PROVE  Told(op, Tail(r)) /\ Holds(op, Tail(r), d.owed)'
    <3>1. Noted(t)
      BY <1>1, <2>7 DEF Trusted, Noted, Believed
    <3>2. /\ r \in Seq(Steps) /\ r # <<>> /\ Head(r) \in Steps /\ Head(r).do = "cmd"
          /\ Told(op, r) /\ Holds(op, r, c.owed) /\ Arg(t) = Head(r).arg
      BY <1>4, <2>1, <2>7
    <3>3. PICK x : Head(r).arg = {x}
      <4>1. ToldAt(op, r, 1) /\ Head(r) = r[1]
        BY <3>2, FirstTwo DEF Told
      <4> QED  BY <3>2, <4>1 DEF ToldAt, WaitedFor
    <3>4. Head(r) = Command(x)
      BY <3>2, <3>3 DEF Steps, Command, Step
    <3>5. i7Cmd' = x
      BY <2>1, <3>2, <3>3, TheOnly
    <3>6. d.owed = c.owed \cup {x}
      BY <2>2, <2>6, <2>7, <3>1, <3>2, <3>3
    <3>7. Told(op, Tail(r)) /\ Holds(op, Tail(r), c.owed \cup {x})'
      BY <2>1, <3>2, <3>4, <3>5, Commanded
    <3> QED  BY <3>6, <3>7
  <2>8. /\ c.todo # <<>> /\ Plainly(c) /\ Resets(c) /\ c.op # "reset" /\ lbp_lock' = t
        /\ Trusted(c) => ~d.bad
    BY <1>2, <1>3, <1>4, <2>1, <2>6
  <2>9. Plainly(d) /\ Resets(d) /\ Works(d, lbp_lock = t)'
    BY <1>2, <1>3, <2>6, <2>7, <2>8, Onward
  <2> QED  BY <2>5, <2>9, Becomes, KeptIs DEF Calls
<1>6. CASE WaitConsumed(t)
  <2>1. /\ At(t, "consumed") /\ i7Cmd = None /\ Proceed(t, After(t))
        /\ UNCHANGED <<i7Ready, i7Cmd, data, i7Error, fw, lbp_lock>>
    BY <1>6 DEF WaitConsumed, registers
  <2>2. PICK d : d = After(t)
    OBVIOUS
  <2>3. /\ Follows(d, c) /\ (d.bad => c.bad) /\ (Tail(r) # <<>> => d.owed = c.owed)
    <3>1. c.todo # <<>>
      BY <1>2, <1>4, <2>1
    <3> QED  BY <1>1, <1>2, <2>2, <3>1, AfterFollows
  <2>4. ASSUME Trusted(c), Tail(r) # <<>>
        PROVE  Told(op, Tail(r)) /\ Holds(op, Tail(r), c.owed)'
    BY <1>4, <2>1, <2>4, ConsumedGoesOn
  <2>5. /\ c.todo # <<>> /\ Plainly(c) /\ Resets(c) /\ c.op # "reset" /\ lbp_lock' = t
        /\ Trusted(c) => ~d.bad
    BY <1>2, <1>3, <1>4, <2>1, <2>3
  <2>6. Plainly(d) /\ Resets(d) /\ Works(d, lbp_lock = t)'
    BY <1>2, <1>3, <2>3, <2>4, <2>5, Onward
  <2> QED  BY <2>1, <2>2, <2>6, Becomes, KeptIs DEF Calls
<1>7. ASSUME NEW do, At(t, do), do \in {"cached", "error"}, Proceed(t, After(t)),
             Trusted(c) => Resting(op, r, c.owed),
             UNCHANGED <<registers, fw, lbp_lock>>
      PROVE  Kept(t)'
  <2>1. c.todo # <<>> /\ (Trusted(c) => ~c.bad)
    BY <1>2, <1>4, <1>7
  <2>2. PICK d : d = After(t)
    OBVIOUS
  <2>3. /\ Follows(d, c) /\ (d.bad => c.bad) /\ (Tail(c.todo) # <<>> => d.owed = c.owed)
    BY <1>1, <2>1, <2>2, AfterFollows
  <2>4. /\ Proceed(t, d) /\ i7Ready' = i7Ready /\ i7Cmd' = i7Cmd /\ fw' = fw /\ lbp_lock' = lbp_lock
        /\ data' = IF do = "data" THEN The(Arg(t)) ELSE data
        /\ Trusted(c) => Resting(c.op, c.todo, c.owed)
        /\ Trusted(c) /\ d.alone => ~d.bad
    BY <1>2, <1>3, <1>7, <2>1, <2>2, <2>3 DEF registers
  <2> QED  BY <1>1, <1>7, <2>3, <2>4, RestingGoesOn
<1>8. CASE FromCache(t)
  <2>1. At(t, "cached") /\ UNCHANGED <<registers, fw, lbp_lock>>
    BY <1>8 DEF FromCache
  <2>2. Trusted(c) => Resting(op, r, c.owed)
    <3>1. "cached" \notin Polls \cup {"error"}
      BY DEF Polls
    <3> QED  BY <1>4, <2>1, <3>1 DEF Holds, Waiting
  <2>3. PICK p \in Cached : Arg(t) = {p}
    BY <1>4, <2>1 DEF Steps, Fits
  <2>4. \/ Proceed(t, After(t)) \/ Proceed(t, Failed(t))
        \/ /\ Proceed(t, [call[t] EXCEPT !.todo = <<Unlock>>, !.bad = bios_information[p] # p])
           /\ bios_information[p] # None
    BY <1>8, <2>3, TheOnly DEF FromCache
  <2>5. CASE Proceed(t, After(t))
    BY <1>7, <2>1, <2>2, <2>5
  <2>6. CASE Proceed(t, Failed(t))
    BY <2>1, <2>6, FailedKept
  <2>7. CASE /\ Proceed(t, [call[t] EXCEPT !.todo = <<Unlock>>, !.bad = bios_information[p] # p])
             /\ bios_information[p] # None
    <3>1. PICK b \in BOOLEAN : b = (bios_information[p] # p)
      OBVIOUS
    <3>2. b = FALSE
      BY <2>7, <3>1 DEF CacheHonest
    <3>3. PICK d : d = [c EXCEPT !.todo = <<Unlock>>, !.bad = b]
      OBVIOUS
    <3>4. Proceed(t, d)
      BY <1>1, <2>7, <3>1, <3>3
    <3>5. /\ d.op = op /\ d.todo = <<Unlock>> /\ d.bad = FALSE /\ d.owed = c.owed
          /\ d.linked = c.linked /\ d.ok = c.ok /\ d.alone = c.alone
      BY <1>3, <3>2, <3>3 DEF CallType
    <3>6. \A i \in 1..Len(<<Unlock>>) : <<Unlock>>[i].do # "linked"
      BY DEF Unlock, Step
    <3>7. op # "reset" /\ Plainly(c) /\ lbp_lock = t
      BY <1>4, <2>1
    <3>8. Plainly(d) /\ Resets(d)
      BY <1>3, <3>5, <3>6, <3>7 DEF Plainly, Resets
    <3>9. Trusted(d) => Told(op, <<Unlock>>) /\ Holds(op, <<Unlock>>, c.owed)'
      <4>1. Trusted(d) => Trusted(c)
        BY <1>3, <3>5 DEF Trusted
      <4>2. Resting(op, r, c.owed) => Resting(op, r, c.owed)'
        BY <2>1 DEF Resting, Behind, registers
      <4>3. Resting(op, r, c.owed)' => Told(op, <<Unlock>>) /\ Holds(op, <<Unlock>>, c.owed)'
        BY UnlockLeft
      <4> QED  BY <2>2, <4>1, <4>2, <4>3
    <3>10. Works(d, lbp_lock = t)'
      BY <2>1, <3>5, <3>7, <3>9 DEF Works
    <3> QED  BY <3>4, <3>8, <3>10, Becomes, KeptIs DEF Calls
  <2> QED  BY <2>4, <2>5, <2>6, <2>7
<1>9. CASE TestError(t)
  <2>1. At(t, "error") /\ UNCHANGED <<registers, fw, lbp_lock>>
    BY <1>9 DEF TestError
  <2>2. CASE ~i7Error
    <3>1. Trusted(c) => Resting(op, r, c.owed)
      BY <1>4, <2>1, <2>2 DEF Holds, Waiting, Refused
    <3>2. Proceed(t, After(t))
      BY <1>9, <2>2 DEF TestError
    <3> QED  BY <1>7, <2>1, <3>1, <3>2
  <2>3. CASE i7Error
    <3>1. PICK d : d = [c EXCEPT !.todo = ClearError, !.ok = FALSE, !.owed = {}]
      OBVIOUS
    <3>2. Proceed(t, d)
      BY <1>1, <1>9, <2>3, <3>1 DEF TestError
    <3>3. d.op = op /\ d.todo = ClearError /\ d.ok = FALSE /\ d.linked = c.linked
      BY <1>3, <3>1 DEF CallType
    <3>4. \A i \in 1..Len(ClearError) : ClearError[i].do # "linked"
      <4>1. /\ Len(ClearError) = 5 /\ ClearError[1].do = "no_error" /\ ClearError[2].do = "state"
            /\ ClearError[3].do = "cmd" /\ ClearError[4].do = "consumed" /\ ClearError[5].do = "unlock"
        BY DEF ClearError, State, Command, Consumed, Unlock, Step
      <4> QED  BY <4>1
    <3>5. Plainly(d) /\ Resets(d) /\ ~Trusted(d)
      BY <1>3, <1>4, <2>1, <3>3, <3>4 DEF Plainly, Resets, Trusted
    <3> QED  BY <3>2, <3>5, Becomes, KeptIs DEF Calls, Works
  <2> QED  BY <2>2, <2>3
<1> QED  BY <1>5, <1>6, <1>8, <1>9

LEMMA EndSteps ==
    ASSUME Calls, ConstantsFit, NEW t \in Threads, Kept(t),
           TakeLock(t) \/ LeaveLock(t) \/ \E op \in Ops[t] : Call(t, op)
    PROVE  Kept(t)'
<1>1. PICK c \in CallType : c = call[t]
  BY DEF Calls
<1>2. PICK r : r = c.todo
  OBVIOUS
<1>3. PICK op : op = c.op
  OBVIOUS
<1>4. CASE TakeLock(t)
  <2>1. /\ At(t, "lock") /\ lbp_lock = None /\ lbp_lock' = t /\ UNCHANGED <<registers, fw>>
        /\ Proceed(t, [After(t) EXCEPT !.alone = @ /\ CardIdle])
    BY <1>4 DEF TakeLock
  <2>2. PICK b \in BOOLEAN : b = CardIdle
    BY DEF CardIdle
  <2>3. PICK d : d = [After(t) EXCEPT !.alone = @ /\ b]
    OBVIOUS
  <2>4. Proceed(t, d)
    BY <2>1, <2>2, <2>3
  <2>5. /\ r \in Seq(Steps) /\ r # <<>> /\ Head(r).do = "lock" /\ Plainly(c) /\ Resets(c)
        /\ Trusted(c) => ~c.bad /\ Told(op, r) /\ c.owed = {}
        /\ op = "reset" => c.owed = {} /\ ~c.bad
    <3>1. lbp_lock # t
      BY <2>1 DEF ConstantsFit
    <3> QED  BY <1>1, <1>2, <1>3, <2>1, <3>1, AtTold DEF Kept
  <2>6. /\ Follows(d, c) /\ d.owed \in {c.owed, {}} /\ (d.bad => c.bad) /\ (d.alone => b)
        /\ Tail(r) # <<>> => d.owed = c.owed
    <3>1. c.todo # <<>>
      BY <1>2, <2>5
    <3>2. Follows(d, c) /\ d.owed = After(t).owed /\ d.bad = After(t).bad /\ (d.alone => b)
      BY <1>1, <2>3, <3>1, AfterFollows
    <3>3. /\ (After(t).bad => c.bad) /\ After(t).owed \in {c.owed, {}}
          /\ (Tail(c.todo) # <<>> => After(t).owed = c.owed)
      BY <1>1, <3>1, AfterFollows
    <3> QED  BY <1>2, <3>2, <3>3
  <2>7. ASSUME Trusted(c), d.alone, Tail(r) # <<>>
        PROVE  Told(op, Tail(r)) /\ Holds(op, Tail(r), c.owed)'
    <3>1. CardIdle
      BY <2>2, <2>6, <2>7
    <3>2. Resting(op, r, c.owed)
      BY <2>5, <2>7, <3>1 DEF CardIdle, Resting, Home
    <3>3. /\ i7Ready' = i7Ready /\ i7Cmd' = i7Cmd /\ fw' = fw
          /\ data' = IF Head(r).do = "data" THEN The(Head(r).arg) ELSE data
      BY <2>1, <2>5 DEF registers
    <3>4. Told(op, r) /\ Head(r).do # "cmd" /\ Head(r).do # "require"
      BY <2>5, <2>7
    <3> QED  BY <2>5, <2>7, <3>2, <3>3, <3>4, GoesOn
  <2>8. c.todo # <<>> /\ (Trusted(c) => ~d.bad) /\ (c.op = "reset" => d.owed = {} /\ ~d.bad)
    BY <1>2, <1>3, <2>5, <2>6
  <2>9. Plainly(d) /\ Resets(d) /\ Works(d, lbp_lock = t)'
    BY <1>2, <1>3, <2>1, <2>5, <2>6, <2>7, <2>8, Onward
  <2> QED  BY <2>4, <2>9, Becomes, KeptIs DEF Calls
<1>5. CASE LeaveLock(t)
  <2>1. /\ At(t, "unlock") /\ lbp_lock' = None /\ Proceed(t, After(t)) /\ t # None
    BY <1>5 DEF LeaveLock, ConstantsFit
  <2>2. PICK d : d = After(t)
    OBVIOUS
  <2>3. /\ r \in Seq(Steps) /\ r # <<>> /\ Head(r).do = "unlock" /\ Plainly(c) /\ Resets(c)
        /\ Trusted(c) => ~c.bad /\ Told(op, r) /\ Holds(op, r, c.owed)
        /\ op = "reset" => c.owed = {} /\ ~c.bad
    BY <1>1, <1>2, <1>3, <2>1, AtTold DEF Kept, Free
  <2>4. Trusted(c) => c.owed = {}
    <3>1. "unlock" \notin Polls \cup {"error"}
      BY DEF Polls
    <3> QED  BY <2>3, <3>1 DEF Holds, Waiting, Resting
  <2>5. Follows(d, c) /\ d.owed \in {c.owed, {}} /\ (d.bad => c.bad)
    <3>1. c.todo # <<>>
      BY <1>2, <2>3
    <3> QED  BY <1>1, <2>2, <3>1, AfterFollows
  <2>6. Trusted(c) => Told(op, Tail(r))
    BY <2>3, ToldRest
  <2>7. /\ c.todo # <<>> /\ (Trusted(c) => ~d.bad /\ d.owed = {})
        /\ c.op = "reset" => d.owed = {} /\ ~d.bad
    BY <1>2, <1>3, <2>3, <2>4, <2>5
  <2>8. Plainly(d) /\ Resets(d) /\ Works(d, lbp_lock = t)'
    BY <1>2, <1>3, <2>1, <2>3, <2>5, <2>6, <2>7, Onward
  <2> QED  BY <2>1, <2>2, <2>8, Becomes, KeptIs DEF Calls
<1>6. ASSUME NEW o \in Ops[t], Call(t, o)
      PROVE  Kept(t)'
  <2>1. /\ call[t].op = None /\ lbp_lock' = lbp_lock /\ o \in Operations
        /\ Proceed(t, [Idle EXCEPT !.op = o, !.todo = Script(o)])
    BY <1>6 DEF Call, ConstantsFit
  <2>2. PICK d : d = [Idle EXCEPT !.op = o, !.todo = Script(o)]
    OBVIOUS
  <2>3. /\ d.op = o /\ d.todo = Script(o) /\ d.linked = FALSE /\ d.owed = {} /\ d.bad = FALSE
    BY <2>2 DEF Idle
  <2>4. lbp_lock' # t
    <3>1. Good(call[t], t, lbp_lock = t) /\ call[t].todo = <<>>
      BY <2>1 DEF Calls, Good
    <3> QED  BY <2>1, <3>1 DEF Good, Going, Inside
  <2>5. Trusted(d) => Told(o, Script(o))
    BY <2>3, ScriptsTold DEF Trusted
  <2>6. o \in Believed => \A i \in 1..Len(Script(o)) : Script(o)[i].do # "linked"
    BY ScriptsTold DEF Told, ToldAt
  <2>7. \A i \in 1..Len(CardReset) : CardReset[i].do \in {"lock", "pulse", "down", "unlock"}
    <3>1. /\ Len(CardReset) = 4 /\ CardReset[1].do = "lock" /\ CardReset[2].do = "pulse"
          /\ CardReset[3].do = "down" /\ CardReset[4].do = "unlock"
      BY DEF CardReset, Lock, Unlock, Step
    <3> QED  BY <3>1
  <2>8. o = "reset" => Script(o) = CardReset
    BY DEF Script
  <2>9. Plainly(d) /\ Resets(d) /\ Works(d, lbp_lock = t)'
    BY <2>3, <2>4, <2>5, <2>6, <2>7, <2>8 DEF Plainly, Resets, Works
  <2> QED  BY <2>1, <2>2, <2>9, Becomes, KeptIs DEF Calls
<1> QED  BY <1>4, <1>5, <1>6

(* A step that neither the call nor its registers see.                     *)
LEMMA HoldsUnseen ==
    ASSUME NEW op, NEW s, NEW owed, Holds(op, s, owed), UNCHANGED <<i7Ready, i7Cmd, data, i7Error, fw>>
    PROVE  Holds(op, s, owed)'
<1>1. Resting(op, s, owed) => Resting(op, s, owed)'
  BY DEF Resting, Behind
<1>2. Refused => Refused'
  BY DEF Refused, Behind
<1>3. \A c : Serving(c, op, s, owed) => Serving(c, op, s, owed)'
  <2> SUFFICES ASSUME NEW c, Serving(c, op, s, owed) PROVE Serving(c, op, s, owed)'
    OBVIOUS
  <2>1. Stage(c, owed) => Stage(c, owed)'
    BY DEF Stage, Outcome, Behind
  <2> QED  BY <2>1 DEF Serving, OnlyLast, NoCmd
<1>4. Waiting(op, s, owed)'
  BY <1>1, <1>2, <1>3 DEF Holds, Waiting
<1>5. Reading(s, owed)' /\ Writing(s)'
  BY DEF Holds, Reading, Writing, Ahead
<1>6. Quiet(s)'
  BY DEF Holds, Quiet, Unchecked
<1> QED  BY <1>4, <1>5, <1>6 DEF Holds

LEMMA KeptUnseen ==
    ASSUME NEW t \in Threads, Kept(t), call'[t] = call[t], (lbp_lock' = t) = (lbp_lock = t),
           lbp_lock = t => UNCHANGED <<i7Ready, i7Cmd, data, i7Error, fw>>
    PROVE  Kept(t)'
<1>1. PICK c : c = call[t]
  OBVIOUS
<1>2. PICK s : s = c.todo
  OBVIOUS
<1>3. PICK op : op = c.op
  OBVIOUS
<1>4. PICK owed : owed = c.owed
  OBVIOUS
<1>5. lbp_lock = t /\ Holds(op, s, owed) => Holds(op, s, owed)'
  BY HoldsUnseen
<1>6. Plainly(c) /\ Resets(c) /\ Works(c, lbp_lock = t)
  BY <1>1 DEF Kept
<1>7. Works(c, lbp_lock = t)'
  BY <1>2, <1>3, <1>4, <1>5, <1>6 DEF Works
<1> QED  BY <1>1, <1>6, <1>7, KeptIs

(* Steps of another caller do not touch what the holder relies on.         *)
LEMMA OthersLeave ==
    ASSUME Calls, ConstantsFit, NEW t \in Threads, NEW u \in Threads, u # t, Kept(t),
           HostStep(u) \/ TakeLock(u) \/ TimedOut(u) \/ \E op \in Ops[u] : Call(u, op)
    PROVE  Kept(t)'
<1>1. call' = [call EXCEPT ![u] = call'[u]] /\ call'[t] = call[t]
  <2>1. \E d : Proceed(u, d)
    BY DEF HostStep, LeaveLock, Forget, WriteCmd, WriteData, WriteE5, Reinit, Check, FromCache, WaitIrq,
           WaitConsumed, WaitState, ReadData, Keep, CopyImage, TestError, NoError, Pulse, ResetStop,
           TakeLock, TimedOut, Call
  <2> QED  BY <2>1 DEF Proceed, Calls
<1>2. CASE lbp_lock = t
  <2>1. \A do : At(u, do) => do \in {"lock", "forget", "e5"}
    BY <1>2, AtStep DEF Free
  <2>2. ~TakeLock(u) /\ t # None
    BY <1>2 DEF TakeLock, ConstantsFit
  <2>3. /\ ~LeaveLock(u) /\ ~WriteCmd(u) /\ ~WriteData(u) /\ ~Reinit(u) /\ ~Check(u) /\ ~FromCache(u)
        /\ ~WaitIrq(u) /\ ~WaitConsumed(u) /\ ~WaitState(u) /\ ~ReadData(u)
    BY <2>1 DEF LeaveLock, WriteCmd, WriteData, Reinit, Check, FromCache, WaitIrq, WaitConsumed,
                WaitState, ReadData
  <2>4. /\ ~Keep(u) /\ ~CopyImage(u) /\ ~TestError(u) /\ ~NoError(u) /\ ~Pulse(u) /\ ~ResetStop(u)
        /\ ~TimedOut(u)
    BY <2>1 DEF Keep, CopyImage, TestError, NoError, Pulse, ResetStop, TimedOut
  <2>5. UNCHANGED <<i7Ready, i7Cmd, data, i7Error, fw, lbp_lock>>
    BY <2>2, <2>3, <2>4 DEF HostStep, Forget, WriteE5, Call, registers
  <2> QED  BY <1>1, <1>2, <2>5, KeptUnseen
<1>3. CASE lbp_lock # t
  <2>1. lbp_lock' \in {lbp_lock, u, None}
    BY DEF HostStep, LeaveLock, Forget, WriteCmd, WriteData, WriteE5, Reinit, Check, FromCache, WaitIrq,
           WaitConsumed, WaitState, ReadData, Keep, CopyImage, TestError, NoError, Pulse, ResetStop,
           TakeLock, TimedOut, Call
  <2>2. lbp_lock' # t
    BY <1>3, <2>1 DEF ConstantsFit
  <2> QED  BY <1>1, <1>3, <2>2, KeptUnseen
<1> QED  BY <1>2, <1>3

(* Neither does the card, but as it was commanded.                         *)
LEMMA CardKeeps ==
    ASSUME Registers, Calls, ConstantsFit, NEW t \in Threads, Kept(t), OtherStep
    PROVE  Kept(t)'
<1>1. PICK c \in CallType : c = call[t]
  BY DEF Calls
<1>2. PICK s : s = c.todo
  OBVIOUS
<1>3. PICK op : op = c.op
  OBVIOUS
<1>4. lbp_lock' = lbp_lock
  BY OtherSteps
<1>5. PICK d : d = call'[t]
  OBVIOUS
<1>6. /\ d.op = op /\ d.todo = s /\ d.ok = c.ok /\ d.alone = c.alone /\ d.bad = c.bad /\ d.linked = c.linked
      /\ d.owed \subseteq c.owed /\ (lbp_lock # t => d = c)
  <2>1. CASE call' = call
    BY <1>1, <1>2, <1>3, <1>5, <2>1
  <2>2. CASE call' # call
    <3>1. FwRun
      BY <2>2 DEF OtherStep, FwStep, FwTake, FwRun, FwConsume, FwState, FwFlashed, FwBoot, FwRing, FwLink,
                  OsState, OsReboot, Interrupt, PowerFlag, host
    <3>2. call' = [u \in Threads |->
                IF u = lbp_lock /\ data = Input(fw.job)
                THEN [call[u] EXCEPT !.owed = @ \ {fw.job}] ELSE call[u]]
      BY <2>2, <3>1 DEF FwRun
    <3>3. d = c \/ (d = [c EXCEPT !.owed = @ \ {fw.job}] /\ lbp_lock = t)
      BY <1>1, <1>5, <3>2
    <3> QED  BY <1>2, <1>3, <3>3 DEF CallType
  <2> QED  BY <2>1, <2>2
<1>7. ASSUME lbp_lock = t, Holds(op, s, c.owed)
      PROVE  Holds(op, s, d.owed)'
  <2>1. CASE FwRun
    <3>1. Holds(op, s, call[t].owed)
      BY <1>1, <1>7
    <3>2. Holds(op, s, call[t].owed)'
      BY <1>7, <2>1, <3>1, HoldsRun DEF Calls
    <3> QED  BY <1>5, <3>2
  <2>2. CASE ~FwRun
    <3>1. Outer /\ call' = call
      BY <2>2 DEF OtherStep, Outer, FwStep, FwTake, FwConsume, FwState, FwFlashed, FwBoot, FwRing, FwLink,
                  OsState, OsReboot, Interrupt, PowerFlag, host
    <3>2. Holds(op, s, c.owed)'
      BY <1>1, <1>3, <1>7, <3>1, HoldsKept
    <3>3. d.owed = c.owed
      BY <1>1, <1>5, <3>1
    <3> QED  BY <3>2, <3>3
  <2> QED  BY <2>1, <2>2
<1>8. Plainly(d) /\ Resets(d) /\ (Trusted(d) = Trusted(c))
  BY <1>1, <1>2, <1>3, <1>6 DEF Kept, Plainly, Resets, Trusted
<1>9. Works(c, lbp_lock = t)
  BY <1>1 DEF Kept
<1>10. Works(d, lbp_lock = t)'
  BY <1>2, <1>3, <1>4, <1>6, <1>7, <1>8, <1>9 DEF Works
<1> QED  BY <1>5, <1>8, <1>10, KeptIs

LEMMA KeptStep ==
    ASSUME LbpInv, ConstantsFit, NEW t \in Threads, Kept(t), [Next]_vars
    PROVE  Kept(t)'
<1>1. Registers /\ Calls /\ CacheHonest
  BY DEF LbpInv
<1>2. ASSUME HostStep(t) \/ TakeLock(t) \/ TimedOut(t) \/ \E op \in Ops[t] : Call(t, op)
      PROVE  Kept(t)'
  <2>1. ASSUME WaitState(t) \/ ReadData(t)
        PROVE  Kept(t)'
    BY <1>1, <2>1, EasySteps, OddSteps DEF WaitState, ReadData
  <2> QED  BY <1>1, <1>2, <2>1, EasySteps, OddSteps, CommandSteps, EndSteps DEF HostStep
<1>3. ASSUME UNCHANGED vars
      PROVE  Kept(t)'
  BY <1>3, KeptUnseen DEF vars, registers
<1> QED  BY <1>1, <1>2, <1>3, OthersLeave, CardKeeps DEF Next, OtherStep

(* DoneAsTold: a call that found the card idle and returns LBP_STATE_OK    *)
(* had each of its commands done, with the data it wrote, and read the     *)
(* values it asked for, whatever failed, timed out, or was done by the     *)
(* power button and by other callers meanwhile.                            *)
THEOREM CallsDoAsTold == Spec => []DoneAsTold
<1> DEFINE Inv == \A t \in Threads : Kept(t)
<1>1. Init => Inv
  BY LbpAssumption, IdleWorks DEF Init, Kept, Works
<1>2. Inv /\ LbpInv /\ [Next]_vars => Inv'
  BY LbpAssumption, KeptStep
<1>3. Inv /\ LbpInv => DoneAsTold
  <2> SUFFICES ASSUME Inv, LbpInv, NEW t \in Threads, At(t, "unlock"), call[t].ok, call[t].alone,
                      call[t].op \notin {"handshake", "boot_from_usb", "get_rcvy_state"}
               PROVE  call[t].owed = {} /\ ~call[t].bad
    BY DEF DoneAsTold
  <2>1. Calls /\ ConstantsFit /\ Kept(t)
    BY LbpAssumption DEF LbpInv
  <2>2. PICK c \in CallType : c = call[t]
    BY <2>1 DEF Calls
  <2>3. c.op \in Operations
    <3>1. c.todo # <<>> /\ Good(c, t, lbp_lock = t)
      BY <2>1, <2>2, AtStep
    <3> QED  BY <2>1, <3>1 DEF Good, ConstantsFit
  <2>4. CASE c.op = "reset"
    BY <2>1, <2>2, <2>4 DEF Kept, Resets
  <2>5. CASE c.op # "reset"
    <3>1. Trusted(c)
      BY <2>2, <2>3, <2>5 DEF Trusted, Believed
    <3>2. Holds(c.op, c.todo, c.owed) /\ ~c.bad /\ Head(c.todo).do = "unlock"
      BY <2>1, <2>2, <3>1, AtTold DEF Kept, Free
    <3> QED  BY <2>2, <3>2 DEF Holds, Waiting, Resting, Polls
  <2> QED  BY <2>4, <2>5
<1>4. Inv /\ []LbpInv /\ [][Next]_vars => []Inv
  BY <1>2, PTL
<1> QED  BY <1>1, <1>3, <1>4, LbpInvariant, PTL DEF Spec

-----------------------------------------------------------------------------
(* The agent, with variables of its own.  The hypothesis on its constants  *)
(* is the one that Agent assumes of them.                                  *)

CONSTANTS Cmds, Reboots, MaxCalls, Garbage

VARIABLES h2c_csa_mem_db, csa_command, csa_finished, csa_mem, host_mutex, agent_call,
          agent_doorbell, csa_requests, last_serviced_request, agent, up, calls, agent_faults

Agent == INSTANCE Agent WITH call <- agent_call, doorbell <- agent_doorbell,
                             faults <- agent_faults

(* The answer in csa_mem is the one to the command of t, or was lost. *)
OwnAnswer(t) == csa_mem = agent_call[t].req \/ (csa_mem = None /\ agent_faults > 0)

(* Nothing is rung, counted or under way on the card. *)
Settled == ~agent_doorbell /\ csa_requests = last_serviced_request /\ agent.pc \in {"wait", "halt"}

(* Before t rings: the card that owed nothing is still given nothing. *)
BeforeRing(t) ==
    /\ ~agent_doorbell /\ csa_requests = last_serviced_request
    /\ agent.pc = "wait" /\ ~csa_finished
    /\ Agent!At(t, "ring") => csa_command = agent_call[t].req \/ csa_command = None

(* After it has rung once: the one request is at one place of its way, and *)
(* csa_finished is set at its end.                                         *)
AnswerDue(t) ==
    /\ csa_command = agent_call[t].req \/ csa_command = None
    /\ agent_doorbell => csa_requests = last_serviced_request /\ agent.pc = "wait" /\ ~csa_finished
    /\ agent.pc = "wait" /\ csa_requests # last_serviced_request => ~csa_finished
    /\ agent.pc \in {"fetch", "mark", "run", "fill", "finish"} => ~csa_finished
    /\ agent.pc = "mark" => agent.req \in {agent_call[t].req, None}
    /\ agent.pc \in {"run", "fill", "finish"} => agent.req = agent_call[t].req
    /\ agent.pc \in {"run", "fill", "finish", "halt"} => csa_requests = last_serviced_request
    /\ agent.pc = "fill" => csa_mem = None
    /\ agent.pc = "finish" => OwnAnswer(t)
    /\ csa_finished => OwnAnswer(t)

(* The caller that found the card idle, at each point of its call. *)
Alone(t) ==
    /\ Agent!At(t, "command") \/ Agent!At(t, "ring") => BeforeRing(t)
    /\ Agent!At(t, "wait") => AnswerDue(t)
    /\ Agent!At(t, "map") \/ Agent!At(t, "copy") \/ Agent!At(t, "ack") => Settled
    /\ Agent!At(t, "map") \/ Agent!At(t, "copy") => OwnAnswer(t)
    /\ Agent!At(t, "copy") \/ Agent!At(t, "ack") => agent_call[t].seen = agent_call[t].req
         \/ (agent_call[t].seen \in {None, Garbage} /\ agent_faults > 0)

AgentInv == Agent!ConstantsFit /\ Agent!TypeOK /\ \A t \in Threads : agent_call[t].alone => Alone(t)
-----------------------------------------------------------------------------
AgentCall == [pc : {"idle", "lock", "clear", "command", "ring", "wait", "map", "copy", "ack"},
             req : Agent!Requests \cup {None}, seen : Agent!Requests \cup {None, Garbage},
             alone : BOOLEAN]

LEMMA AgentInitType == Agent!ConstantsFit /\ Agent!Init => Agent!TypeOK
<1> SUFFICES ASSUME Agent!ConstantsFit, Agent!Init PROVE Agent!TypeOK
  OBVIOUS
<1>1. 0 \in 0..MaxCalls /\ 0 \in 0..MaxFaults
  BY DEF Agent!ConstantsFit
<1>2. Agent!Idle \in AgentCall
  BY DEF Agent!Idle, AgentCall
<1>3. agent_call \in [Threads -> AgentCall] /\ \A t \in Threads : agent_call[t].pc = "idle"
  BY <1>2 DEF Agent!Init, Agent!Idle
<1> QED
  BY <1>1, <1>3 DEF Agent!Init, Agent!TypeOK, Agent!Asleep, AgentCall

(* Types, and the mutex: one caller at a time is inside. *)
LEMMA AgentTypeStep == Agent!ConstantsFit /\ Agent!TypeOK /\ [Agent!Next]_(Agent!vars) => Agent!TypeOK'
<1> SUFFICES ASSUME Agent!ConstantsFit, Agent!TypeOK, [Agent!Next]_(Agent!vars) PROVE Agent!TypeOK'
  OBVIOUS
<1> USE DEF Agent!ConstantsFit, Agent!TypeOK
<1>1. ASSUME NEW t \in Threads, NEW c \in Cmds, Agent!AgentCommand(t, c) PROVE Agent!TypeOK'
  <2>1. [cmd |-> c, n |-> calls + 1] \in Agent!Requests /\ calls' \in 0..MaxCalls
    BY <1>1 DEF Agent!AgentCommand, Agent!Requests
  <2>2. agent_call' \in [Threads -> AgentCall]
    <3>1. agent_call[t] \in AgentCall
      BY DEF AgentCall
    <3>2. [agent_call[t] EXCEPT !.pc = "lock", !.req = [cmd |-> c, n |-> calls + 1]] \in AgentCall
      BY <2>1, <3>1 DEF AgentCall
    <3>3. agent_call' = [agent_call EXCEPT ![t] = [agent_call[t] EXCEPT !.pc = "lock", !.req = [cmd |-> c, n |-> calls + 1]]]
      BY <1>1 DEF Agent!AgentCommand
    <3> QED
      BY <3>2, <3>3 DEF AgentCall
  <2>3. \A u \in Threads : u # t => agent_call'[u] = agent_call[u]
    BY <1>1 DEF Agent!AgentCommand
  <2>4. agent_call'[t].pc = "lock"
    BY <1>1 DEF Agent!AgentCommand
  <2> QED
    BY <1>1, <2>1, <2>2, <2>3, <2>4 DEF Agent!AgentCommand, Agent!boot_params, Agent!csa, AgentCall
<1>2. ASSUME NEW t \in Threads, Agent!HostStep(t) PROVE Agent!TypeOK'
  <2> USE DEF Agent!At, Agent!Goto, Agent!boot_params, Agent!csa
  <2>1. CASE Agent!Lock(t)
    BY <2>1 DEF Agent!Lock
  <2>2. CASE Agent!Clear(t)
    <3>1. Agent!CardIdle \in BOOLEAN
      BY DEF Agent!CardIdle
    <3>2. agent_call' \in [Threads -> AgentCall]
      <4>1. agent_call[t] \in AgentCall
        BY DEF AgentCall
      <4>2. [agent_call[t] EXCEPT !.pc = "command", !.alone = Agent!CardIdle] \in AgentCall
        BY <3>1, <4>1 DEF AgentCall
      <4>3. agent_call' = [agent_call EXCEPT ![t] = [agent_call[t] EXCEPT !.pc = "command", !.alone = Agent!CardIdle]]
        BY <2>2 DEF Agent!Clear
      <4> QED
        BY <4>2, <4>3 DEF AgentCall
    <3>3. agent_call'[t].pc = "command" /\ \A u \in Threads : u # t => agent_call'[u] = agent_call[u]
      BY <2>2 DEF Agent!Clear
    <3>4. UNCHANGED <<h2c_csa_mem_db, csa_command, csa_mem, host_mutex, agent_doorbell, csa_requests,
                      last_serviced_request, agent, up, calls, agent_faults>> /\ csa_finished' = FALSE
      BY <2>2 DEF Agent!Clear
    <3>5. \A u \in Threads :
            agent_call'[u].pc \in {"clear", "command", "ring", "wait", "map", "copy", "ack"} => host_mutex' = u
      BY <2>2, <3>3, <3>4 DEF Agent!Clear
    <3>7. \A u \in Threads : agent_call'[u].req = None => agent_call'[u].pc = "idle"
      <4>1. agent_call'[t].req = agent_call[t].req /\ agent_call[t].req # None
        BY <2>2 DEF Agent!Clear
      <4> QED
        BY <3>3, <4>1
    <3> QED
      BY <3>2, <3>4, <3>5, <3>7 DEF AgentCall
  <2>3. CASE Agent!Command(t)
    BY <2>3 DEF Agent!Command
  <2>4. CASE Agent!Ring(t)
    BY <2>4 DEF Agent!Ring
  <2>5. CASE Agent!Seen(t)
    BY <2>5 DEF Agent!Seen
  <2>6. CASE Agent!MapMem(t)
    <3>1. PICK v \in Agent!Requests \cup {None, Garbage} :
            /\ agent_call' = [agent_call EXCEPT ![t].pc = "copy", ![t].seen = v]
            /\ agent_faults' \in {agent_faults, agent_faults + 1} /\ agent_faults' <= MaxFaults
      BY <2>6 DEF Agent!MapMem, Agent!Fault
    <3>2. agent_call' \in [Threads -> AgentCall]
      <4>1. agent_call[t] \in AgentCall
        BY DEF AgentCall
      <4>2. [agent_call[t] EXCEPT !.pc = "copy", !.seen = v] \in AgentCall
        BY <4>1 DEF AgentCall
      <4>3. agent_call' = [agent_call EXCEPT ![t] = [agent_call[t] EXCEPT !.pc = "copy", !.seen = v]]
        BY <3>1
      <4> QED
        BY <4>2, <4>3 DEF AgentCall
    <3>3. agent_call'[t].pc = "copy" /\ \A u \in Threads : u # t => agent_call'[u] = agent_call[u]
      BY <3>1
    <3>4. agent_faults' \in 0..MaxFaults
      BY <3>1
    <3>5. UNCHANGED <<h2c_csa_mem_db, csa_command, csa_finished, csa_mem, host_mutex, agent_doorbell,
                      csa_requests, last_serviced_request, agent, up, calls>>
      BY <2>6 DEF Agent!MapMem
    <3>6. \A u \in Threads :
            agent_call'[u].pc \in {"clear", "command", "ring", "wait", "map", "copy", "ack"} => host_mutex' = u
      BY <2>6, <3>3, <3>5 DEF Agent!MapMem
    <3>7. \A u \in Threads : agent_call'[u].req = None => agent_call'[u].pc = "idle"
      <4>1. agent_call'[t].req = agent_call[t].req /\ agent_call[t].req # None
        BY <2>6 DEF Agent!MapMem
      <4> QED
        BY <3>3, <4>1
    <3> QED
      BY <3>2, <3>4, <3>5, <3>6, <3>7 DEF AgentCall
  <2>7. CASE Agent!CopyMem(t)
    <3>1. agent_call' \in [Threads -> AgentCall]
      <4>1. agent_call[t] \in AgentCall
        BY DEF AgentCall
      <4>2. [agent_call[t] EXCEPT !.pc = "ack", !.seen = IF @ \in {csa_mem, None} THEN @ ELSE Garbage] \in AgentCall
        BY <4>1 DEF AgentCall
      <4>3. agent_call' = [agent_call EXCEPT ![t] = [agent_call[t] EXCEPT !.pc = "ack", !.seen = IF @ \in {csa_mem, None} THEN @ ELSE Garbage]]
        BY <2>7 DEF Agent!CopyMem
      <4> QED
        BY <4>2, <4>3 DEF AgentCall
    <3>2. agent_call'[t].pc = "ack" /\ \A u \in Threads : u # t => agent_call'[u] = agent_call[u]
      BY <2>7 DEF Agent!CopyMem
    <3> QED
      BY <2>7, <3>1, <3>2 DEF Agent!CopyMem, AgentCall
  <2>8. CASE Agent!Ack(t)
    BY <2>8 DEF Agent!Ack, Agent!Return, Agent!Idle
  <2> QED
    BY <1>2, <2>1, <2>2, <2>3, <2>4, <2>5, <2>6, <2>7, <2>8 DEF Agent!HostStep
<1>3. ASSUME NEW t \in Threads, Agent!TimedOut(t) PROVE Agent!TypeOK'
  BY <1>3 DEF Agent!TimedOut, Agent!Return, Agent!Idle, Agent!At, Agent!boot_params, Agent!csa
<1>4. CASE Agent!CardStep
  <2> USE DEF Agent!AgentGoto, Agent!Fault, Agent!boot_params
  <2>1. CASE Agent!Interrupt
    <3>1. csa_requests' \in Nat
      BY <2>1 DEF Agent!Interrupt
    <3> QED
      BY <2>1, <3>1 DEF Agent!Interrupt
  <2>2. CASE Agent!Wake
    BY <2>2 DEF Agent!Wake
  <2>3. CASE Agent!Fetch
    BY <2>3 DEF Agent!Fetch
  <2>4. CASE Agent!Mark
    BY <2>4 DEF Agent!Mark
  <2>5. CASE Agent!Store
    BY <2>5 DEF Agent!Store
  <2>6. CASE Agent!Fill
    BY <2>6 DEF Agent!Fill
  <2>7. CASE Agent!Finish
    BY <2>7 DEF Agent!Finish
  <2> QED
    BY <1>4, <2>1, <2>2, <2>3, <2>4, <2>5, <2>6, <2>7 DEF Agent!CardStep
<1>5. CASE Agent!Boot
  BY <1>5 DEF Agent!Boot, Agent!Asleep
<1>6. CASE Agent!Stop
  <2>1. agent_faults' \in 0..MaxFaults
    BY <1>6 DEF Agent!Stop, Agent!Fault
  <2> QED
    BY <1>6, <2>1 DEF Agent!Stop, Agent!csa
<1>7. CASE Agent!Down
  <2>1. agent_faults' \in 0..MaxFaults
    BY <1>7 DEF Agent!Down, Agent!Fault
  <2> QED
    BY <1>7, <2>1 DEF Agent!Down, Agent!boot_params
<1>8. CASE UNCHANGED Agent!vars
  BY <1>8 DEF Agent!vars, Agent!boot_params, Agent!csa
<1> QED
  BY <1>1, <1>2, <1>3, <1>4, <1>5, <1>6, <1>7, <1>8 DEF Agent!Next

-----------------------------------------------------------------------------
(* A step of the card or of the host's other parts keeps what the caller   *)
(* that found the card idle relies on.                                     *)
LEMMA AgentKeeps ==
    ASSUME AgentInv, NEW u \in Threads, agent_call[u].alone, UNCHANGED <<agent_call, host_mutex>>,
           Agent!CardStep \/ Agent!Boot \/ Agent!Stop \/ Agent!Down
    PROVE  Alone(u)'
<1>0. Agent!ConstantsFit
  BY DEF AgentInv
<1> USE <1>0 DEF Agent!ConstantsFit, Alone, Agent!At, OwnAnswer
<1>1. Agent!TypeOK /\ Alone(u)
  BY DEF AgentInv
<1>2. agent_faults \in Nat /\ agent_faults' \in Nat /\ (agent_faults > 0 => agent_faults' > 0)
  <2>1. agent_faults \in Nat
    BY <1>1 DEF Agent!TypeOK
  <2>2. agent_faults' = agent_faults \/ agent_faults' = agent_faults + 1
    BY DEF Agent!CardStep, Agent!Interrupt, Agent!Wake, Agent!Fetch, Agent!Mark, Agent!Store, Agent!Fill, Agent!Finish, Agent!Boot, Agent!Stop, Agent!Down, Agent!Fault
  <2> QED
    BY <2>1, <2>2
<1>boot. CASE Agent!Boot
  <2>1. agent'.pc = "wait" /\ csa_requests' = last_serviced_request'
    BY <1>boot DEF Agent!Boot, Agent!Asleep
  <2>2. agent_doorbell' => agent_doorbell
    BY <1>boot, Zenon DEF Agent!Boot
  <2>3. Agent!At(u, "wait") => AnswerDue(u)'
    BY <1>1, <1>boot, <2>1, <2>2 DEF Agent!Boot, AnswerDue
  <2> QED
    BY <1>1, <1>boot, <2>1, <2>2, <2>3 DEF Agent!Boot, BeforeRing, Settled
<1>3. ASSUME Agent!At(u, "command") \/ Agent!At(u, "ring") PROVE BeforeRing(u)'
  <2>1. BeforeRing(u)
    BY <1>1, <1>3
  <2>2. CASE Agent!CardStep
    BY <2>1, <2>2 DEF BeforeRing, Agent!CardStep, Agent!Interrupt, Agent!Wake, Agent!Fetch, Agent!Mark, Agent!Store, Agent!Fill, Agent!Finish
  <2>3. CASE Agent!Boot
    BY <1>3, <1>boot, <2>3
  <2>4. CASE Agent!Stop \/ Agent!Down
    BY <2>1, <2>4 DEF BeforeRing, Agent!Stop, Agent!Down, Agent!csa, Agent!boot_params
  <2> QED
    BY <2>2, <2>3, <2>4
<1>4. ASSUME Agent!At(u, "wait") PROVE AnswerDue(u)'
  <2>1. AnswerDue(u)
    BY <1>1, <1>4
  <2>2. CASE Agent!Interrupt
    BY <1>1, <2>1, <2>2 DEF AnswerDue, Agent!Interrupt, Agent!boot_params, Agent!TypeOK
  <2>3. CASE Agent!Wake
    BY <1>1, <2>1, <2>3 DEF AnswerDue, Agent!Wake, Agent!AgentGoto, Agent!boot_params, Agent!TypeOK
  <2>4. CASE Agent!Fetch
    BY <1>1, <2>1, <2>4 DEF AnswerDue, Agent!Fetch, Agent!boot_params, Agent!TypeOK
  <2>5. CASE Agent!Mark
    BY <1>1, <2>1, <2>5 DEF AnswerDue, Agent!Mark, Agent!AgentGoto, Agent!boot_params, Agent!TypeOK
  <2>6. CASE Agent!Store
    BY <1>1, <2>1, <2>6 DEF AnswerDue, Agent!Store, Agent!AgentGoto, Agent!TypeOK
  <2>7. CASE Agent!Fill
    BY <1>1, <1>2, <2>1, <2>7 DEF AnswerDue, Agent!Fill, Agent!Fault, Agent!AgentGoto, Agent!TypeOK
  <2>8. CASE Agent!Finish
    BY <1>1, <2>1, <2>8 DEF AnswerDue, Agent!Finish, Agent!AgentGoto, Agent!TypeOK
  <2>9. CASE Agent!Boot
    BY <1>4, <1>boot, <2>9
  <2>10. CASE Agent!Stop
    BY <1>1, <1>2, <2>1, <2>10 DEF AnswerDue, Agent!Stop, Agent!Fault, Agent!csa, Agent!TypeOK
  <2>11. CASE Agent!Down
    BY <1>1, <1>2, <2>1, <2>11 DEF AnswerDue, Agent!Down, Agent!Fault, Agent!boot_params, Agent!TypeOK
  <2> QED
    BY <2>2, <2>3, <2>4, <2>5, <2>6, <2>7, <2>8, <2>9, <2>10, <2>11 DEF Agent!CardStep
<1>5. ASSUME Agent!At(u, "map") \/ Agent!At(u, "copy") \/ Agent!At(u, "ack") PROVE Settled' /\ (OwnAnswer(u) => OwnAnswer(u)')
  <2>1. Settled
    BY <1>1, <1>5
  <2>2. CASE Agent!CardStep
    BY <2>1, <2>2 DEF Settled, Agent!CardStep, Agent!Interrupt, Agent!Wake, Agent!Fetch, Agent!Mark, Agent!Store, Agent!Fill, Agent!Finish
  <2>3. CASE Agent!Boot
    BY <1>5, <1>boot, <2>3 DEF Agent!Boot
  <2>4. CASE Agent!Stop
    BY <1>1, <2>1, <2>4 DEF Settled, Agent!Stop, Agent!Fault, Agent!csa, Agent!TypeOK
  <2>5. CASE Agent!Down
    BY <1>2, <2>1, <2>5 DEF Settled, Agent!Down, Agent!boot_params
  <2> QED
    BY <2>2, <2>3, <2>4, <2>5
<1> QED
  BY <1>1, <1>2, <1>3, <1>4, <1>5

(* A step of a caller keeps it too: of its own, because the calls are made *)
(* in this order, of another, because the mutex keeps it out.              *)
LEMMA CallerKeeps ==
    ASSUME AgentInv, Agent!TypeOK', NEW u \in Threads, agent_call'[u].alone, NEW t \in Threads,
           Agent!HostStep(t) \/ Agent!TimedOut(t) \/ \E c \in Cmds : Agent!AgentCommand(t, c)
    PROVE  Alone(u)'
<1>0. Agent!ConstantsFit
  BY DEF AgentInv
<1> USE <1>0 DEF Agent!ConstantsFit, Agent!At, Agent!Goto, Agent!boot_params, Agent!csa
<1>1. Agent!TypeOK /\ (agent_call[u].alone => Alone(u))
  BY DEF AgentInv
<1>2. CASE u # t
  <2>1. agent_call'[u] = agent_call[u]
    BY <1>1, <1>2 DEF Agent!TypeOK, Agent!HostStep, Agent!Lock, Agent!Clear, Agent!Command, Agent!Ring, Agent!Seen, Agent!MapMem, Agent!CopyMem, Agent!Ack,
       Agent!TimedOut, Agent!Return, Agent!AgentCommand
  <2>2. CASE host_mutex = u
    <3>1. CASE \E c \in Cmds : Agent!AgentCommand(t, c)
      BY <1>1, <2>1, <3>1 DEF Agent!AgentCommand, Alone, BeforeRing, AnswerDue, Settled, OwnAnswer
    <3>2. CASE Agent!HostStep(t) \/ Agent!TimedOut(t)
      BY <1>1, <1>2, <2>2, <3>2 DEF Agent!TypeOK, Agent!HostStep, Agent!Lock, Agent!Clear, Agent!Command, Agent!Ring, Agent!Seen, Agent!MapMem,
         Agent!CopyMem, Agent!Ack, Agent!TimedOut
    <3> QED
      BY <3>1, <3>2
  <2>3. CASE host_mutex # u
    BY <1>1, <2>1, <2>3 DEF Agent!TypeOK, Alone
  <2> QED
    BY <2>2, <2>3
<1>3. CASE u = t
  <2>1. CASE \E c \in Cmds : Agent!AgentCommand(t, c)
    <3>1. agent_call'[t].pc = "lock"
      <4>1. PICK c \in Cmds : Agent!AgentCommand(t, c)
        BY <2>1
      <4>2. agent_call[t] \in AgentCall /\ agent_call \in [Threads -> AgentCall]
        BY <1>1 DEF Agent!TypeOK, AgentCall
      <4> QED
        BY <4>1, <4>2 DEF Agent!AgentCommand, AgentCall
    <3> QED
      BY <1>3, <3>1 DEF Alone
  <2>2. CASE Agent!Lock(t)
    BY <1>1, <1>3, <2>2 DEF Agent!Lock, Alone, Agent!TypeOK
  <2>3. CASE Agent!Clear(t)
    BY <1>1, <1>3, <2>3 DEF Agent!Clear, Agent!CardIdle, Alone, BeforeRing, Agent!TypeOK
  <2>4. CASE Agent!Command(t)
    BY <1>1, <1>3, <2>4 DEF Agent!Command, Alone, BeforeRing, Agent!TypeOK
  <2>5. CASE Agent!Ring(t)
    BY <1>1, <1>3, <2>5 DEF Agent!Ring, Alone, BeforeRing, AnswerDue, OwnAnswer, Agent!TypeOK
  <2>6. CASE Agent!Seen(t)
    BY <1>1, <1>3, <2>6 DEF Agent!Seen, Alone, AnswerDue, Settled, OwnAnswer, Agent!TypeOK
  <2>7. CASE Agent!MapMem(t)
    <3>1. /\ Settled' /\ OwnAnswer(t) /\ csa_mem' = csa_mem /\ agent_faults \in Nat
          /\ agent_call[t].req # None
      BY <1>1, <1>3, <2>7 DEF Agent!MapMem, Alone, Settled, Agent!TypeOK
    <3>2. agent_call'[t].pc = "copy" /\ agent_call'[t].req = agent_call[t].req
      BY <1>1, <2>7 DEF Agent!MapMem, Agent!TypeOK
    <3>3. \/ agent_faults' = agent_faults
             /\ agent_call'[t].seen = IF csa_mem = None THEN Garbage ELSE csa_mem
          \/ agent_faults' = agent_faults + 1 /\ agent_call'[t].seen = None
      BY <1>1, <2>7 DEF Agent!MapMem, Agent!Fault, Agent!TypeOK
    <3>4. OwnAnswer(t)'
      BY <3>1, <3>2, <3>3 DEF OwnAnswer
    <3>5. agent_call'[t].seen = agent_call'[t].req
            \/ (agent_call'[t].seen \in {None, Garbage} /\ agent_faults' > 0)
      BY <3>1, <3>2, <3>3 DEF OwnAnswer
    <3> QED
      <4>1. \A pc \in {"command", "ring", "wait"} : agent_call'[u].pc # pc
        BY <1>3, <3>2
      <4>2. Settled' /\ OwnAnswer(u)'
        BY <1>3, <3>1, <3>4
      <4> QED
        BY <1>3, <3>5, <4>1, <4>2 DEF Alone
  <2>8. CASE Agent!CopyMem(t)
    BY <1>1, <1>3, <2>8 DEF Agent!CopyMem, Alone, Settled, OwnAnswer, Agent!TypeOK
  <2>9. CASE Agent!Ack(t) \/ Agent!TimedOut(t)
    BY <1>1, <1>3, <2>9 DEF Agent!Ack, Agent!TimedOut, Agent!Return, Agent!Idle, Alone, Agent!TypeOK
  <2> QED
    BY <2>1, <2>2, <2>3, <2>4, <2>5, <2>6, <2>7, <2>8, <2>9 DEF Agent!HostStep
<1> QED
  BY <1>2, <1>3

-----------------------------------------------------------------------------
(* Mutual exclusion of the callers, and where the one request of a caller  *)
(* that found the card idle is on its way through doorbell, count, agent   *)
(* and csa_finished.                                                       *)
THEOREM AgentInvariant == Agent!ConstantsFit /\ Agent!Spec => []AgentInv
<1>1. Agent!ConstantsFit /\ Agent!Init => AgentInv
  BY AgentInitType DEF Agent!Init, AgentInv, Agent!Idle
<1>2. AgentInv /\ [Agent!Next]_(Agent!vars) => AgentInv'
  <2> SUFFICES ASSUME AgentInv, [Agent!Next]_(Agent!vars) PROVE AgentInv'
    OBVIOUS
  <2>1. Agent!TypeOK'
    BY AgentTypeStep DEF AgentInv
  <2>2. ASSUME NEW u \in Threads, agent_call'[u].alone PROVE Alone(u)'
    <3>1. ASSUME NEW t \in Threads, Agent!HostStep(t) \/ Agent!TimedOut(t) \/ \E c \in Cmds : Agent!AgentCommand(t, c)
          PROVE  Alone(u)'
      BY <2>1, <2>2, <3>1, CallerKeeps
    <3>2. CASE Agent!CardStep \/ Agent!Boot \/ Agent!Stop \/ Agent!Down
      <4>1. UNCHANGED <<agent_call, host_mutex>>
        BY <3>2 DEF Agent!CardStep, Agent!Interrupt, Agent!Wake, Agent!Fetch, Agent!Mark, Agent!Store, Agent!Fill, Agent!Finish, Agent!Boot, Agent!Stop, Agent!Down
      <4> QED
        BY <2>2, <3>2, <4>1, AgentKeeps
    <3>3. CASE UNCHANGED Agent!vars
      BY <2>2, <3>3 DEF Agent!vars, Agent!boot_params, Agent!csa, AgentInv, Alone, BeforeRing, AnswerDue, Settled, OwnAnswer, Agent!At
    <3> QED
      BY <3>1, <3>2, <3>3 DEF Agent!Next
  <2> QED
    BY <2>1, <2>2 DEF AgentInv
<1> QED
  BY <1>1, <1>2, PTL DEF Agent!Spec

(* AnswerFits: whatever was left behind by callers that gave up, crashes   *)
(* and resets, a caller of VCA_AGENT_COMMAND that finds the card idle is   *)
(* told its own answer or, after a fault, none.                            *)
THEOREM AnswersFit == Agent!ConstantsFit /\ Agent!Spec => []Agent!AnswerFits
<1>1. AgentInv => Agent!AnswerFits
  BY DEF AgentInv, Agent!AnswerFits, Alone
<1> QED
  BY <1>1, AgentInvariant, PTL

=============================================================================
