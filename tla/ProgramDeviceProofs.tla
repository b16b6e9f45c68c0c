------------------------ MODULE ProgramDeviceProofs ------------------------
(***************************************************************************)
(* Proofs about ProgramDevice for any number of threads, execution objects *)
(* and networks.                                                           *)
(*                                                                         *)
(* RestsWhenUnlocked, HoldsWhatItUses and NeverLoadedUnvalidated are       *)
(* consequences of what may be queued together:                            *)
(*   - a signal posted by a caller (Outside) has at most error signals for *)
(*     company, so it never meets a stale completion;                      *)
(*   - at most one completion is queued, and it is the one the machine     *)
(*     waits for, or the machine is in device_error, which drops it;       *)
(*   - a program that did not validate has an error signal queued in front *)
(*     of whatever could complete its loading.                             *)
(*                                                                         *)
(* The second half shows that ProgramDevice implements ProgramLifecycle:   *)
(* whatever a call or a device event does in between, the program it       *)
(* leaves behind and the status it returns are those of one atomic step.   *)
(* That needs an invariant that lists what a call may be in the middle of: *)
(* the states it goes through, what is queued in each, and what has become *)
(* of the network since the lock was taken.  That the queue never holds    *)
(* more than three signals can be read off it.                             *)
(***************************************************************************)
EXTENDS ProgramDevice, TLAPS

Errors      == {"INIT_ERROR", "DEVICE_DOWN"}
Outside     == {"UNLOAD", "DEACTIVATE", "DEVICE_UP"}
Completions == {"LOAD_COMPLETE", "LOAD_FAILED", "UNLOAD_COMPLETE",
                "ACTIVATE_COMPLETE", "ACTIVATE_FAILED", "DEACTIVATE_COMPLETE"}

\* The state that waits for a completion.
Awaits(c) ==
  CASE c \in {"LOAD_COMPLETE", "LOAD_FAILED"}         -> "loading"
    [] c = "UNLOAD_COMPLETE"                          -> "unloading"
    [] c \in {"ACTIVATE_COMPLETE", "ACTIVATE_FAILED"} -> "activating"
    [] c = "DEACTIVATE_COMPLETE"                      -> "ac_deactivating"

Queued(s) == \E i \in 1..Len(signals) : signals[i] = s

\* A signal from outside is alone but for errors.
OutsideAlone ==
  \A i, j \in 1..Len(signals) :
    signals[i] \in Outside /\ i # j => signals[j] \in Errors

\* One completion at most, and only where it is awaited or ignored.
OneCompletion ==
  \A i \in 1..Len(signals) :
    signals[i] \in Completions =>
      /\ state \in {Awaits(signals[i]), "device_error"}
      /\ \A j \in 1..Len(signals) : signals[j] \in Completions => i = j

\* A transitional state has what it waits for in the queue.
WaitEnds ==
  /\ state = "loading" => Queued("LOAD_COMPLETE") \/ Queued("LOAD_FAILED")
  /\ state = "unloading" => Queued("UNLOAD_COMPLETE")
  /\ state = "activating" => Queued("ACTIVATE_COMPLETE") \/ Queued("ACTIVATE_FAILED")
  /\ state = "ac_deactivating" => Queued("DEACTIVATE_COMPLETE") \/ Queued("DEVICE_DOWN")

\* A completion that reports success reports a success that still stands.
SuccessStands ==
  /\ Queued("LOAD_COMPLETE") /\ state = "loading" => image
  /\ Queued("ACTIVATE_COMPLETE") /\ state = "activating" => qnn \in live

\* Without validation the program is on its way to device_error.
DoomedUnvalidated ==
  ~devInfoValidated =>
    \/ state = "device_error"
    \/ /\ state = "created"
       /\ signals # <<>>
       /\ \/ signals[1] = "DEVICE_DOWN"
          \/ signals[1] = "INIT_ERROR" /\ Len(signals) <= 2
          \/ Len(signals) = 2 /\ signals[2] = "DEVICE_DOWN"
    \/ /\ state = "loading"
       /\ signals # <<>> /\ signals[1] = "DEVICE_DOWN"

IdleQueue ==
  holder = Nobody => signals = <<>> \/ (signals = <<"INIT_ERROR">> /\ state = "created")

IInv ==
  /\ TypeOK
  /\ IdleQueue
  /\ OutsideAlone /\ OneCompletion /\ WaitEnds
  /\ SuccessStands /\ HoldsWhatItUses
  /\ DoomedUnvalidated

-----------------------------------------------------------------------------
(* The queue after a dispatched signal: its tail, then what was posted.    *)

LEMMA PostedQueue ==
  ASSUME NEW s \in Seq(Signals), s # <<>>, NEW p \in Seq(Signals)
  PROVE  /\ Tail(s) \o p \in Seq(Signals)
         /\ Len(Tail(s) \o p) = Len(s) - 1 + Len(p)
         /\ Len(s) \in Nat \ {0}
         /\ \A i \in 1..(Len(s) - 1) : (Tail(s) \o p)[i] = s[i + 1]
         /\ \A i \in 1..Len(p) : (Tail(s) \o p)[Len(s) - 1 + i] = p[i]
<1>1. Tail(s) \in Seq(Signals) /\ Len(Tail(s)) = Len(s) - 1 /\ Len(s) \in Nat \ {0}
  OBVIOUS
<1>2. \A i \in 1..(Len(s) - 1) : Tail(s)[i] = s[i + 1]
  OBVIOUS
<1>3. QED
  BY <1>1, <1>2

LEMMA TypeInit == Init => TypeOK
<1> SUFFICES ASSUME Init PROVE TypeOK
  OBVIOUS
<1> USE DEF Init, HsmStates, CreatedSuper, LoadedSuper, ActiveSuper
<1>1. signals \in Seq(Signals)
  <2>1. CASE devInfoValidated
    BY <2>1
  <2>2. CASE ~devInfoValidated
    BY <2>2 DEF Signals
  <2>3. QED
    BY <2>1, <2>2
<1>2. published \in [state : HsmStates, qnn : Networks \cup {NoNet},
                    live : SUBSET Networks, initError : BOOLEAN]
  OBVIOUS
<1>3. last \in [op : Ops \cup {"none"}, ok : BOOLEAN]
  OBVIOUS
<1>4. QED
  BY <1>1, <1>2, <1>3 DEF TypeOK

-----------------------------------------------------------------------------
(* One dispatched signal keeps what is known of the machine.               *)

HsmTypes ==
  /\ state \in HsmStates
  /\ signals \in Seq(Signals)
  /\ devInfoValidated \in BOOLEAN /\ image \in BOOLEAN
  /\ qnn \in Networks \cup {NoNet}
  /\ live \subseteq Networks

HsmInv ==
  /\ HsmTypes
  /\ OutsideAlone /\ OneCompletion /\ WaitEnds
  /\ SuccessStands /\ HoldsWhatItUses
  /\ DoomedUnvalidated

LEMMA QueueStep ==
  ASSUME signals \in Seq(Signals), signals # <<>>, NEW p \in Seq(Signals),
         signals' = Tail(signals) \o p
  PROVE  /\ signals' \in Seq(Signals)
         /\ Len(signals) \in Nat \ {0}
         /\ Len(signals') = Len(signals) - 1 + Len(p)
         /\ \A i \in 1..Len(signals') :
              \/ i < Len(signals) /\ signals'[i] = signals[i + 1]
              \/ /\ i >= Len(signals) /\ i - Len(signals) + 1 \in 1..Len(p)
                 /\ signals'[i] = p[i - Len(signals) + 1]
         /\ \A c : Queued(c) /\ signals[1] # c => Queued(c)'
         /\ \A c : (\E k \in 1..Len(p) : p[k] = c) => Queued(c)'
         /\ \A c : Queued(c)' => Queued(c) \/ \E k \in 1..Len(p) : p[k] = c
<1> DEFINE n == Len(signals)
<1>1. /\ signals' \in Seq(Signals)
      /\ n \in Nat \ {0}
      /\ Len(p) \in Nat
      /\ Len(signals') = n - 1 + Len(p)
      /\ \A i \in 1..(n - 1) : signals'[i] = signals[i + 1]
      /\ \A i \in 1..Len(p) : signals'[n - 1 + i] = p[i]
  BY PostedQueue
<1> HIDE DEF n
<1>2. \A i \in 1..Len(signals') :
        \/ i < n /\ signals'[i] = signals[i + 1]
        \/ /\ i >= n /\ i - n + 1 \in 1..Len(p)
           /\ signals'[i] = p[i - n + 1]
  <2> SUFFICES ASSUME NEW i \in 1..Len(signals'), ~(i < n)
               PROVE  i >= n /\ i - n + 1 \in 1..Len(p) /\ signals'[i] = p[i - n + 1]
    BY <1>1
  <2>1. i >= n /\ i - n + 1 \in 1..Len(p)
    BY <1>1
  <2>2. signals'[n - 1 + (i - n + 1)] = p[i - n + 1]
    BY <1>1, <2>1
  <2>3. n - 1 + (i - n + 1) = i
    BY <1>1
  <2>4. QED
    BY <2>1, <2>2, <2>3
<1>3. ASSUME NEW c, Queued(c), signals[1] # c
      PROVE  Queued(c)'
  <2>1. PICK k \in 1..n : signals[k] = c
    BY <1>3 DEF Queued, n
  <2>2. k - 1 \in 1..(n - 1) /\ signals'[k - 1] = c
    BY <1>1, <1>3, <2>1
  <2>3. k - 1 \in 1..Len(signals')
    BY <1>1, <2>2
  <2>4. QED
    BY <2>2, <2>3 DEF Queued
<1>4. ASSUME NEW c, NEW k \in 1..Len(p), p[k] = c
      PROVE  Queued(c)'
  <2>1. n - 1 + k \in 1..Len(signals') /\ signals'[n - 1 + k] = c
    BY <1>1, <1>4
  <2>2. QED
    BY <2>1 DEF Queued
<1>5. ASSUME NEW c, Queued(c)'
      PROVE  Queued(c) \/ \E k \in 1..Len(p) : p[k] = c
  <2>1. PICK i \in 1..Len(signals') : signals'[i] = c
    BY <1>5 DEF Queued
  <2>2. CASE i < n
    <3>1. i + 1 \in 1..n /\ signals[i + 1] = c
      BY <1>1, <2>1, <2>2
    <3>2. QED
      BY <3>1 DEF Queued, n
  <2>3. CASE ~(i < n)
    BY <1>2, <2>1, <2>3
  <2>4. QED
    BY <2>2, <2>3
<1>6. QED
  BY <1>1, <1>2, <1>3, <1>4, <1>5 DEF n

\* What a handler posts never breaks into the company of a caller's signal.
LEMMA OutsideStep ==
  ASSUME signals \in Seq(Signals), signals # <<>>, NEW p \in Seq(Signals),
         signals' = Tail(signals) \o p, OutsideAlone,
         \A k \in 1..Len(p) : p[k] \notin Outside,
         \/ \A k \in 1..Len(p) : p[k] \in Errors
         \/ signals[1] \notin Errors
  PROVE  OutsideAlone'
<1> DEFINE n == Len(signals)
<1>1. /\ n \in Nat \ {0}
      /\ Len(signals') = n - 1 + Len(p) /\ Len(p) \in Nat
      /\ \A i \in 1..Len(signals') :
           \/ i < n /\ signals'[i] = signals[i + 1]
           \/ /\ i >= n /\ i - n + 1 \in 1..Len(p)
              /\ signals'[i] = p[i - n + 1]
  BY QueueStep
<1> HIDE DEF n
<1> SUFFICES ASSUME NEW i \in 1..Len(signals'), NEW j \in 1..Len(signals'),
                    signals'[i] \in Outside, i # j
             PROVE  signals'[j] \in Errors
  BY DEF OutsideAlone
<1>2. i < n /\ i + 1 \in 1..n /\ signals[i + 1] \in Outside
  <2>1. i < n /\ signals'[i] = signals[i + 1]
    <3>1. SUFFICES ASSUME i >= n, i - n + 1 \in 1..Len(p), signals'[i] = p[i - n + 1]
                   PROVE  FALSE
      BY <1>1
    <3>2. QED
      BY <3>1
  <2>2. i + 1 \in 1..n
    BY <1>1, <2>1
  <2>3. QED
    BY <2>1, <2>2
<1>3. CASE j < n
  <2>1. j + 1 \in 1..n /\ i + 1 # j + 1 /\ signals'[j] = signals[j + 1]
    BY <1>1, <1>3
  <2>2. QED
    BY <1>2, <2>1 DEF OutsideAlone, n
<1>4. CASE ~(j < n)
  <2>1. 1 \in 1..n /\ i + 1 # 1
    BY <1>1
  <2>2. signals[1] \in Errors
    BY <1>2, <2>1 DEF OutsideAlone, n
  <2>3. QED
    BY <1>1, <1>4, <2>2
<1>5. QED
  BY <1>3, <1>4

\* A handler keeps the queued completion if the machine goes on waiting for it
\* or drops it, and posts one only when none is queued.
LEMMA CompletionStep ==
  ASSUME signals \in Seq(Signals), signals # <<>>, NEW p \in Seq(Signals),
         signals' = Tail(signals) \o p, OneCompletion,
         \/ /\ \A k \in 1..Len(p) : p[k] \notin Completions
            /\ \A i \in 2..Len(signals) : signals[i] \in Completions =>
                 state' \in {Awaits(signals[i]), "device_error"}
         \/ /\ \A i \in 2..Len(signals) : signals[i] \notin Completions
            /\ \A k \in 1..Len(p) : p[k] \in Completions =>
                 k = Len(p) /\ state' = Awaits(p[k])
  PROVE  OneCompletion'
<1> DEFINE n == Len(signals)
<1>1. /\ n \in Nat \ {0}
      /\ Len(signals') = n - 1 + Len(p) /\ Len(p) \in Nat
      /\ \A i \in 1..Len(signals') :
           \/ i < n /\ signals'[i] = signals[i + 1]
           \/ /\ i >= n /\ i - n + 1 \in 1..Len(p)
              /\ signals'[i] = p[i - n + 1]
  BY QueueStep
<1>2. \A i, j \in 1..n :
        signals[i] \in Completions /\ signals[j] \in Completions => i = j
  BY DEF OneCompletion
<1> HIDE DEF n
<1> SUFFICES ASSUME NEW i \in 1..Len(signals'), signals'[i] \in Completions
             PROVE  /\ state' \in {Awaits(signals'[i]), "device_error"}
                    /\ \A j \in 1..Len(signals') :
                         signals'[j] \in Completions => i = j
  BY DEF OneCompletion, Awaits
<1>3. CASE i < n
  <2>1. i + 1 \in 2..n /\ signals'[i] = signals[i + 1]
    BY <1>1, <1>3
  <2>2. /\ \A k \in 1..Len(p) : p[k] \notin Completions
        /\ state' \in {Awaits(signals[i + 1]), "device_error"}
    BY <2>1 DEF n
  <2>3. ASSUME NEW j \in 1..Len(signals'), signals'[j] \in Completions PROVE i = j
    <3>1. j < n /\ signals'[j] = signals[j + 1]
      BY <1>1, <2>2, <2>3
    <3>2. i + 1 \in 1..n /\ j + 1 \in 1..n
      BY <1>1, <1>3, <3>1
    <3>3. i + 1 = j + 1
      BY <1>2, <2>1, <2>3, <3>1, <3>2
    <3>4. QED
      BY <3>3
  <2>4. QED
    BY <2>1, <2>2, <2>3
<1>4. CASE ~(i < n)
  <2>1. i - n + 1 \in 1..Len(p) /\ signals'[i] = p[i - n + 1]
    BY <1>1, <1>4
  <2>2. /\ \A k \in 2..n : signals[k] \notin Completions
        /\ \A k \in 1..Len(p) : p[k] \in Completions =>
             k = Len(p) /\ state' = Awaits(p[k])
    BY <2>1 DEF n
  <2>3. i - n + 1 = Len(p) /\ state' = Awaits(signals'[i])
    BY <2>1, <2>2
  <2>4. ASSUME NEW j \in 1..Len(signals'), signals'[j] \in Completions PROVE i = j
    <3>1. ~(j < n)
      <4>1. SUFFICES ASSUME j < n PROVE FALSE
        OBVIOUS
      <4>2. j + 1 \in 2..n /\ signals'[j] = signals[j + 1]
        BY <1>1, <4>1
      <4>3. QED
        BY <2>2, <2>4, <4>2
    <3>2. j - n + 1 \in 1..Len(p) /\ signals'[j] = p[j - n + 1]
      BY <1>1, <3>1
    <3>3. j - n + 1 = Len(p)
      BY <2>2, <2>4, <3>2
    <3>4. QED
      BY <1>1, <2>3, <3>3
  <2>5. QED
    BY <2>3, <2>4
<1>5. QED
  BY <1>3, <1>4

\* What the head of the queue says of the rest of it.
LEMMA HeadFacts ==
  ASSUME HsmInv, signals # <<>>
  PROVE  /\ Sig = signals[1] /\ Sig \in Signals
         /\ Len(signals) \in Nat \ {0}
         /\ Sig \in Completions =>
              \A i \in 2..Len(signals) : signals[i] \notin Completions
         /\ Sig \in Outside =>
              \A i \in 2..Len(signals) : signals[i] \in Errors
         /\ \A i \in 1..Len(signals) : signals[i] \in Completions =>
              state \in {Awaits(signals[i]), "device_error"}
<1>1. /\ signals \in Seq(Signals) /\ Len(signals) \in Nat \ {0}
      /\ Sig = signals[1] /\ 1 \in 1..Len(signals)
  BY DEF HsmInv, HsmTypes, Sig
<1>2. Sig \in Signals
  BY <1>1
<1>3. ASSUME NEW i \in 2..Len(signals)
      PROVE  /\ Sig \in Completions => signals[i] \notin Completions
             /\ Sig \in Outside => signals[i] \in Errors
  <2>1. i \in 1..Len(signals) /\ i # 1
    BY <1>1
  <2>2. QED
    BY <1>1, <2>1 DEF HsmInv, OneCompletion, OutsideAlone
<1>4. QED
  BY <1>1, <1>2, <1>3 DEF HsmInv, OneCompletion

\* The states in which no completion can be queued.
LEMMA NoCompletion ==
  ASSUME HsmInv, signals # <<>>,
         state \in {"created", "loaded", "activate_failed", "ac_ready", "load_failed"}
  PROVE  \A i \in 1..Len(signals) : signals[i] \notin Completions
BY HeadFacts DEF Completions, Awaits


\* Nothing is posted: the signal at the head is gone.
LEMMA NothingPosted ==
  ASSUME HsmInv, signals # <<>>, signals' = Tail(signals) \o <<>>,
         \A i \in 2..Len(signals) : signals[i] \in Completions =>
           state' \in {Awaits(signals[i]), "device_error"}
  PROVE  /\ signals' \in Seq(Signals)
         /\ Len(signals') = Len(signals) - 1
         /\ \A i \in 1..Len(signals') : signals'[i] = signals[i + 1]
         /\ \A c : Queued(c) /\ signals[1] # c => Queued(c)'
         /\ \A c : Queued(c)' => Queued(c)
         /\ OutsideAlone' /\ OneCompletion'
<1>0. <<>> \in Seq(Signals)
  OBVIOUS
<1>1. PICK p \in Seq(Signals) : signals' = Tail(signals) \o p /\ p = <<>>
  BY <1>0, Zenon
<1>2. Len(p) = 0
  BY <1>1
<1>3. signals \in Seq(Signals) /\ OutsideAlone /\ OneCompletion
  BY DEF HsmInv, HsmTypes
<1>4. \A k \in 1..Len(p) : FALSE
  BY <1>2
<1>5. OutsideAlone'
  BY <1>1, <1>3, <1>4, OutsideStep
<1>6. OneCompletion'
  BY <1>1, <1>3, <1>4, CompletionStep
<1>7. /\ signals' \in Seq(Signals)
      /\ Len(signals) \in Nat \ {0}
      /\ Len(signals') = Len(signals) - 1 + Len(p)
      /\ \A i \in 1..Len(signals') :
           \/ i < Len(signals) /\ signals'[i] = signals[i + 1]
           \/ /\ i >= Len(signals) /\ i - Len(signals) + 1 \in 1..Len(p)
              /\ signals'[i] = p[i - Len(signals) + 1]
      /\ \A c : Queued(c) /\ signals[1] # c => Queued(c)'
      /\ \A c : Queued(c)' => Queued(c) \/ \E k \in 1..Len(p) : p[k] = c
  BY <1>1, <1>3, QueueStep
<1>8. QED
  BY <1>2, <1>4, <1>5, <1>6, <1>7

\* One signal is posted.
LEMMA OnePosted ==
  ASSUME HsmInv, signals # <<>>, NEW c \in Signals \ Outside,
         signals' = Tail(signals) \o <<c>>,
         c \in Errors \/ Sig \notin Errors,
         \/ /\ c \notin Completions
            /\ \A i \in 2..Len(signals) : signals[i] \in Completions =>
                 state' \in {Awaits(signals[i]), "device_error"}
         \/ /\ c \in Completions => state' = Awaits(c)
            /\ \A i \in 2..Len(signals) : signals[i] \notin Completions
  PROVE  /\ signals' \in Seq(Signals)
         /\ Len(signals') = Len(signals)
         /\ \A i \in 1..Len(signals') : i < Len(signals) => signals'[i] = signals[i + 1]
         /\ signals'[Len(signals)] = c
         /\ \A d : Queued(d) /\ signals[1] # d => Queued(d)'
         /\ Queued(c)'
         /\ \A d : Queued(d)' => Queued(d) \/ d = c
         /\ OutsideAlone' /\ OneCompletion'
<1>0. <<c>> \in Seq(Signals)
  OBVIOUS
<1>1. PICK p \in Seq(Signals) : signals' = Tail(signals) \o p /\ p = <<c>>
  BY <1>0, Zenon
<1>2. Len(p) = 1 /\ p[1] = c
  BY <1>1
<1>3. signals \in Seq(Signals) /\ OutsideAlone /\ OneCompletion /\ Sig = signals[1]
  BY HeadFacts DEF HsmInv, HsmTypes
<1>4. \A k \in 1..Len(p) : k = 1 /\ p[k] = c
  BY <1>2
<1>5. OutsideAlone'
  BY <1>1, <1>3, <1>4, OutsideStep
<1>6. OneCompletion'
  BY <1>1, <1>2, <1>3, <1>4, CompletionStep
<1>7. /\ signals' \in Seq(Signals)
      /\ Len(signals) \in Nat \ {0}
      /\ Len(signals') = Len(signals) - 1 + Len(p)
      /\ \A i \in 1..Len(signals') :
           \/ i < Len(signals) /\ signals'[i] = signals[i + 1]
           \/ /\ i >= Len(signals) /\ i - Len(signals) + 1 \in 1..Len(p)
              /\ signals'[i] = p[i - Len(signals) + 1]
      /\ \A d : Queued(d) /\ signals[1] # d => Queued(d)'
      /\ \A d : (\E k \in 1..Len(p) : p[k] = d) => Queued(d)'
      /\ \A d : Queued(d)' => Queued(d) \/ \E k \in 1..Len(p) : p[k] = d
  BY <1>1, <1>3, QueueStep
<1>8. Len(signals') = Len(signals)
  <2>1. Len(signals) \in Nat /\ Len(signals') = Len(signals) - 1 + 1
    BY <1>2, <1>7
  <2>2. \A x \in Nat : x - 1 + 1 = x
    OBVIOUS
  <2>3. QED
    BY <2>1, <2>2, Zenon
<1>9. signals'[Len(signals)] = c
  <2>1. Len(signals) \in 1..Len(signals')
    <3>1. \A x \in Nat \ {0} : x \in 1..x
      OBVIOUS
    <3>2. QED
      BY <1>7, <1>8, <3>1, Zenon
  <2>2. ~(Len(signals) < Len(signals)) /\ Len(signals) - Len(signals) + 1 = 1
    BY <1>7
  <2>3. QED
    BY <1>2, <1>7, <2>1, <2>2
<1>10. 1 \in 1..Len(p)
  BY <1>2
<1>11. \A i \in 1..Len(signals') : i < Len(signals) => signals'[i] = signals[i + 1]
  BY <1>7
<1>12. Queued(c)' /\ \A d : Queued(d)' => Queued(d) \/ d = c
  BY <1>2, <1>4, <1>7, <1>10
<1>13. QED
  BY <1>5, <1>6, <1>7, <1>8, <1>9, <1>11, <1>12

\* Two signals are posted.
LEMMA TwoPosted ==
  ASSUME HsmInv, signals # <<>>, NEW b \in Signals \ Outside, NEW c \in Signals \ Outside,
         signals' = Tail(signals) \o <<b, c>>,
         Sig \notin Errors, b \notin Completions,
         \/ /\ c \notin Completions
            /\ \A i \in 2..Len(signals) : signals[i] \in Completions =>
                 state' \in {Awaits(signals[i]), "device_error"}
         \/ /\ c \in Completions => state' = Awaits(c)
            /\ \A i \in 2..Len(signals) : signals[i] \notin Completions
  PROVE  /\ signals' \in Seq(Signals)
         /\ Len(signals') = Len(signals) + 1
         /\ \A i \in 1..Len(signals') : i < Len(signals) => signals'[i] = signals[i + 1]
         /\ signals'[Len(signals)] = b
         /\ \A d : Queued(d) /\ signals[1] # d => Queued(d)'
         /\ Queued(c)'
         /\ \A d : Queued(d)' => Queued(d) \/ d = b \/ d = c
         /\ OutsideAlone' /\ OneCompletion'
<1>0. <<b, c>> \in Seq(Signals)
  OBVIOUS
<1>1. PICK p \in Seq(Signals) : signals' = Tail(signals) \o p /\ p = <<b, c>>
  BY <1>0, Zenon
<1>2. Len(p) = 2 /\ p[1] = b /\ p[2] = c
  BY <1>1
<1>3. signals \in Seq(Signals) /\ OutsideAlone /\ OneCompletion /\ Sig = signals[1]
  BY HeadFacts DEF HsmInv, HsmTypes
<1>4. \A k \in 1..Len(p) : (k = 1 /\ p[k] = b) \/ (k = 2 /\ p[k] = c)
  BY <1>2
<1>5. OutsideAlone'
  BY <1>1, <1>3, <1>4, OutsideStep
<1>6. OneCompletion'
  BY <1>1, <1>2, <1>3, <1>4, CompletionStep
<1>7. /\ signals' \in Seq(Signals)
      /\ Len(signals) \in Nat \ {0}
      /\ Len(signals') = Len(signals) - 1 + Len(p)
      /\ \A i \in 1..Len(signals') :
           \/ i < Len(signals) /\ signals'[i] = signals[i + 1]
           \/ /\ i >= Len(signals) /\ i - Len(signals) + 1 \in 1..Len(p)
              /\ signals'[i] = p[i - Len(signals) + 1]
      /\ \A d : Queued(d) /\ signals[1] # d => Queued(d)'
      /\ \A d : (\E k \in 1..Len(p) : p[k] = d) => Queued(d)'
      /\ \A d : Queued(d)' => Queued(d) \/ \E k \in 1..Len(p) : p[k] = d
  BY <1>1, <1>3, QueueStep
<1>8. Len(signals') = Len(signals) + 1
  BY <1>2, <1>7
<1>9. signals'[Len(signals)] = b
  <2>1. Len(signals) \in 1..Len(signals')
    BY <1>7, <1>8
  <2>2. ~(Len(signals) < Len(signals)) /\ Len(signals) - Len(signals) + 1 = 1
    BY <1>7
  <2>3. QED
    BY <1>2, <1>7, <2>1, <2>2
<1>10. 2 \in 1..Len(p)
  BY <1>2
<1>11. \A i \in 1..Len(signals') : i < Len(signals) => signals'[i] = signals[i + 1]
  BY <1>7
<1>12. Queued(c)' /\ \A d : Queued(d)' => Queued(d) \/ d = b \/ d = c
  BY <1>2, <1>4, <1>7, <1>10
<1>13. QED
  BY <1>5, <1>6, <1>7, <1>8, <1>9, <1>11, <1>12

-----------------------------------------------------------------------------
(* The handlers, one by one.                                               *)

LEMMA TopStep ==
  ASSUME HsmInv, signals # <<>>, top
  PROVE  HsmInv'
<1>1. /\ signals' = Tail(signals) \o <<>>
      /\ UNCHANGED <<state, devInfoValidated, image, qnn, live>>
      /\ Sig \notin Handles(state)
  BY DEF top, Repost, Post
<1>2. /\ HsmTypes /\ WaitEnds /\ SuccessStands /\ HoldsWhatItUses /\ DoomedUnvalidated
      /\ Sig = signals[1] /\ Len(signals) \in Nat \ {0}
  BY HeadFacts DEF HsmInv
<1>3. \A i \in 2..Len(signals) : signals[i] \in Completions =>
        state' \in {Awaits(signals[i]), "device_error"}
  BY <1>1, HeadFacts
<1>4. /\ signals' \in Seq(Signals)
      /\ Len(signals') = Len(signals) - 1
      /\ \A i \in 1..Len(signals') : signals'[i] = signals[i + 1]
      /\ \A c : Queued(c) /\ signals[1] # c => Queued(c)'
      /\ \A c : Queued(c)' => Queued(c)
      /\ OutsideAlone' /\ OneCompletion'
  BY <1>1, <1>3, NothingPosted
<1>5. HsmTypes'
  BY <1>1, <1>2, <1>4 DEF HsmTypes
<1>6. WaitEnds'
  BY <1>1, <1>2, <1>4 DEF WaitEnds, Handles, LeafHandles, CreatedSuper, LoadedSuper, ActiveSuper
<1>7. SuccessStands' /\ HoldsWhatItUses'
  BY <1>1, <1>2, <1>4 DEF SuccessStands, HoldsWhatItUses
<1>8. DoomedUnvalidated'
  <2>1. state \in CreatedSuper => signals[1] \notin {"INIT_ERROR", "DEVICE_DOWN"}
    BY <1>1, <1>2 DEF Handles
  <2>2. SUFFICES ASSUME ~devInfoValidated', state' # "device_error"
                 PROVE  /\ state' = "created"
                        /\ signals' # <<>>
                        /\ signals'[1] = "DEVICE_DOWN"
    BY DEF DoomedUnvalidated
  <2>3. state = "created" /\ Len(signals) = 2 /\ signals[2] = "DEVICE_DOWN"
    BY <1>1, <1>2, <2>1, <2>2 DEF DoomedUnvalidated, CreatedSuper
  <2>4. Len(signals') = 1 /\ signals'[1] = signals[2]
    BY <1>4, <2>3
  <2>5. signals' # <<>>
    BY <2>4
  <2>6. QED
    BY <1>1, <2>3, <2>4, <2>5, Zenon
<1>9. QED
  BY <1>4, <1>5, <1>6, <1>7, <1>8 DEF HsmInv

\* loading, unloading, activating and ac_deactivating move on when told.
LEMMA CompletedStep ==
  ASSUME HsmInv, signals # <<>>,
         loading \/ unloading \/ activating \/ ac_deactivating
  PROVE  HsmInv'
<1>1. /\ signals' = Tail(signals) \o <<>>
      /\ UNCHANGED <<devInfoValidated, image, qnn, live>>
      /\ Sig \in Completions
      /\ \/ state = "loading" /\ state' = "load_failed"
         \/ state = "loading" /\ Sig = "LOAD_COMPLETE" /\ state' = "loaded"
         \/ state = "unloading" /\ state' = "created"
         \/ state = "activating" /\ state' = "activate_failed"
         \/ state = "activating" /\ Sig = "ACTIVATE_COMPLETE" /\ state' = "ac_ready"
         \/ state = "ac_deactivating" /\ state' = "loaded"
  BY DEF loading, unloading, activating, ac_deactivating, Move, Post, Tran, Completions
<1>2. /\ HsmTypes /\ SuccessStands /\ HoldsWhatItUses /\ DoomedUnvalidated
      /\ Sig = signals[1] /\ Len(signals) \in Nat \ {0}
  BY HeadFacts DEF HsmInv
<1>3. \A i \in 2..Len(signals) : signals[i] \notin Completions
  BY <1>1, HeadFacts
<1>4. signals' \in Seq(Signals) /\ OutsideAlone' /\ OneCompletion'
  BY <1>1, <1>3, NothingPosted
<1>5. HsmTypes'
  BY <1>1, <1>2, <1>4
     DEF HsmTypes, HsmStates, CreatedSuper, LoadedSuper, ActiveSuper, ErrorSuper
<1>6. WaitEnds'
  BY <1>1 DEF WaitEnds
<1>7. Queued(Sig)
  BY <1>2 DEF Queued
<1>8. SuccessStands' /\ HoldsWhatItUses'
  BY <1>1, <1>2, <1>7 DEF SuccessStands, HoldsWhatItUses, LoadedSuper, ActiveSuper
<1>9. DoomedUnvalidated'
  BY <1>1, <1>2 DEF DoomedUnvalidated, Completions
<1>10. QED
  BY <1>4, <1>5, <1>6, <1>8, <1>9 DEF HsmInv

LEMMA EnterDeviceErrorStep ==
  ASSUME HsmInv, signals # <<>>, EnterDeviceError
  PROVE  HsmInv'
<1>1. PICK ok \in BOOLEAN :
        /\ state' = "device_error"
        /\ deactivate_action(ok)
        /\ devInfoValidated' = FALSE
        /\ signals' = Tail(signals) \o <<>>
        /\ UNCHANGED image
  BY DEF EnterDeviceError, Tran, Post
<1>2. HsmTypes
  BY DEF HsmInv
<1>3. signals' \in Seq(Signals) /\ OutsideAlone' /\ OneCompletion'
  BY <1>1, NothingPosted
<1>4. HsmTypes'
  BY <1>1, <1>2, <1>3 DEF HsmTypes, HsmStates, ErrorSuper, deactivate_action
<1>5. WaitEnds' /\ SuccessStands' /\ HoldsWhatItUses' /\ DoomedUnvalidated'
  BY <1>1 DEF WaitEnds, SuccessStands, HoldsWhatItUses, DoomedUnvalidated,
              LoadedSuper, ActiveSuper
<1>6. QED
  BY <1>3, <1>4, <1>5 DEF HsmInv

LEMMA DeviceErrorStep ==
  ASSUME HsmInv, signals # <<>>, device_error
  PROVE  HsmInv'
<1>1. PICK ok \in BOOLEAN :
        /\ devInfoValidated' = ok
        /\ state' = IF ok THEN "created" ELSE "device_error"
  BY DEF device_error, validate_action, Tran
<1>2. /\ signals' = Tail(signals) \o <<>> /\ Sig = "DEVICE_UP"
      /\ UNCHANGED <<image, qnn, live>>
  BY DEF device_error, Post
<1>3. HsmTypes
  BY DEF HsmInv
<1>4. \A i \in 2..Len(signals) : signals[i] \notin Completions
  BY <1>2, HeadFacts DEF Outside, Completions, Errors
<1>5. signals' \in Seq(Signals) /\ OutsideAlone' /\ OneCompletion'
  BY <1>2, <1>4, NothingPosted
<1>6. HsmTypes'
  BY <1>1, <1>2, <1>3, <1>5 DEF HsmTypes, HsmStates, ErrorSuper, CreatedSuper
<1>7. WaitEnds' /\ SuccessStands' /\ HoldsWhatItUses' /\ DoomedUnvalidated'
  BY <1>1 DEF WaitEnds, SuccessStands, HoldsWhatItUses, DoomedUnvalidated,
              LoadedSuper, ActiveSuper
<1>8. QED
  BY <1>5, <1>6, <1>7 DEF HsmInv

\* The two handlers that start loading.
LEMMA CreatedStep ==
  ASSUME HsmInv, signals # <<>>, created
  PROVE  HsmInv'
<1>1. PICK c \in {"LOAD_COMPLETE", "LOAD_FAILED"} :
        /\ signals' = Tail(signals) \o <<c>>
        /\ image' = (c = "LOAD_COMPLETE")
  <2>1. PICK ok \in BOOLEAN :
          /\ signals' = Tail(signals) \o (<<>> \o <<IF ok THEN "LOAD_COMPLETE" ELSE "LOAD_FAILED">>)
          /\ image' = ok
    BY DEF created, EnterLoading, Post, load_action
  <2>2. <<>> \o <<"LOAD_COMPLETE">> = <<"LOAD_COMPLETE">> /\ <<>> \o <<"LOAD_FAILED">> = <<"LOAD_FAILED">>
    OBVIOUS
  <2>3. CASE ok
    BY <2>1, <2>2, <2>3, Zenon
  <2>4. CASE ~ok
    BY <2>1, <2>2, <2>4
  <2>5. QED
    BY <2>3, <2>4
<1>2. /\ state = "created" /\ state' = "loading" /\ Sig = "LOAD"
      /\ UNCHANGED <<devInfoValidated, qnn, live>>
  BY DEF created, EnterLoading, Tran
<1>3. /\ HsmTypes /\ DoomedUnvalidated
      /\ Sig = signals[1] /\ Len(signals) \in Nat \ {0}
  BY HeadFacts DEF HsmInv
<1>4. \A i \in 1..Len(signals) : signals[i] \notin Completions
  BY <1>2, NoCompletion
<1>5. c \in Signals \ Outside /\ Awaits(c) = "loading" /\ Sig \notin Errors
  BY <1>2 DEF Signals, Outside, Awaits, Errors
<1>6. /\ signals' \in Seq(Signals)
      /\ Len(signals') = Len(signals)
      /\ \A i \in 1..Len(signals') : i < Len(signals) => signals'[i] = signals[i + 1]
      /\ Queued(c)'
      /\ \A d : Queued(d)' => Queued(d) \/ d = c
      /\ OutsideAlone' /\ OneCompletion'
  BY <1>1, <1>2, <1>4, <1>5, OnePosted
<1>7. HsmTypes'
  BY <1>1, <1>2, <1>3, <1>6 DEF HsmTypes, HsmStates, CreatedSuper
<1>8. WaitEnds'
  BY <1>2, <1>6 DEF WaitEnds
<1>9. SuccessStands' /\ HoldsWhatItUses'
  <2>1. ~Queued("LOAD_COMPLETE")
    BY <1>4 DEF Queued, Completions
  <2>2. QED
    BY <1>1, <1>2, <1>6, <2>1 DEF SuccessStands, HoldsWhatItUses, LoadedSuper, ActiveSuper
<1>10. DoomedUnvalidated'
  <2>1. SUFFICES ASSUME ~devInfoValidated
                 PROVE  signals' # <<>> /\ signals'[1] = "DEVICE_DOWN"
    BY <1>2 DEF DoomedUnvalidated
  <2>2. Len(signals) = 2 /\ signals[2] = "DEVICE_DOWN"
    BY <1>2, <1>3, <2>1 DEF DoomedUnvalidated
  <2>3. QED
    BY <1>6, <2>2
<1>11. QED
  BY <1>6, <1>7, <1>8, <1>9, <1>10 DEF HsmInv

\* A program in load_failed is validated: entering created_super changes nothing.
LEMMA LoadFailedStep ==
  ASSUME HsmInv, signals # <<>>, load_failed
  PROVE  HsmInv'
<1>1. PICK valid \in BOOLEAN, c \in {"LOAD_COMPLETE", "LOAD_FAILED"} :
        /\ devInfoValidated' = valid
        /\ signals' = Tail(signals) \o ((IF valid THEN <<>> ELSE <<"INIT_ERROR">>) \o <<c>>)
        /\ image' = (c = "LOAD_COMPLETE")
        /\ devInfoValidated => valid
  <2>1. PICK valid \in BOOLEAN :
          validate_action(valid) /\ EnterLoading(IF valid THEN <<>> ELSE <<"INIT_ERROR">>)
    BY DEF load_failed
  <2>2. PICK ok \in BOOLEAN :
          /\ signals' = Tail(signals) \o ((IF valid THEN <<>> ELSE <<"INIT_ERROR">>)
                                          \o <<IF ok THEN "LOAD_COMPLETE" ELSE "LOAD_FAILED">>)
          /\ image' = ok
    BY <2>1 DEF EnterLoading, Post, load_action
  <2>3. CASE ok
    BY <2>1, <2>2, <2>3, Zenon DEF validate_action
  <2>4. CASE ~ok
    BY <2>1, <2>2, <2>4 DEF validate_action
  <2>5. QED
    BY <2>3, <2>4
<1>2. /\ state = "load_failed" /\ state' = "loading" /\ Sig = "LOAD"
      /\ UNCHANGED <<qnn, live>>
  BY DEF load_failed, EnterLoading, Tran
<1>3. /\ HsmTypes /\ DoomedUnvalidated
      /\ Sig = signals[1] /\ Len(signals) \in Nat \ {0}
  BY HeadFacts DEF HsmInv
<1>4. devInfoValidated /\ valid
  BY <1>1, <1>2, <1>3 DEF DoomedUnvalidated
<1>5. signals' = Tail(signals) \o <<c>>
  <2>1. signals' = Tail(signals) \o (<<>> \o <<c>>)
    BY <1>1, <1>4
  <2>2. <<>> \o <<c>> = <<c>>
    OBVIOUS
  <2>3. QED
    BY <2>1, <2>2, Zenon
<1>6. \A i \in 1..Len(signals) : signals[i] \notin Completions
  BY <1>2, NoCompletion
<1>7. c \in Signals \ Outside /\ Awaits(c) = "loading" /\ Sig \notin Errors
  BY <1>2 DEF Signals, Outside, Awaits, Errors
<1>8. /\ signals' \in Seq(Signals)
      /\ Queued(c)'
      /\ \A d : Queued(d)' => Queued(d) \/ d = c
      /\ OutsideAlone' /\ OneCompletion'
  BY <1>2, <1>5, <1>6, <1>7, OnePosted
<1>9. HsmTypes'
  BY <1>1, <1>2, <1>3, <1>8 DEF HsmTypes, HsmStates, CreatedSuper
<1>10. WaitEnds'
  BY <1>2, <1>8 DEF WaitEnds
<1>11. SuccessStands' /\ HoldsWhatItUses'
  <2>1. ~Queued("LOAD_COMPLETE")
    BY <1>6 DEF Queued, Completions
  <2>2. QED
    BY <1>1, <1>2, <1>8, <2>1 DEF SuccessStands, HoldsWhatItUses, LoadedSuper, ActiveSuper
<1>12. DoomedUnvalidated'
  BY <1>1, <1>4 DEF DoomedUnvalidated
<1>13. QED
  BY <1>8, <1>9, <1>10, <1>11, <1>12 DEF HsmInv

LEMMA EnterActivatingStep ==
  ASSUME HsmInv, signals # <<>>, EnterActivating, Sig = "ACTIVATE",
         state \in {"loaded", "activate_failed"}
  PROVE  HsmInv'
<1>1. PICK c \in {"ACTIVATE_COMPLETE", "ACTIVATE_FAILED"} :
        /\ signals' = Tail(signals) \o <<c>>
        /\ qnn' \in Networks \cup {NoNet}
        /\ live' \subseteq live \cup Networks
        /\ c = "ACTIVATE_COMPLETE" => qnn' \in live'
  <2>1. PICK n \in Networks \cup {NoNet} :
          /\ activate_action(n)
          /\ signals' = Tail(signals)
               \o <<IF n # NoNet THEN "ACTIVATE_COMPLETE" ELSE "ACTIVATE_FAILED">>
    BY DEF EnterActivating, Post
  <2>2. qnn' = n /\ live' = live \cup ({n} \ {NoNet})
    BY <2>1 DEF activate_action
  <2>3. CASE n # NoNet
    BY <2>1, <2>2, <2>3
  <2>4. CASE n = NoNet
    BY <2>1, <2>2, <2>4
  <2>5. QED
    BY <2>3, <2>4
<1>2. state' = "activating" /\ UNCHANGED <<devInfoValidated, image>>
  BY DEF EnterActivating, Tran
<1>3. HsmTypes /\ HoldsWhatItUses /\ DoomedUnvalidated
  BY DEF HsmInv
<1>4. \A i \in 1..Len(signals) : signals[i] \notin Completions
  BY NoCompletion
<1>5. c \in Signals \ Outside /\ Awaits(c) = "activating" /\ Sig \notin Errors
  BY DEF Signals, Outside, Awaits, Errors
<1>6. /\ signals' \in Seq(Signals)
      /\ Queued(c)'
      /\ \A d : Queued(d)' => Queued(d) \/ d = c
      /\ OutsideAlone' /\ OneCompletion'
  <2>1. \A i \in 2..Len(signals) : signals[i] \notin Completions
    BY <1>4
  <2>2. c \in Completions
    BY DEF Completions
  <2>3. QED
    BY <1>1, <1>2, <1>5, <2>1, <2>2, OnePosted
<1>7. HsmTypes'
  BY <1>1, <1>2, <1>3, <1>6 DEF HsmTypes, HsmStates, CreatedSuper, LoadedSuper
<1>8. WaitEnds'
  BY <1>2, <1>6 DEF WaitEnds
<1>9. SuccessStands' /\ HoldsWhatItUses'
  <2>1. ~Queued("ACTIVATE_COMPLETE")
    BY <1>4 DEF Queued, Completions
  <2>2. QED
    BY <1>1, <1>2, <1>3, <1>6, <2>1 DEF SuccessStands, HoldsWhatItUses, LoadedSuper, ActiveSuper
<1>10. DoomedUnvalidated'
  BY <1>2, <1>3 DEF DoomedUnvalidated
<1>11. QED
  BY <1>6, <1>7, <1>8, <1>9, <1>10 DEF HsmInv

LEMMA LoadedStep ==
  ASSUME HsmInv, signals # <<>>, loaded
  PROVE  HsmInv'
<1>1. CASE Sig = "ACTIVATE"
  BY <1>1, EnterActivatingStep DEF loaded
<1>2. CASE Sig # "ACTIVATE"
  <2>1. /\ state = "loaded" /\ Sig = "UNLOAD"
        /\ state' = "unloading" /\ image' = FALSE
        /\ signals' = Tail(signals) \o <<"UNLOAD_COMPLETE">>
        /\ UNCHANGED <<devInfoValidated, qnn, live>>
    BY <1>2 DEF loaded, Tran, Post, unload_action
  <2>2. HsmTypes /\ DoomedUnvalidated
    BY DEF HsmInv
  <2>3. \A i \in 2..Len(signals) : signals[i] \notin Completions
    BY <2>1, NoCompletion
  <2>4. /\ "UNLOAD_COMPLETE" \in Signals \ Outside
        /\ Awaits("UNLOAD_COMPLETE") = "unloading" /\ Sig \notin Errors
    BY <2>1 DEF Signals, Outside, Awaits, Errors
  <2>5. /\ signals' \in Seq(Signals)
        /\ Queued("UNLOAD_COMPLETE")'
        /\ OutsideAlone' /\ OneCompletion'
    BY <2>1, <2>3, <2>4, OnePosted
  <2>6. HsmTypes'
    BY <2>1, <2>2, <2>5 DEF HsmTypes, HsmStates, CreatedSuper
  <2>7. WaitEnds' /\ SuccessStands' /\ HoldsWhatItUses'
    BY <2>1, <2>5 DEF WaitEnds, SuccessStands, HoldsWhatItUses, LoadedSuper, ActiveSuper
  <2>8. DoomedUnvalidated'
    BY <2>1, <2>2 DEF DoomedUnvalidated
  <2>9. QED
    BY <2>5, <2>6, <2>7, <2>8 DEF HsmInv
<1>3. QED
  BY <1>1, <1>2

LEMMA ActivateFailedStep ==
  ASSUME HsmInv, signals # <<>>, activate_failed
  PROVE  HsmInv'
BY EnterActivatingStep DEF activate_failed

\* The DEACTIVATE of a caller: nothing but errors is queued behind it.
LEMMA ActiveSuperStep ==
  ASSUME HsmInv, signals # <<>>, active_super
  PROVE  HsmInv'
<1>1. PICK c \in {"DEACTIVATE_COMPLETE", "DEVICE_DOWN"}, ok \in BOOLEAN :
        /\ signals' = Tail(signals) \o <<c>>
        /\ deactivate_action(ok)
  <2>1. PICK ok \in BOOLEAN :
          /\ deactivate_action(ok)
          /\ signals' = Tail(signals)
               \o <<IF ok THEN "DEACTIVATE_COMPLETE" ELSE "DEVICE_DOWN">>
    BY DEF active_super, Post
  <2>2. QED
    BY <2>1, Zenon
<1>2. /\ state \in ActiveSuper /\ Sig = "DEACTIVATE"
      /\ state' = "ac_deactivating"
      /\ UNCHANGED <<devInfoValidated, image>>
  BY DEF active_super, Tran
<1>3. HsmTypes /\ HoldsWhatItUses /\ DoomedUnvalidated
  BY DEF HsmInv
<1>4. \A i \in 2..Len(signals) : signals[i] \notin Completions
  BY <1>2, HeadFacts DEF Outside, Errors, Completions
<1>5. c \in Signals \ Outside /\ (c \in Completions => Awaits(c) = "ac_deactivating")
      /\ Sig \notin Errors
  BY <1>2 DEF Signals, Outside, Awaits, Errors, Completions
<1>6. /\ signals' \in Seq(Signals)
      /\ Queued(c)'
      /\ OutsideAlone' /\ OneCompletion'
  BY <1>1, <1>2, <1>4, <1>5, OnePosted
<1>7. HsmTypes'
  BY <1>1, <1>2, <1>3, <1>6
     DEF HsmTypes, HsmStates, CreatedSuper, LoadedSuper, ActiveSuper, deactivate_action
<1>8. WaitEnds'
  BY <1>2, <1>6 DEF WaitEnds
<1>9. SuccessStands' /\ HoldsWhatItUses'
  BY <1>2, <1>3 DEF SuccessStands, HoldsWhatItUses, LoadedSuper, ActiveSuper
<1>10. DoomedUnvalidated'
  BY <1>2, <1>3 DEF DoomedUnvalidated, ActiveSuper
<1>11. QED
  BY <1>6, <1>7, <1>8, <1>9, <1>10 DEF HsmInv

\* INIT_ERROR becomes DEVICE_DOWN; ACTIVATE goes round behind a LOAD.
LEMMA CreatedSuperStep ==
  ASSUME HsmInv, signals # <<>>, created_super
  PROVE  HsmInv'
<1>1. /\ HsmTypes /\ WaitEnds /\ SuccessStands /\ HoldsWhatItUses /\ DoomedUnvalidated
      /\ Sig = signals[1] /\ Len(signals) \in Nat \ {0}
  BY HeadFacts DEF HsmInv
<1>2. state \in CreatedSuper
  BY DEF created_super
<1>3. CASE Sig = "INIT_ERROR"
  <2>1. /\ signals' = Tail(signals) \o <<"DEVICE_DOWN">>
        /\ UNCHANGED <<state, devInfoValidated, image, qnn, live>>
    BY <1>3 DEF created_super, Repost, Post
  <2>2. \A i \in 2..Len(signals) : signals[i] \in Completions =>
          state' \in {Awaits(signals[i]), "device_error"}
    BY <2>1, HeadFacts
  <2>3. /\ "DEVICE_DOWN" \in Signals \ Outside /\ "DEVICE_DOWN" \notin Completions
        /\ "DEVICE_DOWN" \in Errors
    BY DEF Signals, Outside, Errors, Completions
  <2>4. /\ signals' \in Seq(Signals)
        /\ Len(signals') = Len(signals)
        /\ signals'[Len(signals)] = "DEVICE_DOWN"
        /\ \A d : Queued(d) /\ signals[1] # d => Queued(d)'
        /\ \A d : Queued(d)' => Queued(d) \/ d = "DEVICE_DOWN"
        /\ OutsideAlone' /\ OneCompletion'
    BY <2>1, <2>2, <2>3, OnePosted
  <2>5. HsmTypes'
    BY <1>1, <2>1, <2>4 DEF HsmTypes
  <2>6. WaitEnds'
    BY <1>1, <1>3, <2>1, <2>4 DEF WaitEnds
  <2>7. SuccessStands' /\ HoldsWhatItUses'
    BY <1>1, <2>1, <2>4 DEF SuccessStands, HoldsWhatItUses
  <2>8. DoomedUnvalidated'
    <3>1. SUFFICES ASSUME ~devInfoValidated PROVE DoomedUnvalidated'
      BY <2>1 DEF DoomedUnvalidated
    <3>2. state = "created" /\ Len(signals) \in {1, 2}
      <4>1. state = "created" /\ Len(signals) <= 2
        BY <1>1, <1>2, <1>3, <3>1 DEF DoomedUnvalidated, CreatedSuper, LoadedSuper, ActiveSuper
      <4>2. \A x \in Nat \ {0} : x <= 2 => x \in {1, 2}
        OBVIOUS
      <4>3. QED
        BY <1>1, <4>1, <4>2, Zenon
    <3>3. signals' # <<>>
      BY <1>1, <2>4
    <3>4. \/ signals'[1] = "DEVICE_DOWN"
          \/ Len(signals') = 2 /\ signals'[2] = "DEVICE_DOWN"
      BY <2>4, <3>2
    <3>5. QED
      BY <2>1, <3>2, <3>3, <3>4 DEF DoomedUnvalidated
  <2>9. QED
    BY <2>4, <2>5, <2>6, <2>7, <2>8 DEF HsmInv
<1>4. CASE Sig = "ACTIVATE"
  <2>1. /\ signals' = Tail(signals) \o <<"LOAD", "ACTIVATE">>
        /\ UNCHANGED <<state, devInfoValidated, image, qnn, live>>
    BY <1>4 DEF created_super, Repost, Post
  <2>2. \A i \in 2..Len(signals) : signals[i] \in Completions =>
          state' \in {Awaits(signals[i]), "device_error"}
    BY <2>1, HeadFacts
  <2>3. /\ "LOAD" \in Signals \ Outside /\ "LOAD" \notin Completions
        /\ "ACTIVATE" \in Signals \ Outside /\ "ACTIVATE" \notin Completions
        /\ Sig \notin Errors
    BY <1>4 DEF Signals, Outside, Errors, Completions
  <2>4. /\ signals' \in Seq(Signals)
        /\ Len(signals') = Len(signals) + 1
        /\ \A i \in 1..Len(signals') : i < Len(signals) => signals'[i] = signals[i + 1]
        /\ \A d : Queued(d) /\ signals[1] # d => Queued(d)'
        /\ \A d : Queued(d)' => Queued(d) \/ d = "LOAD" \/ d = "ACTIVATE"
        /\ OutsideAlone' /\ OneCompletion'
    BY <2>1, <2>2, <2>3, TwoPosted
  <2>5. HsmTypes'
    BY <1>1, <2>1, <2>4 DEF HsmTypes
  <2>6. WaitEnds'
    BY <1>1, <1>4, <2>1, <2>4 DEF WaitEnds
  <2>7. SuccessStands' /\ HoldsWhatItUses'
    BY <1>1, <2>1, <2>4 DEF SuccessStands, HoldsWhatItUses
  <2>8. DoomedUnvalidated'
    <3>1. SUFFICES ASSUME ~devInfoValidated PROVE DoomedUnvalidated'
      BY <2>1 DEF DoomedUnvalidated
    <3>2. state = "created" /\ Len(signals) = 2 /\ signals[2] = "DEVICE_DOWN"
      BY <1>1, <1>2, <1>4, <3>1 DEF DoomedUnvalidated, CreatedSuper, LoadedSuper, ActiveSuper
    <3>3. signals' # <<>>
      BY <2>4, <3>2
    <3>4. signals'[1] = "DEVICE_DOWN"
      BY <2>4, <3>2
    <3>5. QED
      BY <2>1, <3>2, <3>3, <3>4 DEF DoomedUnvalidated
  <2>9. QED
    BY <2>4, <2>5, <2>6, <2>7, <2>8 DEF HsmInv
<1>5. CASE Sig \notin {"INIT_ERROR", "ACTIVATE"}
  BY <1>5, EnterDeviceErrorStep DEF created_super
<1>6. QED
  BY <1>3, <1>4, <1>5

LEMMA HandlerStep ==
  ASSUME HsmInv, signals # <<>>, Handler
  PROVE  HsmInv'
BY TopStep, CompletedStep, DeviceErrorStep, CreatedStep, LoadFailedStep, LoadedStep,
   ActivateFailedStep, ActiveSuperStep, CreatedSuperStep
   DEF Handler

-----------------------------------------------------------------------------
(* The calls.                                                              *)

ApiTypes ==
  /\ execObjs \subseteq ExecObjs
  /\ holder \in Threads \cup {Events, Nobody}
  /\ op \in Ops \cup {"none"}
  /\ (holder = Nobody) <=> (op = "none")
  /\ cleared \subseteq Threads
  /\ object \in {"alive", "deactivating", "closing", "gone"}
  /\ last \in [op : Ops \cup {"none"}, ok : BOOLEAN]
  /\ published \in [state : HsmStates, qnn : Networks \cup {NoNet},
                    live : SUBSET Networks, initError : BOOLEAN]

LEMMA IInvParts == IInv <=> HsmInv /\ ApiTypes /\ IdleQueue
BY DEF IInv, HsmInv, HsmTypes, ApiTypes, TypeOK

\* The same of the next state.
LEMMA IInvPartsNext == IInv' <=> HsmInv' /\ ApiTypes' /\ IdleQueue'
BY DEF IInv, HsmInv, HsmTypes, ApiTypes, TypeOK

LEMMA HsmUnchanged ==
  ASSUME HsmInv, UNCHANGED hsm
  PROVE  HsmInv'
BY DEF hsm, HsmInv, HsmTypes, OutsideAlone, OneCompletion, WaitEnds, Queued,
       SuccessStands, HoldsWhatItUses, DoomedUnvalidated

\* A machine with nothing to do, or only the error of its creation, rests.
LEMMA AtRest ==
  ASSUME HsmInv, signals = <<>> \/ (signals = <<"INIT_ERROR">> /\ state = "created")
  PROVE  state \in RestStates
<1>1. CASE signals = <<>>
  <2>1. \A c : ~Queued(c)
    BY <1>1 DEF Queued
  <2>2. QED
    BY <2>1 DEF HsmInv, HsmTypes, WaitEnds, RestStates, HsmStates, CreatedSuper,
                LoadedSuper, ActiveSuper, ErrorSuper
<1>2. CASE state = "created"
  BY <1>2 DEF RestStates
<1>3. QED
  BY <1>1, <1>2

\* A signal posted to a machine at rest.
LEMMA PostAtRest ==
  ASSUME HsmInv, signals = <<>> \/ (signals = <<"INIT_ERROR">> /\ state = "created"),
         NEW sig \in Signals \ Completions,
         signals' = Append(signals, sig),
         UNCHANGED <<state, devInfoValidated, image, qnn, live>>
  PROVE  HsmInv'
<1>1. state \in RestStates
  BY AtRest
<1>2. HsmTypes /\ HoldsWhatItUses /\ DoomedUnvalidated
  BY DEF HsmInv
<1>3. HsmTypes'
  BY <1>2 DEF HsmTypes
<1>4. WaitEnds' /\ SuccessStands' /\ HoldsWhatItUses'
  BY <1>1, <1>2 DEF WaitEnds, SuccessStands, HoldsWhatItUses, RestStates
<1>5. CASE signals = <<>>
  <2>1. Len(signals') = 1 /\ signals'[1] = sig
    BY <1>5
  <2>2. \A i \in 1..Len(signals') : i = 1 /\ signals'[i] = sig
    BY <2>1
  <2>3. OutsideAlone' /\ OneCompletion'
    BY <2>2 DEF OutsideAlone, OneCompletion
  <2>4. DoomedUnvalidated'
    BY <1>1, <1>2, <1>5 DEF DoomedUnvalidated, RestStates
  <2>5. QED
    BY <1>3, <1>4, <2>3, <2>4 DEF HsmInv
<1>6. CASE signals = <<"INIT_ERROR">> /\ state = "created"
  <2>1. Len(signals') = 2 /\ signals'[1] = "INIT_ERROR" /\ signals'[2] = sig
    BY <1>6
  <2>2. \A i \in 1..Len(signals') :
          (i = 1 /\ signals'[i] = "INIT_ERROR") \/ (i = 2 /\ signals'[i] = sig)
    BY <2>1
  <2>3. OutsideAlone' /\ OneCompletion'
    BY <2>2 DEF OutsideAlone, OneCompletion, Outside, Errors, Completions
  <2>4. DoomedUnvalidated'
    BY <1>6, <2>1 DEF DoomedUnvalidated
  <2>5. QED
    BY <1>3, <1>4, <2>3, <2>4 DEF HsmInv
<1>7. QED
  BY <1>5, <1>6

LEMMA LockStep ==
  ASSUME IInv, NEW t \in Threads \cup {Events}, NEW call \in Ops,
         NEW sig \in Signals \ Completions, Lock(t, call, sig),
         cleared' \subseteq Threads,
         object' \in {"alive", "deactivating", "closing", "gone"}
  PROVE  IInv'
<1>1. HsmInv /\ ApiTypes /\ IdleQueue
  BY IInvParts
<1>2. HsmInv'
  BY <1>1, PostAtRest DEF Lock, Free, IdleQueue
<1>3. holder' # Nobody /\ call # "none"
  BY ThreadsAssumption DEF Lock, Ops
<1>4. ApiTypes' /\ IdleQueue'
  BY <1>1, <1>3 DEF Lock, ApiTypes, IdleQueue
<1>5. QED
  BY <1>2, <1>4, IInvPartsNext

\* A step that leaves the machine and the lock alone.
LEMMA AsideStep ==
  ASSUME IInv, UNCHANGED <<hsm, holder, op, published>>,
         execObjs' \subseteq ExecObjs, cleared' \subseteq Threads,
         object' \in {"alive", "deactivating", "closing", "gone"},
         last' \in [op : Ops \cup {"none"}, ok : BOOLEAN]
  PROVE  IInv'
<1>1. HsmInv /\ ApiTypes /\ IdleQueue
  BY IInvParts
<1>2. HsmInv'
  BY <1>1, HsmUnchanged
<1>3. ApiTypes' /\ IdleQueue'
  BY <1>1 DEF ApiTypes, IdleQueue, hsm
<1>4. QED
  BY <1>2, <1>3, IInvPartsNext

LEMMA EarlyStep ==
  ASSUME IInv, NEW call \in Ops, NEW ok \in BOOLEAN, Early(call, ok)
  PROVE  IInv'
<1>1. [op |-> call, ok |-> ok] \in [op : Ops \cup {"none"}, ok : BOOLEAN]
  OBVIOUS
<1>2. ApiTypes
  BY IInvParts
<1>3. QED
  BY <1>1, <1>2, AsideStep DEF Early, ApiTypes

LEMMA DispatchStep ==
  ASSUME IInv, Dispatch
  PROVE  IInv'
<1>1. HsmInv /\ ApiTypes /\ IdleQueue
  BY IInvParts
<1>2. HsmInv'
  BY <1>1, HandlerStep DEF Dispatch
<1>3. ApiTypes' /\ IdleQueue'
  BY <1>1 DEF Dispatch, api, ApiTypes, IdleQueue
<1>4. QED
  BY <1>2, <1>3, IInvPartsNext

LEMMA UnloadAfterDeactivateStep ==
  ASSUME IInv, UnloadAfterDeactivate
  PROVE  IInv'
<1>1. HsmInv /\ ApiTypes /\ IdleQueue
  BY IInvParts
<1>2. signals = <<>> /\ signals' = Append(signals, "UNLOAD")
  BY DEF UnloadAfterDeactivate
<1>3. "UNLOAD" \in Signals \ Completions
  BY DEF Signals, Completions
<1>4. HsmInv'
  BY <1>1, <1>2, <1>3, PostAtRest DEF UnloadAfterDeactivate
<1>5. holder # Nobody
  BY <1>1 DEF UnloadAfterDeactivate, ApiTypes
<1>6. ApiTypes' /\ IdleQueue'
  BY <1>1, <1>5 DEF UnloadAfterDeactivate, ApiTypes, IdleQueue, Ops
<1>7. QED
  BY <1>4, <1>6, IInvPartsNext

LEMMA ReturnStep ==
  ASSUME IInv, Return
  PROVE  IInv'
<1>1. HsmInv /\ ApiTypes /\ IdleQueue
  BY IInvParts
<1>2. HsmInv'
  BY <1>1, HsmUnchanged DEF Return
<1>3. Succeeded \in BOOLEAN
  <2>1. CASE op = "load"
    BY <2>1 DEF Succeeded
  <2>2. CASE op = "activate"
    BY <2>2 DEF Succeeded
  <2>3. CASE op \in {"unload", "deactivate"}
    BY <2>3 DEF Succeeded
  <2>4. CASE op \notin {"load", "activate", "unload", "deactivate"}
    BY <2>4 DEF Succeeded
  <2>5. QED
    BY <2>1, <2>2, <2>3, <2>4
<1>4. last' \in [op : Ops \cup {"none"}, ok : BOOLEAN]
  BY <1>1, <1>3 DEF Return, ApiTypes
<1>5. published' \in [state : HsmStates, qnn : Networks \cup {NoNet},
                      live : SUBSET Networks, initError : BOOLEAN]
  BY <1>1 DEF Return, Snapshot, HsmInv, HsmTypes
<1>6. ApiTypes' /\ IdleQueue'
  BY <1>1, <1>4, <1>5 DEF Return, ApiTypes, IdleQueue, hsm
<1>7. QED
  BY <1>2, <1>6, IInvPartsNext

LEMMA InvInit == Init => IInv
<1> SUFFICES ASSUME Init PROVE IInv
  OBVIOUS
<1>1. TypeOK
  BY TypeInit
<1>2. /\ state = "created" /\ qnn = NoNet /\ holder = Nobody
      /\ signals = IF devInfoValidated THEN <<>> ELSE <<"INIT_ERROR">>
      /\ devInfoValidated \in BOOLEAN
  BY DEF Init
<1>3. IdleQueue
  BY <1>2 DEF IdleQueue
<1>4. WaitEnds /\ SuccessStands /\ HoldsWhatItUses
  BY <1>2 DEF WaitEnds, SuccessStands, HoldsWhatItUses, LoadedSuper, ActiveSuper
<1>5. \A i \in 1..Len(signals) : i = 1 /\ signals[i] = "INIT_ERROR"
  BY <1>2
<1>6. OutsideAlone /\ OneCompletion
  BY <1>5 DEF OutsideAlone, OneCompletion, Outside, Completions
<1>7. DoomedUnvalidated
  BY <1>2 DEF DoomedUnvalidated
<1>8. QED
  BY <1>1, <1>3, <1>4, <1>6, <1>7 DEF IInv

LEMMA CallStep ==
  ASSUME IInv, NEW t \in Threads,
         \/ load(t) \/ activate(t) \/ unload(t)
         \/ processDeactivateCmd(t) \/ deactivate(t) \/ DestroyDeactivate(t)
  PROVE  IInv'
<1>1. ApiTypes
  BY IInvParts
<1>2. /\ {"load", "activate", "unload", "unload_deactivate", "deactivate", "destroy"} \subseteq Ops
      /\ {"LOAD", "ACTIVATE", "UNLOAD", "DEACTIVATE"} \subseteq Signals \ Completions
  BY DEF Ops, Signals, Completions
<1>3. CASE load(t)
  BY <1>1, <1>2, <1>3, LockStep, EarlyStep DEF load, ApiTypes
<1>4. CASE activate(t)
  BY <1>1, <1>2, <1>4, LockStep, EarlyStep DEF activate, ApiTypes
<1>5. CASE unload(t)
  <2>1. CASE state \in ActiveSuper /\ execObjs # {}
    BY <1>2, <1>5, <2>1, EarlyStep DEF unload
  <2>2. CASE state \in ActiveSuper /\ execObjs = {}
    BY <1>1, <1>2, <1>5, <2>2, LockStep DEF unload, ApiTypes
  <2>3. CASE state \notin ActiveSuper
    BY <1>1, <1>2, <1>5, <2>3, LockStep DEF unload, ApiTypes
  <2>4. QED
    BY <2>1, <2>2, <2>3
<1>6. CASE processDeactivateCmd(t)
  <2>1. CASE execObjs # {}
    BY <1>2, <1>6, <2>1, EarlyStep DEF processDeactivateCmd
  <2>2. CASE execObjs = {}
    BY <1>1, <1>6, <2>2, AsideStep DEF processDeactivateCmd, ApiTypes
  <2>3. QED
    BY <2>1, <2>2
<1>7. CASE deactivate(t)
  BY <1>1, <1>2, <1>7, LockStep DEF deactivate, ApiTypes
<1>8. CASE DestroyDeactivate(t)
  BY <1>1, <1>2, <1>8, LockStep DEF DestroyDeactivate, ApiTypes
<1>9. QED
  BY <1>3, <1>4, <1>5, <1>6, <1>7, <1>8

LEMMA NotifyStep ==
  ASSUME IInv, notifyDeviceStateInfo
  PROVE  IInv'
<1>1. ApiTypes
  BY IInvParts
<1>2. PICK e \in DeviceEvents :
        Lock(Events, "notify", e.sig) /\ UNCHANGED <<cleared, object>>
  BY DEF notifyDeviceStateInfo
<1>3. e.sig \in Signals \ Completions /\ "notify" \in Ops
  BY DEF DeviceEvents, Signals, Completions, Ops
<1>4. QED
  BY <1>1, <1>2, <1>3, LockStep DEF ApiTypes

LEMMA InvNext == IInv /\ [Next]_vars => IInv'
<1> SUFFICES ASSUME IInv, [Next]_vars PROVE IInv'
  OBVIOUS
<1>1. ApiTypes
  BY IInvParts
<1>2. ASSUME NEW t \in Threads,
             \/ load(t) \/ activate(t) \/ unload(t)
             \/ processDeactivateCmd(t) \/ deactivate(t) \/ DestroyDeactivate(t)
      PROVE  IInv'
  BY <1>2, CallStep
<1>3. ASSUME NEW e \in ExecObjs, registerExecObj(e) \/ unregisterExecObj(e)
      PROVE  IInv'
  BY <1>1, <1>3, AsideStep DEF registerExecObj, unregisterExecObj, ApiTypes
<1>4. CASE unRegisterNotifyDeviceStateInfo
  BY <1>1, <1>4, AsideStep DEF unRegisterNotifyDeviceStateInfo, ApiTypes
<1>5. CASE UNCHANGED vars
  BY <1>1, <1>5, AsideStep DEF vars, api, ApiTypes
<1>7. CASE Destroy
  BY <1>1, <1>7, AsideStep DEF Destroy, ApiTypes
<1>6. QED
  BY <1>2, <1>3, <1>4, <1>5, <1>7, NotifyStep, DispatchStep, UnloadAfterDeactivateStep,
     ReturnStep DEF Next, Gone

-----------------------------------------------------------------------------
(* Theorems.                                                               *)

\* The inductive invariant: what may be queued together, in which state, and
\* with which of the program's image, network and validation in place.
THEOREM Invariance == Spec => []IInv
BY InvInit, InvNext, PTL DEF Spec

\* Every variable of a program keeps its type, through any interleaving of
\* calls, device replies and device events.
THEOREM TypeCorrect == Spec => []TypeOK
<1>1. IInv => TypeOK
  BY DEF IInv
<1>2. QED
  BY <1>1, Invariance, PTL

\* run() leaves no work behind: whoever locks programMutex_ finds the program in
\* a resting state, and no queued signal but the error of a failed creation.
THEOREM MachineRests == Spec => []RestsWhenUnlocked
<1>1. IInv => RestsWhenUnlocked
  BY IInvParts, AtRest DEF RestsWhenUnlocked, IdleQueue
<1>2. QED
  BY <1>1, Invariance, PTL

\* A loaded program holds its image and a ready one a network that is still
\* active: no completion is ever seen by a state it was not meant for.
THEOREM UsesAreHeld == Spec => []HoldsWhatItUses
<1>1. IInv => HoldsWhatItUses
  BY DEF IInv
<1>2. QED
  BY <1>1, Invariance, PTL

\* A pending INIT_ERROR stops every load: no program is loaded on a device that
\* was not validated, whatever calls and events come before the error is seen.
THEOREM ValidatedFirst == Spec => []NeverLoadedUnvalidated
<1>1. IInv => NeverLoadedUnvalidated
  BY DEF IInv, DoomedUnvalidated, NeverLoadedUnvalidated, LoadedSuper, ActiveSuper,
         TypeOK
<1>2. QED
  BY <1>1, Invariance, PTL

-----------------------------------------------------------------------------
(* ProgramLifecycle.  The network, against that of the machine as the last *)
(* unlock left it.                                                         *)

Untouched == qnn = published.qnn /\ live = published.live
TornDown  == qnn = NoNet /\ live = published.live \ {published.qnn}
Refused   == published.qnn # NoNet /\ DeactivateMayFail /\ Untouched
Activated == qnn \in Networks \ published.live /\ live = published.live \cup {qnn}
Inactive  == qnn = NoNet /\ live = published.live

-----------------------------------------------------------------------------
(* What the thread that holds programMutex_ is in the middle of.           *)

At(s, queue) == state = s /\ signals = queue
LoadReplies == {"LOAD_COMPLETE", "LOAD_FAILED"}

\* The signals a call posts.
Posts(call) ==
  CASE call = "load"                                          -> {"LOAD"}
    [] call = "activate"                                      -> {"ACTIVATE"}
    [] call = "unload"                                        -> {"UNLOAD"}
    [] call \in {"unload_deactivate", "deactivate", "destroy"} -> {"DEACTIVATE"}
    [] call = "notify"                -> {"DEVICE_DOWN", "DEVICE_UP", "VC_DOWN", "VC_UP"}

\* Resting states in which a call may find nothing to do.
Idles(call) ==
  CASE call = "load"       -> {"device_error"}
    [] call = "activate"   -> ErrorSuper
    [] call = "unload"     -> ErrorSuper \cup {"created", "activate_failed"}
    [] call \in {"deactivate", "destroy"} -> RestStates \ {"ac_ready"}
    [] call = "notify"     -> RestStates
    [] OTHER               -> {}

NothingToDo ==
  /\ published.state \in Idles(op) /\ Untouched
  /\ \/ At(published.state, <<>>)
     \/ \E s \in Posts(op) :
          At(published.state, <<s>>) /\ s \notin Handles(published.state)

Loads ==
  /\ published.state \in {"created", "load_failed"} /\ Untouched
  /\ \/ At(published.state, <<"LOAD">>)
     \/ \E c \in LoadReplies : At("loading", <<c>>)
     \/ At("loaded", <<>>)
     \/ At("load_failed", <<>>)

\* The image is loaded on the way to a network, again and again if need be.
LoadsFirst ==
  /\ published.state = "created" /\ Untouched
  /\ \/ At("created", <<"ACTIVATE">>)
     \/ At("created", <<"LOAD", "ACTIVATE">>)
     \/ \E c \in LoadReplies :
          At("loading", <<"ACTIVATE", c>>) \/ At("loading", <<c, "LOAD", "ACTIVATE">>)
     \/ At("load_failed", <<"LOAD", "ACTIVATE">>)
     \/ At("loaded", <<"LOAD", "ACTIVATE">>)
     \/ At("loaded", <<"ACTIVATE">>)

Activates ==
  /\ published.state \in {"created", "loaded", "activate_failed"}
  /\ \/ LoadsFirst
     \/ published.state # "created" /\ Untouched /\ At(published.state, <<"ACTIVATE">>)
     \/ Activated /\ (At("activating", <<"ACTIVATE_COMPLETE">>) \/ At("ac_ready", <<>>))
     \/ Inactive /\ (At("activating", <<"ACTIVATE_FAILED">>) \/ At("activate_failed", <<>>))

Deactivates ==
  /\ published.state = "ac_ready"
  /\ \/ Untouched /\ At("ac_ready", <<"DEACTIVATE">>)
     \/ TornDown /\ (At("ac_deactivating", <<"DEACTIVATE_COMPLETE">>) \/ At("loaded", <<>>))
     \/ Refused /\ At("ac_deactivating", <<"DEVICE_DOWN">>)
     \/ DeactivateMayFail /\ (TornDown \/ Refused) /\ At("device_error", <<>>)

Unloads ==
  \/ /\ \/ published.state = "loaded" /\ Untouched
        \/ published.state = "ac_ready" /\ TornDown
     /\ \/ At("loaded", <<"UNLOAD">>) \/ At("unloading", <<"UNLOAD_COMPLETE">>)
        \/ At("created", <<>>)
  \/ /\ published.state = "ac_ready" /\ DeactivateMayFail /\ (TornDown \/ Refused)
     /\ At("device_error", <<"UNLOAD">>) \/ At("device_error", <<>>)

Notified ==
  \/ /\ published.state \in CreatedSuper
     /\ \/ Untouched /\ At(published.state, <<"DEVICE_DOWN">>)
        \/ (TornDown \/ Refused) /\ At("device_error", <<>>)
  \/ /\ published.state = "device_error" /\ Untouched
     /\ At("device_error", <<"DEVICE_UP">>) \/ At("created", <<>>)

\* The error of a failed creation overtakes whatever the first call posts.
FirstCallFails ==
  /\ published.state = "created" /\ published.qnn = NoNet /\ published.live = {}
  /\ Untouched /\ op \in Ops \ {"unload_deactivate", "destroy"}
  /\ \/ \E s \in Posts(op) :
          At("created", <<"INIT_ERROR", s>>) \/ At("created", <<s, "DEVICE_DOWN">>)
     \/ At("created", <<"DEVICE_DOWN">>)
     \/ At("created", <<"DEVICE_DOWN", "LOAD", "ACTIVATE">>)
     \/ \E c \in LoadReplies : At("loading", <<"DEVICE_DOWN", c>>)
     \/ At("device_error", <<>>)
     \/ \E s \in Signals \ {"DEVICE_UP"} : At("device_error", <<s>>)
     \/ At("device_error", <<"LOAD", "ACTIVATE">>)

CallProceeds ==
  \/ NothingToDo
  \/ op = "load" /\ Loads
  \/ op = "activate" /\ Activates
  \/ op = "unload" /\ Unloads
  \/ op \in {"unload_deactivate", "deactivate", "destroy"} /\ Deactivates
  \/ op = "notify" /\ Notified

Midway ==
  holder # Nobody =>
    IF published.initError THEN FirstCallFails ELSE CallProceeds

\* Between calls the machine is as it was left.
Published ==
  /\ published.state \in RestStates
  /\ published.initError =>
       published.state = "created" /\ published.qnn = NoNet /\ published.live = {}
  /\ holder = Nobody =>
       /\ Untouched
       /\ At(published.state, IF published.initError THEN <<"INIT_ERROR">> ELSE <<>>)

\* Nobody comes to a program that is destroyed; events come until it is gone.
ObjectLife ==
  /\ object # "alive" => execObjs = {} /\ cleared = {}
  /\ op \in Ops \ {"notify", "destroy"} => object = "alive"
  /\ op = "notify" => object # "gone"
  /\ op = "destroy" => object = "closing"
  /\ object = "deactivating" => ~published.initError

-----------------------------------------------------------------------------
(* The queues that occur.                                                  *)

LEMMA SequenceOfTwo ==
  ASSUME NEW T, NEW s \in Seq(T), Len(s) = 2
  PROVE  s = <<s[1], s[2]>>
OBVIOUS

LEMMA SequenceOfThree ==
  ASSUME NEW T, NEW s \in Seq(T), Len(s) = 3
  PROVE  s = <<s[1], s[2], s[3]>>
OBVIOUS

\* A queue of one to three signals, and what is left of it after the first.
LEMMA ShortQueues ==
  ASSUME NEW a, NEW b, NEW c
  PROVE  /\ Tail(<<a>>) \o <<>> = <<>>
         /\ Tail(<<a>>) \o <<b>> = <<b>>
         /\ Tail(<<a>>) \o <<b, c>> = <<b, c>>
         /\ Tail(<<a, b>>) \o <<>> = <<b>>
         /\ Tail(<<a, b, c>>) \o <<>> = <<b, c>>
         /\ Head(<<a>>) = a /\ Head(<<a, b>>) = a /\ Head(<<a, b, c>>) = a
         /\ <<a>> # <<>> /\ <<a, b>> # <<>> /\ <<a, b, c>> # <<>>
         /\ Append(<<>>, a) = <<a>> /\ <<>> \o <<a>> = <<a>>
OBVIOUS

LEMMA LongerQueues ==
  ASSUME NEW a \in Signals, NEW b \in Signals, NEW x \in Signals, NEW y \in Signals
  PROVE  /\ Append(<<a>>, b) = <<a, b>>
         /\ Tail(<<a, b>>) \o <<x>> = <<b, x>>
         /\ Tail(<<a, b>>) \o <<x, y>> = <<b, x, y>>
<1> DEFINE p == Append(<<a>>, b)
           q == Tail(<<a, b>>) \o <<x>>
           r == Tail(<<a, b>>) \o <<x, y>>
<1>1. p \in Seq(Signals) /\ Len(p) = 2 /\ p[1] = a /\ p[2] = b
  OBVIOUS
<1>2. q \in Seq(Signals) /\ Len(q) = 2 /\ q[1] = b /\ q[2] = x
  OBVIOUS
<1>3. r \in Seq(Signals) /\ Len(r) = 3 /\ r[1] = b /\ r[2] = x /\ r[3] = y
  OBVIOUS
<1> HIDE DEF p, q, r
<1>4. p = <<a, b>> /\ q = <<b, x>> /\ r = <<b, x, y>>
  BY <1>1, <1>2, <1>3, SequenceOfTwo, SequenceOfThree
<1>5. QED
  BY <1>4 DEF p, q, r

-----------------------------------------------------------------------------
(* What one dispatched signal does.                                        *)

Moves(target, posted) == state' = target /\ signals' = Tail(signals) \o posted
NetworkKept == UNCHANGED <<qnn, live>>

\* Which signals a state acts on.
LEMMA HandledWhere ==
  ASSUME state \in HsmStates
  PROVE  /\ state = "created" => Handles(state) = {"LOAD", "INIT_ERROR", "ACTIVATE", "DEVICE_DOWN"}
         /\ state = "loading" => Handles(state) =
              {"LOAD_COMPLETE", "LOAD_FAILED", "INIT_ERROR", "ACTIVATE", "DEVICE_DOWN"}
         /\ state = "unloading" => Handles(state) =
              {"UNLOAD_COMPLETE", "INIT_ERROR", "ACTIVATE", "DEVICE_DOWN"}
         /\ state = "loaded" => Handles(state) = {"UNLOAD", "INIT_ERROR", "ACTIVATE", "DEVICE_DOWN"}
         /\ state = "activating" => Handles(state) =
              {"ACTIVATE_COMPLETE", "ACTIVATE_FAILED", "INIT_ERROR", "ACTIVATE", "DEVICE_DOWN"}
         /\ state = "activate_failed" => Handles(state) = {"INIT_ERROR", "ACTIVATE", "DEVICE_DOWN"}
         /\ state = "ac_ready" => Handles(state) =
              {"DEACTIVATE", "INIT_ERROR", "ACTIVATE", "DEVICE_DOWN"}
         /\ state = "ac_deactivating" => Handles(state) =
              {"DEACTIVATE_COMPLETE", "DEACTIVATE", "INIT_ERROR", "ACTIVATE", "DEVICE_DOWN"}
         /\ state = "device_error" => Handles(state) = {"DEVICE_UP"}
         /\ state = "load_failed" => Handles(state) = {"LOAD"}
BY DEF Handles, LeafHandles, HsmStates, CreatedSuper, LoadedSuper, ActiveSuper, ErrorSuper

LEMMA Dropped ==
  ASSUME HsmTypes, Handler, Sig \notin Handles(state)
  PROVE  Moves(state, <<>>) /\ NetworkKept
<1> USE HandledWhere DEF HsmTypes
<1>1. ~created_super /\ ~created /\ ~loading /\ ~unloading
  BY DEF created_super, created, loading, unloading, CreatedSuper, LoadedSuper, ActiveSuper
<1>2. ~loaded /\ ~activating /\ ~activate_failed
  BY DEF loaded, activating, activate_failed
<1>3. ~active_super /\ ~ac_deactivating /\ ~device_error /\ ~load_failed
  BY DEF active_super, ac_deactivating, device_error, load_failed, ActiveSuper
<1>4. QED
  BY <1>1, <1>2, <1>3 DEF Handler, top, Repost, Post, Moves, NetworkKept

\* The image is loaded, or loading it fails.
LEMMA LoadSent ==
  ASSUME HsmTypes, Handler, Sig = "LOAD",
         state = "created" \/ (state = "load_failed" /\ devInfoValidated)
  PROVE  NetworkKept /\ \E c \in LoadReplies : Moves("loading", <<c>>)
<1>1. Sig \in Handles(state)
  BY HandledWhere DEF HsmTypes
<1>2. created \/ load_failed
  BY <1>1 DEF Handler, top, created_super, loading, unloading, loaded, activating,
     activate_failed, active_super, ac_deactivating, device_error, ActiveSuper
<1>3. EnterLoading(<<>>)
  BY <1>2 DEF created, load_failed, validate_action
<1>4. QED
  BY <1>3, ShortQueues DEF EnterLoading, Tran, Post, LoadReplies, Moves, NetworkKept

LEMMA LoadAnswered ==
  ASSUME HsmTypes, Handler, state = "loading", Sig \in LoadReplies
  PROVE  NetworkKept /\ (Moves("loaded", <<>>) \/ Moves("load_failed", <<>>))
<1>1. Sig \in Handles(state)
  BY HandledWhere DEF HsmTypes, LoadReplies
<1>2. loading
  BY <1>1 DEF Handler, top, created_super, created, unloading, loaded, activating, LoadReplies,
     activate_failed, active_super, ac_deactivating, device_error, load_failed, ActiveSuper
<1>3. QED
  BY <1>2 DEF loading, Move, Tran, Post, Moves, NetworkKept

LEMMA UnloadSent ==
  ASSUME HsmTypes, Handler, state = "loaded", Sig = "UNLOAD"
  PROVE  NetworkKept /\ Moves("unloading", <<"UNLOAD_COMPLETE">>)
<1>1. Sig \in Handles(state)
  BY HandledWhere DEF HsmTypes
<1>2. loaded
  BY <1>1 DEF Handler, top, created_super, created, loading, unloading, activating,
     activate_failed, active_super, ac_deactivating, device_error, load_failed, ActiveSuper
<1>3. QED
  BY <1>2 DEF loaded, Tran, Post, Moves, NetworkKept

LEMMA UnloadAnswered ==
  ASSUME HsmTypes, Handler, state = "unloading", Sig = "UNLOAD_COMPLETE"
  PROVE  NetworkKept /\ Moves("created", <<>>)
<1>1. Sig \in Handles(state)
  BY HandledWhere DEF HsmTypes
<1>2. unloading
  BY <1>1 DEF Handler, top, created_super, created, loading, loaded, activating,
     activate_failed, active_super, ac_deactivating, device_error, load_failed, ActiveSuper
<1>3. QED
  BY <1>2 DEF unloading, Move, Tran, Post, Moves, NetworkKept

LEMMA InitErrorSeen ==
  ASSUME HsmTypes, Handler, state = "created", Sig = "INIT_ERROR"
  PROVE  NetworkKept /\ Moves("created", <<"DEVICE_DOWN">>)
<1>1. Sig \in Handles(state)
  BY HandledWhere DEF HsmTypes
<1>2. created_super
  BY <1>1 DEF Handler, top, created, loading, unloading, loaded, activating,
     activate_failed, active_super, ac_deactivating, device_error, load_failed, ActiveSuper
<1>3. QED
  BY <1>2 DEF created_super, Repost, Post, Moves, NetworkKept

LEMMA ActivateDeferred ==
  ASSUME HsmTypes, Handler, state \in {"created", "loading"}, Sig = "ACTIVATE"
  PROVE  NetworkKept /\ Moves(state, <<"LOAD", "ACTIVATE">>)
<1>1. Sig \in Handles(state)
  BY HandledWhere DEF HsmTypes
<1>2. created_super
  BY <1>1 DEF Handler, top, created, loading, unloading, loaded, activating,
     activate_failed, active_super, ac_deactivating, device_error, load_failed, ActiveSuper
<1>3. QED
  BY <1>2 DEF created_super, Repost, Post, Moves, NetworkKept

LEMMA ActivateSent ==
  ASSUME HsmTypes, Handler, state \in {"loaded", "activate_failed"}, Sig = "ACTIVATE"
  PROVE  \/ /\ qnn' \in Networks \ live /\ live' = live \cup {qnn'}
            /\ Moves("activating", <<"ACTIVATE_COMPLETE">>)
         \/ /\ qnn' = NoNet /\ live' = live
            /\ Moves("activating", <<"ACTIVATE_FAILED">>)
<1>1. Sig \in Handles(state)
  BY HandledWhere DEF HsmTypes
<1>2. loaded \/ activate_failed
  BY <1>1 DEF Handler, top, created_super, created, loading, unloading, activating,
     active_super, ac_deactivating, device_error, load_failed, ActiveSuper
<1>3. EnterActivating
  BY <1>2 DEF loaded, activate_failed
<1>4. QED
  BY <1>3, NetworksAssumption DEF EnterActivating, activate_action, Tran, Post, Moves

LEMMA ActivateAnswered ==
  ASSUME HsmTypes, Handler, state = "activating"
  PROVE  /\ Sig = "ACTIVATE_COMPLETE" => NetworkKept /\ Moves("ac_ready", <<>>)
         /\ Sig = "ACTIVATE_FAILED" => NetworkKept /\ Moves("activate_failed", <<>>)
<1> SUFFICES ASSUME Sig \in {"ACTIVATE_COMPLETE", "ACTIVATE_FAILED"}
             PROVE  activating
  BY DEF activating, Move, Tran, Post, Moves, NetworkKept
<1>1. Sig \in Handles(state)
  BY HandledWhere DEF HsmTypes
<1>2. QED
  BY <1>1 DEF Handler, top, created_super, created, loading, unloading, loaded,
     activate_failed, active_super, ac_deactivating, device_error, load_failed, ActiveSuper

\* What entering device_error or ac_deactivating does to the network.
Tears     == qnn' = NoNet /\ live' = live \ {qnn}
IsRefused == qnn # NoNet /\ DeactivateMayFail /\ NetworkKept

LEMMA DeactivateSent ==
  ASSUME HsmTypes, Handler, state = "ac_ready", Sig = "DEACTIVATE"
  PROVE  \/ Tears /\ Moves("ac_deactivating", <<"DEACTIVATE_COMPLETE">>)
         \/ IsRefused /\ Moves("ac_deactivating", <<"DEVICE_DOWN">>)
<1>1. Sig \in Handles(state)
  BY HandledWhere DEF HsmTypes
<1>2. active_super
  BY <1>1 DEF Handler, top, created_super, created, loading, unloading, loaded, activating,
     activate_failed, ac_deactivating, device_error, load_failed, ActiveSuper
<1>3. QED
  BY <1>2 DEF active_super, deactivate_action, Tran, Post, Moves, NetworkKept, Tears, IsRefused

LEMMA DeactivateAnswered ==
  ASSUME HsmTypes, Handler, state = "ac_deactivating", Sig = "DEACTIVATE_COMPLETE"
  PROVE  NetworkKept /\ Moves("loaded", <<>>)
<1>1. Sig \in Handles(state)
  BY HandledWhere DEF HsmTypes
<1>2. ac_deactivating
  BY <1>1 DEF Handler, top, created_super, created, loading, unloading, loaded, activating,
     activate_failed, active_super, device_error, load_failed, ActiveSuper
<1>3. QED
  BY <1>2 DEF ac_deactivating, Move, Tran, Post, Moves, NetworkKept

LEMMA DeviceLost ==
  ASSUME HsmTypes, Handler, state \in CreatedSuper, Sig = "DEVICE_DOWN"
  PROVE  (Tears \/ IsRefused) /\ Moves("device_error", <<>>)
<1>1. Sig \in Handles(state)
  BY DEF Handles
<1>2. created_super
  BY <1>1 DEF Handler, top, created, loading, unloading, loaded, activating,
     activate_failed, active_super, ac_deactivating, device_error, load_failed
<1>3. EnterDeviceError
  BY <1>2 DEF created_super
<1>4. QED
  BY <1>3 DEF EnterDeviceError, deactivate_action, Tran, Post, Moves, NetworkKept, Tears, IsRefused

LEMMA DeviceBack ==
  ASSUME HsmTypes, Handler, state = "device_error", Sig = "DEVICE_UP"
  PROVE  NetworkKept /\ (Moves("created", <<>>) \/ Moves("device_error", <<>>))
<1>1. Sig \in Handles(state)
  BY HandledWhere DEF HsmTypes
<1>2. device_error
  BY <1>1 DEF Handler, top, created_super, created, loading, unloading, loaded, activating,
     activate_failed, active_super, ac_deactivating, load_failed, ActiveSuper,
     CreatedSuper, LoadedSuper
<1>3. QED
  BY <1>2 DEF device_error, Tran, Post, Moves, NetworkKept

-----------------------------------------------------------------------------
(* A dispatched signal takes the call that is under way one step on.       *)

LEMMA OneQueued ==
  ASSUME NEW s, NEW a, At(s, <<a>>)
  PROVE  /\ state = s /\ Sig = a
         /\ \A t : Moves(t, <<>>) => state' = t /\ signals' = <<>>
         /\ \A t, b : Moves(t, <<b>>) => state' = t /\ signals' = <<b>>
         /\ \A t, b, c : Moves(t, <<b, c>>) => state' = t /\ signals' = <<b, c>>
BY ShortQueues DEF At, Sig, Moves

LEMMA TwoQueued ==
  ASSUME NEW s, NEW a \in Signals, NEW b \in Signals, At(s, <<a, b>>)
  PROVE  /\ state = s /\ Sig = a
         /\ \A t : Moves(t, <<>>) => state' = t /\ signals' = <<b>>
         /\ \A t : \A c \in Signals : Moves(t, <<c>>) => state' = t /\ signals' = <<b, c>>
         /\ \A t : \A c, d \in Signals :
              Moves(t, <<c, d>>) => state' = t /\ signals' = <<b, c, d>>
BY ShortQueues, LongerQueues DEF At, Sig, Moves

LEMMA ThreeQueued ==
  ASSUME NEW s, NEW a, NEW b, NEW c, At(s, <<a, b, c>>)
  PROVE  /\ state = s /\ Sig = a
         /\ \A t : Moves(t, <<>>) => state' = t /\ signals' = <<b, c>>
BY ShortQueues DEF At, Sig, Moves

LEMMA NothingToDoStep ==
  ASSUME HsmTypes, Handler, signals # <<>>, UNCHANGED <<published, op>>, NothingToDo
  PROVE  NothingToDo'
<1>1. PICK s \in Posts(op) :
        At(published.state, <<s>>) /\ s \notin Handles(published.state)
  BY DEF NothingToDo, At
<1>2. state = published.state /\ Sig = s
  BY <1>1, OneQueued
<1>3. Moves(published.state, <<>>) /\ NetworkKept
  BY <1>1, <1>2, Dropped
<1>4. state' = published.state /\ signals' = <<>>
  BY <1>1, <1>3, OneQueued
<1>5. QED
  BY <1>3, <1>4 DEF NothingToDo, At, Untouched, NetworkKept

LEMMA LoadsStep ==
  ASSUME HsmTypes, Handler, signals # <<>>, UNCHANGED <<published, op>>, Loads,
         state = "load_failed" => devInfoValidated
  PROVE  Loads'
<1>1. CASE At(published.state, <<"LOAD">>)
  <2>1. state = published.state /\ Sig = "LOAD"
    BY <1>1, OneQueued
  <2>2. PICK c \in LoadReplies : NetworkKept /\ Moves("loading", <<c>>)
    BY <2>1, LoadSent DEF Loads
  <2>3. state' = "loading" /\ signals' = <<c>>
    BY <1>1, <2>2, OneQueued
  <2>4. QED
    BY <2>2, <2>3 DEF Loads, At, Untouched, NetworkKept
<1>2. ASSUME NEW c \in LoadReplies, At("loading", <<c>>)
      PROVE  Loads'
  <2>1. state = "loading" /\ Sig = c
    BY <1>2, OneQueued
  <2>2. NetworkKept /\ (Moves("loaded", <<>>) \/ Moves("load_failed", <<>>))
    BY <2>1, LoadAnswered
  <2>3. state' \in {"loaded", "load_failed"} /\ signals' = <<>>
    BY <1>2, <2>2, OneQueued
  <2>4. QED
    BY <2>2, <2>3 DEF Loads, At, Untouched, NetworkKept
<1>3. QED
  BY <1>1, <1>2 DEF Loads, At

LEMMA LoadsFirstStep ==
  ASSUME HsmTypes, Handler, UNCHANGED <<published, op>>, LoadsFirst,
         state = "load_failed" => devInfoValidated
  PROVE  Activates'
<1> USE DEF LoadsFirst, Activates, At, Untouched, NetworkKept
<1>0. {"LOAD", "ACTIVATE"} \cup LoadReplies \subseteq Signals
  BY DEF LoadReplies, Signals
<1>1. CASE At("created", <<"ACTIVATE">>)
  <2>1. NetworkKept /\ Moves("created", <<"LOAD", "ACTIVATE">>)
    BY <1>1, OneQueued, ActivateDeferred
  <2>2. QED
    BY <1>1, <2>1, OneQueued
<1>2. CASE At("created", <<"LOAD", "ACTIVATE">>) \/ At("load_failed", <<"LOAD", "ACTIVATE">>)
  <2>1. Sig = "LOAD" /\ state \in {"created", "load_failed"}
    BY <1>0, <1>2, TwoQueued
  <2>2. PICK c \in LoadReplies : NetworkKept /\ Moves("loading", <<c>>)
    BY <2>1, LoadSent
  <2>3. state' = "loading" /\ signals' = <<"ACTIVATE", c>>
    BY <1>0, <1>2, <2>2, TwoQueued
  <2>4. QED
    BY <2>2, <2>3
<1>3. ASSUME NEW c \in LoadReplies, At("loading", <<"ACTIVATE", c>>)
      PROVE  Activates'
  <2>1. Sig = "ACTIVATE" /\ state = "loading"
    BY <1>0, <1>3, TwoQueued
  <2>2. NetworkKept /\ Moves("loading", <<"LOAD", "ACTIVATE">>)
    BY <2>1, ActivateDeferred
  <2>3. state' = "loading" /\ signals' = <<c, "LOAD", "ACTIVATE">>
    BY <1>0, <1>3, <2>2, TwoQueued
  <2>4. QED
    BY <2>2, <2>3
<1>4. ASSUME NEW c \in LoadReplies, At("loading", <<c, "LOAD", "ACTIVATE">>)
      PROVE  Activates'
  <2>1. Sig = c /\ state = "loading"
    BY <1>4, ThreeQueued
  <2>2. NetworkKept /\ (Moves("loaded", <<>>) \/ Moves("load_failed", <<>>))
    BY <2>1, LoadAnswered
  <2>3. state' \in {"loaded", "load_failed"} /\ signals' = <<"LOAD", "ACTIVATE">>
    BY <1>4, <2>2, ThreeQueued
  <2>4. QED
    BY <2>2, <2>3
<1>5. CASE At("loaded", <<"LOAD", "ACTIVATE">>)
  <2>1. Sig = "LOAD" /\ state = "loaded"
    BY <1>0, <1>5, TwoQueued
  <2>2. NetworkKept /\ Moves("loaded", <<>>)
    BY <2>1, Dropped, HandledWhere DEF HsmTypes
  <2>3. state' = "loaded" /\ signals' = <<"ACTIVATE">>
    BY <1>0, <1>5, <2>2, TwoQueued
  <2>4. QED
    BY <2>2, <2>3
<1>6. CASE At("loaded", <<"ACTIVATE">>)
  <2>1. \/ /\ qnn' \in Networks \ live /\ live' = live \cup {qnn'}
           /\ Moves("activating", <<"ACTIVATE_COMPLETE">>)
        \/ qnn' = NoNet /\ live' = live /\ Moves("activating", <<"ACTIVATE_FAILED">>)
    BY <1>6, OneQueued, ActivateSent
  <2>2. QED
    BY <1>6, <2>1, OneQueued DEF Activated, Inactive
<1>7. QED
  BY <1>1, <1>2, <1>3, <1>4, <1>5, <1>6

LEMMA ActivatesStep ==
  ASSUME HsmTypes, Handler, signals # <<>>, UNCHANGED <<published, op>>, Activates,
         state = "load_failed" => devInfoValidated
  PROVE  Activates'
<1>1. CASE LoadsFirst
  BY <1>1, LoadsFirstStep
<1> USE DEF Activates, At, NetworkKept
<1>2. CASE published.state # "created" /\ Untouched /\ At(published.state, <<"ACTIVATE">>)
  <2>1. state \in {"loaded", "activate_failed"} /\ Sig = "ACTIVATE"
    BY <1>2, OneQueued
  <2>2. \/ /\ qnn' \in Networks \ live /\ live' = live \cup {qnn'}
           /\ Moves("activating", <<"ACTIVATE_COMPLETE">>)
        \/ qnn' = NoNet /\ live' = live /\ Moves("activating", <<"ACTIVATE_FAILED">>)
    BY <2>1, ActivateSent
  <2>3. QED
    BY <1>2, <2>2, OneQueued DEF Activated, Inactive, Untouched
<1>3. CASE Activated /\ At("activating", <<"ACTIVATE_COMPLETE">>)
  <2>1. NetworkKept /\ Moves("ac_ready", <<>>)
    BY <1>3, OneQueued, ActivateAnswered
  <2>2. state' = "ac_ready" /\ signals' = <<>>
    BY <1>3, <2>1, OneQueued
  <2>3. QED
    BY <1>3, <2>1, <2>2 DEF Activated
<1>4. CASE Inactive /\ At("activating", <<"ACTIVATE_FAILED">>)
  <2>1. NetworkKept /\ Moves("activate_failed", <<>>)
    BY <1>4, OneQueued, ActivateAnswered
  <2>2. state' = "activate_failed" /\ signals' = <<>>
    BY <1>4, <2>1, OneQueued
  <2>3. QED
    BY <1>4, <2>1, <2>2 DEF Inactive
<1>5. QED
  BY <1>1, <1>2, <1>3, <1>4

LEMMA DeactivatesStep ==
  ASSUME HsmTypes, Handler, signals # <<>>, UNCHANGED <<published, op>>, Deactivates
  PROVE  Deactivates'
<1> USE DEF Deactivates, At, NetworkKept
<1>1. CASE Untouched /\ At("ac_ready", <<"DEACTIVATE">>)
  <2>1. \/ Tears /\ Moves("ac_deactivating", <<"DEACTIVATE_COMPLETE">>)
        \/ IsRefused /\ Moves("ac_deactivating", <<"DEVICE_DOWN">>)
    BY <1>1, OneQueued, DeactivateSent
  <2>2. QED
    BY <1>1, <2>1, OneQueued DEF Untouched, TornDown, Refused, Tears, IsRefused
<1>2. CASE TornDown /\ At("ac_deactivating", <<"DEACTIVATE_COMPLETE">>)
  <2>1. NetworkKept /\ Moves("loaded", <<>>)
    BY <1>2, OneQueued, DeactivateAnswered
  <2>2. QED
    BY <1>2, <2>1, OneQueued DEF TornDown
<1>3. CASE Refused /\ At("ac_deactivating", <<"DEVICE_DOWN">>)
  <2>1. (Tears \/ IsRefused) /\ Moves("device_error", <<>>)
    BY <1>3, OneQueued, DeviceLost DEF CreatedSuper, LoadedSuper, ActiveSuper
  <2>2. state' = "device_error" /\ signals' = <<>>
    BY <1>3, <2>1, OneQueued
  <2>3. QED
    BY <1>3, <2>1, <2>2 DEF Untouched, TornDown, Refused, Tears, IsRefused
<1>4. QED
  BY <1>1, <1>2, <1>3

LEMMA UnloadsStep ==
  ASSUME HsmTypes, Handler, signals # <<>>, UNCHANGED <<published, op>>, Unloads
  PROVE  Unloads'
<1> USE DEF Unloads, At, NetworkKept, Untouched, TornDown, Refused
<1>1. CASE At("loaded", <<"UNLOAD">>)
  <2>1. NetworkKept /\ Moves("unloading", <<"UNLOAD_COMPLETE">>)
    BY <1>1, OneQueued, UnloadSent
  <2>2. state' = "unloading" /\ signals' = <<"UNLOAD_COMPLETE">>
    BY <1>1, <2>1, OneQueued
  <2>3. QED
    BY <1>1, <2>1, <2>2
<1>2. CASE At("unloading", <<"UNLOAD_COMPLETE">>)
  <2>1. NetworkKept /\ Moves("created", <<>>)
    BY <1>2, OneQueued, UnloadAnswered
  <2>2. state' = "created" /\ signals' = <<>>
    BY <1>2, <2>1, OneQueued
  <2>3. QED
    BY <1>2, <2>1, <2>2
<1>3. CASE At("device_error", <<"UNLOAD">>)
  <2>1. Sig = "UNLOAD" /\ state = "device_error"
    BY <1>3, OneQueued
  <2>2. NetworkKept /\ Moves("device_error", <<>>)
    BY <2>1, Dropped, HandledWhere DEF HsmTypes
  <2>3. state' = "device_error" /\ signals' = <<>>
    BY <1>3, <2>2, OneQueued
  <2>4. QED
    BY <1>3, <2>2, <2>3
<1>4. QED
  BY <1>1, <1>2, <1>3

LEMMA NotifiedStep ==
  ASSUME HsmTypes, Handler, signals # <<>>, UNCHANGED <<published, op>>, Notified
  PROVE  Notified' \/ NothingToDo' \/ op # "notify"
<1> USE DEF At, NetworkKept, Untouched
<1>1. CASE /\ published.state \in CreatedSuper /\ Untouched
           /\ At(published.state, <<"DEVICE_DOWN">>)
  <2>1. (Tears \/ IsRefused) /\ Moves("device_error", <<>>)
    BY <1>1, OneQueued, DeviceLost
  <2>2. state' = "device_error" /\ signals' = <<>>
    BY <1>1, <2>1, OneQueued
  <2>3. QED
    BY <1>1, <2>1, <2>2 DEF Notified, TornDown, Refused, Tears, IsRefused
<1>2. CASE /\ published.state = "device_error" /\ Untouched
           /\ At("device_error", <<"DEVICE_UP">>)
  <2>1. NetworkKept /\ (Moves("created", <<>>) \/ Moves("device_error", <<>>))
    BY <1>2, OneQueued, DeviceBack
  <2>2. state' \in {"created", "device_error"} /\ signals' = <<>>
    BY <1>2, <2>1, OneQueued
  <2>3. op = "notify" => published.state \in Idles(op)
    BY <1>2 DEF Idles, RestStates
  <2>4. QED
    BY <1>2, <2>1, <2>2, <2>3 DEF Notified, NothingToDo
<1>3. QED
  BY <1>1, <1>2 DEF Notified

\* Whatever the first call posts, INIT_ERROR has DEVICE_DOWN posted after it,
\* and device_error drops what is left.
LEMMA FirstCallFailsStep ==
  ASSUME HsmTypes, Handler, signals # <<>>, UNCHANGED <<published, op>>, FirstCallFails
  PROVE  FirstCallFails'
<1> USE DEF FirstCallFails, At, NetworkKept, Untouched
<1>0. /\ {"INIT_ERROR", "DEVICE_DOWN", "LOAD", "ACTIVATE"} \cup LoadReplies \subseteq Signals
      /\ Posts(op) \subseteq Signals
  BY DEF LoadReplies, Signals, Posts, Ops
<1>1. ASSUME NEW s \in Posts(op), At("created", <<"INIT_ERROR", s>>)
      PROVE  FirstCallFails'
  <2>1. NetworkKept /\ Moves("created", <<"DEVICE_DOWN">>)
    BY <1>0, <1>1, TwoQueued, InitErrorSeen
  <2>2. state' = "created" /\ signals' = <<s, "DEVICE_DOWN">>
    BY <1>0, <1>1, <2>1, TwoQueued
  <2>3. QED
    BY <2>1, <2>2
<1>2. ASSUME NEW s \in Posts(op), At("created", <<s, "DEVICE_DOWN">>)
      PROVE  FirstCallFails'
  <2>1. Sig = s /\ state = "created"
    BY <1>0, <1>2, TwoQueued
  <2>2. CASE s = "LOAD"
    <3>1. PICK c \in LoadReplies : NetworkKept /\ Moves("loading", <<c>>)
      BY <2>1, <2>2, LoadSent
    <3>2. state' = "loading" /\ signals' = <<"DEVICE_DOWN", c>>
      BY <1>0, <1>2, <3>1, TwoQueued
    <3>3. QED
      BY <3>1, <3>2
  <2>3. CASE s = "ACTIVATE"
    <3>1. NetworkKept /\ Moves("created", <<"LOAD", "ACTIVATE">>)
      BY <2>1, <2>3, ActivateDeferred
    <3>2. state' = "created" /\ signals' = <<"DEVICE_DOWN", "LOAD", "ACTIVATE">>
      BY <1>0, <1>2, <3>1, TwoQueued
    <3>3. QED
      BY <3>1, <3>2
  <2>4. CASE s = "DEVICE_DOWN"
    <3>1. (Tears \/ IsRefused) /\ Moves("device_error", <<>>)
      BY <2>1, <2>4, DeviceLost DEF CreatedSuper
    <3>2. state' = "device_error" /\ signals' = <<"DEVICE_DOWN">>
      BY <1>0, <1>2, <3>1, TwoQueued
    <3>3. UNCHANGED <<qnn, live>>
      BY <3>1 DEF Tears, IsRefused
    <3>4. QED
      BY <1>0, <3>2, <3>3
  <2>5. CASE s \notin {"LOAD", "ACTIVATE", "DEVICE_DOWN"}
    <3>1. s \in {"UNLOAD", "DEACTIVATE", "DEVICE_UP", "VC_DOWN", "VC_UP"}
      BY <1>2, <2>5 DEF Posts, Ops
    <3>2. NetworkKept /\ Moves("created", <<>>)
      BY <2>1, <3>1, Dropped, HandledWhere DEF HsmTypes
    <3>3. state' = "created" /\ signals' = <<"DEVICE_DOWN">>
      BY <1>0, <1>2, <3>2, TwoQueued
    <3>4. QED
      BY <3>2, <3>3
  <2>6. QED
    BY <2>2, <2>3, <2>4, <2>5
<1>3. CASE At("created", <<"DEVICE_DOWN">>)
  <2>1. (Tears \/ IsRefused) /\ Moves("device_error", <<>>)
    BY <1>3, OneQueued, DeviceLost DEF CreatedSuper
  <2>2. state' = "device_error" /\ signals' = <<>>
    BY <1>3, <2>1, OneQueued
  <2>3. QED
    BY <2>1, <2>2 DEF Tears, IsRefused
<1>4. CASE At("created", <<"DEVICE_DOWN", "LOAD", "ACTIVATE">>)
  <2>1. (Tears \/ IsRefused) /\ Moves("device_error", <<>>)
    BY <1>4, ThreeQueued, DeviceLost DEF CreatedSuper
  <2>2. state' = "device_error" /\ signals' = <<"LOAD", "ACTIVATE">>
    BY <1>4, <2>1, ThreeQueued
  <2>3. QED
    BY <2>1, <2>2 DEF Tears, IsRefused
<1>5. ASSUME NEW c \in LoadReplies, At("loading", <<"DEVICE_DOWN", c>>)
      PROVE  FirstCallFails'
  <2>1. (Tears \/ IsRefused) /\ Moves("device_error", <<>>)
    BY <1>0, <1>5, TwoQueued, DeviceLost DEF CreatedSuper
  <2>2. state' = "device_error" /\ signals' = <<c>>
    BY <1>0, <1>5, <2>1, TwoQueued
  <2>3. c \in Signals \ {"DEVICE_UP"}
    BY <1>0 DEF LoadReplies
  <2>4. QED
    BY <2>1, <2>2, <2>3 DEF Tears, IsRefused
<1>6. ASSUME NEW s \in Signals \ {"DEVICE_UP"}, At("device_error", <<s>>)
      PROVE  FirstCallFails'
  <2>1. Sig = s /\ state = "device_error"
    BY <1>6, OneQueued
  <2>2. NetworkKept /\ Moves("device_error", <<>>)
    BY <2>1, Dropped, HandledWhere DEF HsmTypes
  <2>3. state' = "device_error" /\ signals' = <<>>
    BY <1>6, <2>2, OneQueued
  <2>4. QED
    BY <2>2, <2>3
<1>7. CASE At("device_error", <<"LOAD", "ACTIVATE">>)
  <2>1. Sig = "LOAD" /\ state = "device_error"
    BY <1>0, <1>7, TwoQueued
  <2>2. NetworkKept /\ Moves("device_error", <<>>)
    BY <2>1, Dropped, HandledWhere DEF HsmTypes
  <2>3. state' = "device_error" /\ signals' = <<"ACTIVATE">>
    BY <1>0, <1>7, <2>2, TwoQueued
  <2>4. "ACTIVATE" \in Signals \ {"DEVICE_UP"}
    BY <1>0
  <2>5. QED
    BY <2>2, <2>3, <2>4
<1>8. QED
  BY <1>1, <1>2, <1>3, <1>4, <1>5, <1>6, <1>7

-----------------------------------------------------------------------------
(* The invariant, with that of ProgramDeviceProofs.                        *)

RInv == IInv /\ Midway /\ Published /\ ObjectLife

LEMMA MidwayDispatch ==
  ASSUME RInv, Dispatch
  PROVE  Midway' /\ Published' /\ ObjectLife'
<1>1. /\ HsmTypes /\ Handler /\ signals # <<>> /\ holder # Nobody
      /\ UNCHANGED <<published, op, holder, object, execObjs, cleared>>
  BY IInvParts DEF RInv, Dispatch, api, HsmInv
<1>2. state = "load_failed" => devInfoValidated
  BY DEF RInv, IInv, DoomedUnvalidated
<1>3. Published' /\ ObjectLife'
  BY <1>1 DEF RInv, Published, ObjectLife
<1>4. CASE published.initError
  BY <1>1, <1>3, <1>4, FirstCallFailsStep DEF RInv, Midway
<1>5. CASE ~published.initError
  <2>1. CallProceeds
    BY <1>1, <1>5 DEF RInv, Midway
  <2>2. CallProceeds'
    <3>1. CASE NothingToDo
      BY <1>1, <3>1, NothingToDoStep DEF CallProceeds
    <3>2. CASE op = "load" /\ Loads
      BY <1>1, <1>2, <3>2, LoadsStep DEF CallProceeds
    <3>3. CASE op = "activate" /\ Activates
      BY <1>1, <1>2, <3>3, ActivatesStep DEF CallProceeds
    <3>4. CASE op = "unload" /\ Unloads
      BY <1>1, <3>4, UnloadsStep DEF CallProceeds
    <3>5. CASE op \in {"unload_deactivate", "deactivate", "destroy"} /\ Deactivates
      BY <1>1, <3>5, DeactivatesStep DEF CallProceeds
    <3>6. CASE op = "notify" /\ Notified
      BY <1>1, <3>6, NotifiedStep DEF CallProceeds
    <3>7. QED
      BY <2>1, <3>1, <3>2, <3>3, <3>4, <3>5, <3>6 DEF CallProceeds
  <2>3. QED
    BY <1>1, <1>3, <1>5, <2>2 DEF Midway
<1>6. QED
  BY <1>3, <1>4, <1>5

\* The thread that locks programMutex_ finds the machine as it was published.
LEMMA Locked ==
  ASSUME RInv, NEW t \in Threads \cup {Events}, NEW call \in Ops, NEW sig \in Posts(call),
         Lock(t, call, sig)
  PROVE  /\ holder' # Nobody /\ op' = call /\ UNCHANGED published /\ Untouched'
         /\ holder = Nobody /\ op = "none" /\ object # "gone"
         /\ state = published.state /\ state' = state /\ state \in RestStates
         /\ ~published.initError => signals' = <<sig>>
         /\ published.initError =>
              /\ signals' = <<"INIT_ERROR", sig>> /\ state = "created"
              /\ published.qnn = NoNet /\ published.live = {}
         /\ Published'
<1>1. holder = Nobody /\ object # "gone" /\ UNCHANGED <<state, qnn, live, published>>
  BY DEF Lock, Free
<1>2. /\ published.state \in RestStates /\ Untouched
      /\ At(published.state, IF published.initError THEN <<"INIT_ERROR">> ELSE <<>>)
  BY <1>1 DEF RInv, Published
<1>3. holder' # Nobody /\ op' = call
  BY ThreadsAssumption DEF Lock
<1>4. op = "none"
  BY <1>1 DEF RInv, IInv, TypeOK
<1>5. sig \in Signals /\ "INIT_ERROR" \in Signals
  BY DEF Posts, Ops, Signals
<1>6. signals' = Append(signals, sig)
  BY DEF Lock
<1>7. ~published.initError => signals' = <<sig>>
  BY <1>2, <1>6, ShortQueues DEF At
<1>8. published.initError => signals' = <<"INIT_ERROR", sig>>
  BY <1>2, <1>5, <1>6, LongerQueues DEF At
<1>9. Published'
  BY <1>1, <1>3 DEF RInv, Published
<1>10. QED
  BY <1>1, <1>2, <1>3, <1>4, <1>7, <1>8, <1>9 DEF Untouched, At, RInv, Published

LEMMA FirstCall ==
  ASSUME RInv, NEW t \in Threads \cup {Events}, NEW call \in Ops, NEW sig \in Posts(call),
         Lock(t, call, sig), published.initError, call \notin {"unload_deactivate", "destroy"}
  PROVE  Midway'
BY Locked DEF Midway, FirstCallFails, At

LEMMA loadLocks ==
  ASSUME RInv, NEW t \in Threads, Lock(t, "load", "LOAD"), state \notin LoadedSuper
  PROVE  Midway'
<1>1. "load" \in Ops /\ "LOAD" \in Posts("load")
  BY DEF Ops, Posts
<1>2. CASE published.initError
  BY <1>1, <1>2, FirstCall
<1>3. CASE ~published.initError
  <2>1. /\ state' = published.state /\ signals' = <<"LOAD">> /\ op' = "load"
        /\ Untouched' /\ UNCHANGED published /\ state = published.state
        /\ published.state \in {"created", "load_failed", "device_error"}
    BY <1>1, <1>3, Locked DEF RestStates, LoadedSuper, ActiveSuper
  <2>2. CASE published.state = "device_error"
    <3>1. "LOAD" \notin Handles("device_error")
      BY <2>1, <2>2, HandledWhere DEF RInv, IInv, TypeOK
    <3>2. NothingToDo'
      BY <1>1, <2>1, <2>2, <3>1 DEF NothingToDo, At, Idles
    <3>3. QED
      BY <1>3, <2>1, <3>2 DEF Midway, CallProceeds
  <2>3. CASE published.state # "device_error"
    BY <1>3, <2>1, <2>3 DEF Midway, CallProceeds, Loads, At
  <2>4. QED
    BY <2>2, <2>3
<1>4. QED
  BY <1>2, <1>3

LEMMA activateLocks ==
  ASSUME RInv, NEW t \in Threads, Lock(t, "activate", "ACTIVATE"), state # "ac_ready"
  PROVE  Midway'
<1>1. "activate" \in Ops /\ "ACTIVATE" \in Posts("activate")
  BY DEF Ops, Posts
<1>2. CASE published.initError
  BY <1>1, <1>2, FirstCall
<1>3. CASE ~published.initError
  <2>1. /\ state' = published.state /\ signals' = <<"ACTIVATE">> /\ op' = "activate"
        /\ Untouched' /\ UNCHANGED published /\ state = published.state
        /\ published.state \in {"created", "loaded", "activate_failed"} \cup ErrorSuper
    BY <1>1, <1>3, Locked DEF RestStates, ErrorSuper
  <2>2. CASE published.state \in ErrorSuper
    <3>1. "ACTIVATE" \notin Handles(published.state)
      BY <2>1, <2>2, HandledWhere DEF RInv, IInv, TypeOK, ErrorSuper
    <3>2. NothingToDo'
      BY <1>1, <2>1, <2>2, <3>1 DEF NothingToDo, At, Idles
    <3>3. QED
      BY <1>3, <2>1, <3>2 DEF Midway, CallProceeds
  <2>3. CASE published.state \notin ErrorSuper
    BY <1>3, <2>1, <2>3 DEF Midway, CallProceeds, Activates, LoadsFirst, At
  <2>4. QED
    BY <2>2, <2>3
<1>4. QED
  BY <1>2, <1>3

LEMMA unloadLocks ==
  ASSUME RInv, NEW t \in Threads, Lock(t, "unload", "UNLOAD"), state \notin ActiveSuper
  PROVE  Midway'
<1>1. "unload" \in Ops /\ "UNLOAD" \in Posts("unload")
  BY DEF Ops, Posts
<1>2. CASE published.initError
  BY <1>1, <1>2, FirstCall
<1>3. CASE ~published.initError
  <2>1. /\ state' = published.state /\ signals' = <<"UNLOAD">> /\ op' = "unload"
        /\ Untouched' /\ UNCHANGED published /\ state = published.state
        /\ published.state \in {"created", "loaded", "activate_failed"} \cup ErrorSuper
    BY <1>1, <1>3, Locked DEF RestStates, ErrorSuper, ActiveSuper
  <2>2. CASE published.state # "loaded"
    <3>1. "UNLOAD" \notin Handles(published.state)
      BY <2>1, <2>2, HandledWhere DEF RInv, IInv, TypeOK, ErrorSuper
    <3>2. NothingToDo'
      BY <1>1, <2>1, <2>2, <3>1 DEF NothingToDo, At, Idles
    <3>3. QED
      BY <1>3, <2>1, <3>2 DEF Midway, CallProceeds
  <2>3. CASE published.state = "loaded"
    BY <1>3, <2>1, <2>3 DEF Midway, CallProceeds, Unloads, At
  <2>4. QED
    BY <2>2, <2>3
<1>4. QED
  BY <1>2, <1>3

LEMMA deactivateLocks ==
  ASSUME RInv, NEW t \in Threads, Lock(t, "deactivate", "DEACTIVATE")
  PROVE  Midway'
<1>1. "deactivate" \in Ops /\ "DEACTIVATE" \in Posts("deactivate")
  BY DEF Ops, Posts
<1>2. CASE published.initError
  BY <1>1, <1>2, FirstCall
<1>3. CASE ~published.initError
  <2>1. /\ state' = published.state /\ signals' = <<"DEACTIVATE">> /\ op' = "deactivate"
        /\ Untouched' /\ UNCHANGED published /\ state = published.state
        /\ published.state \in RestStates
    BY <1>1, <1>3, Locked
  <2>2. CASE published.state # "ac_ready"
    <3>1. "DEACTIVATE" \notin Handles(published.state)
      BY <2>1, <2>2, HandledWhere DEF RInv, IInv, TypeOK, RestStates
    <3>2. NothingToDo'
      BY <1>1, <2>1, <2>2, <3>1 DEF NothingToDo, At, Idles
    <3>3. QED
      BY <1>3, <2>1, <3>2 DEF Midway, CallProceeds
  <2>3. CASE published.state = "ac_ready"
    BY <1>3, <2>1, <2>3 DEF Midway, CallProceeds, Deactivates, At
  <2>4. QED
    BY <2>2, <2>3
<1>4. QED
  BY <1>2, <1>3

\* The destructor found the program ready; an event may have come in since.
LEMMA destroyLocks ==
  ASSUME RInv, NEW t \in Threads, Lock(t, "destroy", "DEACTIVATE"), ~published.initError
  PROVE  Midway'
<1>1. "destroy" \in Ops /\ "DEACTIVATE" \in Posts("destroy")
  BY DEF Ops, Posts
<1>2. /\ state' = published.state /\ signals' = <<"DEACTIVATE">> /\ op' = "destroy"
      /\ Untouched' /\ UNCHANGED published /\ state = published.state
      /\ published.state \in RestStates
  BY <1>1, Locked
<1>3. CASE published.state # "ac_ready"
  <2>1. "DEACTIVATE" \notin Handles(published.state)
    BY <1>2, <1>3, HandledWhere DEF RInv, IInv, TypeOK, RestStates
  <2>2. NothingToDo'
    BY <1>1, <1>2, <1>3, <2>1 DEF NothingToDo, At, Idles
  <2>3. QED
    BY <1>2, <2>2 DEF Midway, CallProceeds
<1>4. CASE published.state = "ac_ready"
  BY <1>2, <1>4 DEF Midway, CallProceeds, Deactivates, At
<1>5. QED
  BY <1>3, <1>4

\* unload() deactivates a ready program.
LEMMA readyLocks ==
  ASSUME RInv, NEW t \in Threads, Lock(t, "unload_deactivate", "DEACTIVATE"), state \in ActiveSuper
  PROVE  Midway'
<1>1. "unload_deactivate" \in Ops /\ "DEACTIVATE" \in Posts("unload_deactivate")
  BY DEF Ops, Posts
<1>2. /\ state' = published.state /\ signals' = <<"DEACTIVATE">> /\ op' = "unload_deactivate"
      /\ Untouched' /\ UNCHANGED published /\ published.state = "ac_ready"
      /\ ~published.initError
  BY <1>1, Locked DEF RestStates, ActiveSuper
<1>3. QED
  BY <1>2 DEF Midway, CallProceeds, Deactivates, At

LEMMA notifyLocks ==
  ASSUME RInv, NEW sig \in Posts("notify"), Lock(Events, "notify", sig)
  PROVE  Midway'
<1>1. "notify" \in Ops
  BY DEF Ops
<1>2. CASE published.initError
  BY <1>1, <1>2, FirstCall
<1>3. CASE ~published.initError
  <2>1. /\ state' = published.state /\ signals' = <<sig>> /\ op' = "notify"
        /\ Untouched' /\ UNCHANGED published /\ state = published.state
        /\ published.state \in RestStates
    BY <1>1, <1>3, Locked
  <2>2. CASE sig \notin Handles(published.state)
    <3>1. NothingToDo'
      BY <2>1, <2>2 DEF NothingToDo, At, Idles
    <3>2. QED
      BY <1>3, <2>1, <3>1 DEF Midway, CallProceeds
  <2>3. CASE sig \in Handles(published.state)
    <3>1. \/ sig = "DEVICE_DOWN" /\ published.state \in CreatedSuper
          \/ sig = "DEVICE_UP" /\ published.state = "device_error"
      BY <2>1, <2>3, HandledWhere DEF RInv, IInv, TypeOK, RestStates, Posts,
         CreatedSuper, LoadedSuper, ActiveSuper
    <3>2. QED
      BY <1>3, <2>1, <3>1 DEF Midway, CallProceeds, Notified, At
  <2>4. QED
    BY <2>2, <2>3
<1>4. QED
  BY <1>2, <1>3

LEMMA UnloadGoesOn ==
  ASSUME RInv, UnloadAfterDeactivate
  PROVE  Midway' /\ Published' /\ ObjectLife'
<1>1. /\ holder # Nobody /\ holder' = holder /\ op = "unload_deactivate" /\ op' = "unload"
      /\ signals = <<>> /\ signals' = <<"UNLOAD">>
      /\ UNCHANGED <<published, state, qnn, live, object, execObjs, cleared>>
  BY DEF UnloadAfterDeactivate, RInv, IInv, TypeOK
<1>2. Published' /\ ObjectLife'
  BY <1>1 DEF RInv, Published, ObjectLife, Ops
<1>3. ~published.initError /\ Deactivates
  BY <1>1 DEF RInv, Midway, FirstCallFails, CallProceeds, NothingToDo, Idles
<1>4. Unloads'
  BY <1>1, <1>3, ShortQueues DEF Deactivates, Unloads, At, TornDown, Refused, Untouched
<1>5. QED
  BY <1>1, <1>2, <1>3, <1>4 DEF Midway, CallProceeds

LEMMA ReturnPublishes ==
  ASSUME RInv, Return
  PROVE  Midway' /\ Published' /\ ObjectLife'
<1>1. state \in RestStates /\ signals = <<>>
  BY IInvParts, AtRest DEF RInv, Return
<1>2. /\ published'.state = state /\ published'.qnn = qnn /\ published'.live = live
      /\ published'.initError = FALSE
      /\ UNCHANGED <<hsm, execObjs, cleared, object>> /\ holder' = Nobody /\ op' = "none"
  BY DEF Return, Snapshot
<1>3. Published'
  BY <1>1, <1>2 DEF Published, Untouched, At, hsm
<1>4. ObjectLife'
  BY <1>2 DEF RInv, ObjectLife, Ops
<1>5. QED
  BY <1>2, <1>3, <1>4 DEF Midway

\* A step that leaves the machine and the lock alone.
LEMMA AsideKeeps ==
  ASSUME RInv, UNCHANGED <<hsm, holder, op, published>>
  PROVE  Midway' /\ Published'
BY DEF RInv, Midway, Published, hsm, FirstCallFails, CallProceeds, NothingToDo, Loads, LoadsFirst,
   Activates, Deactivates, Unloads, Notified, At, Untouched, TornDown, Refused, Activated,
   Inactive

LEMMA CallKeeps ==
  ASSUME RInv, NEW t \in Threads,
         \/ load(t) \/ activate(t) \/ unload(t)
         \/ processDeactivateCmd(t) \/ deactivate(t) \/ DestroyDeactivate(t)
  PROVE  Midway' /\ Published' /\ ObjectLife'
<1> USE DEF Idle
<1>0. /\ {"load", "activate", "unload", "unload_deactivate", "deactivate", "destroy"} \subseteq Ops
      /\ "none" \notin Ops
      /\ "LOAD" \in Posts("load") /\ "ACTIVATE" \in Posts("activate")
      /\ "UNLOAD" \in Posts("unload") /\ "DEACTIVATE" \in Posts("unload_deactivate")
      /\ "DEACTIVATE" \in Posts("deactivate") /\ "DEACTIVATE" \in Posts("destroy")
      /\ Events \notin Threads
  BY ThreadsAssumption DEF Ops, Posts
<1>1. ASSUME NEW call \in Ops, NEW ok, Early(call, ok)
      PROVE  Midway' /\ Published' /\ ObjectLife'
  <2>1. Midway' /\ Published'
    BY <1>1, AsideKeeps DEF Early
  <2>2. ObjectLife'
    BY <1>1 DEF Early, RInv, ObjectLife
  <2>3. QED
    BY <2>1, <2>2
<1>2. ASSUME NEW call \in Ops, NEW sig \in Posts(call), Lock(t, call, sig),
             UNCHANGED object, object = "alive", call \notin {"notify", "destroy"},
             cleared' \subseteq cleared
      PROVE  Published' /\ ObjectLife'
  <2>1. Published' /\ op' = call
    BY <1>2, Locked
  <2>2. ObjectLife'
    BY <1>2, <2>1 DEF ObjectLife
  <2>3. QED
    BY <2>1, <2>2
<1>3. CASE load(t)
  <2>1. CASE state \in LoadedSuper
    BY <1>0, <1>1, <1>3, <2>1 DEF load
  <2>2. CASE state \notin LoadedSuper
    BY <1>0, <1>2, <1>3, <2>2, loadLocks DEF load
  <2>3. QED
    BY <2>1, <2>2
<1>4. CASE activate(t)
  <2>1. CASE state = "ac_ready"
    BY <1>0, <1>1, <1>4, <2>1 DEF activate
  <2>2. CASE state # "ac_ready"
    BY <1>0, <1>2, <1>4, <2>2, activateLocks DEF activate
  <2>3. QED
    BY <2>1, <2>2
<1>5. CASE unload(t)
  <2>1. CASE state \in ActiveSuper /\ execObjs # {}
    BY <1>0, <1>1, <1>5, <2>1 DEF unload
  <2>2. CASE state \in ActiveSuper /\ execObjs = {}
    BY <1>0, <1>2, <1>5, <2>2, readyLocks DEF unload
  <2>3. CASE state \notin ActiveSuper
    BY <1>0, <1>2, <1>5, <2>3, unloadLocks DEF unload
  <2>4. QED
    BY <2>1, <2>2, <2>3
<1>6. CASE processDeactivateCmd(t)
  <2>1. CASE execObjs # {}
    BY <1>0, <1>1, <1>6, <2>1 DEF processDeactivateCmd
  <2>2. CASE execObjs = {}
    <3>1. Midway' /\ Published'
      BY <1>6, <2>2, AsideKeeps DEF processDeactivateCmd
    <3>2. ObjectLife'
      BY <1>6, <2>2 DEF processDeactivateCmd, RInv, ObjectLife
    <3>3. QED
      BY <3>1, <3>2
  <2>3. QED
    BY <2>1, <2>2
<1>7. CASE deactivate(t)
  <2>1. Lock(t, "deactivate", "DEACTIVATE") /\ object = "alive"
    BY <1>7 DEF deactivate, RInv, ObjectLife
  <2>2. QED
    BY <1>0, <1>2, <1>7, <2>1, deactivateLocks DEF deactivate
<1>8. CASE DestroyDeactivate(t)
  <2>1. Lock(t, "destroy", "DEACTIVATE") /\ ~published.initError /\ execObjs = {} /\ cleared = {}
    BY <1>8 DEF DestroyDeactivate, RInv, ObjectLife
  <2>2. Midway' /\ Published' /\ op' = "destroy"
    BY <1>0, <2>1, destroyLocks, Locked
  <2>3. ObjectLife'
    BY <1>8, <2>1, <2>2 DEF DestroyDeactivate, Lock, ObjectLife
  <2>4. QED
    BY <2>2, <2>3
<1>9. QED
  BY <1>3, <1>4, <1>5, <1>6, <1>7, <1>8

LEMMA EventKeeps ==
  ASSUME RInv, notifyDeviceStateInfo
  PROVE  Midway' /\ Published' /\ ObjectLife'
<1>1. PICK e \in DeviceEvents :
        Lock(Events, "notify", e.sig) /\ UNCHANGED <<cleared, object>>
  BY DEF notifyDeviceStateInfo
<1>2. e.sig \in Posts("notify") /\ "notify" \in Ops
  BY DEF DeviceEvents, Posts, Ops
<1>3. Midway' /\ Published' /\ op' = "notify" /\ object # "gone"
  BY <1>1, <1>2, notifyLocks, Locked
<1>4. ObjectLife'
  BY <1>1, <1>3 DEF Lock, RInv, ObjectLife
<1>5. QED
  BY <1>3, <1>4

LEMMA RestKeeps ==
  ASSUME RInv,
         \/ \E e \in ExecObjs : registerExecObj(e) \/ unregisterExecObj(e)
         \/ unRegisterNotifyDeviceStateInfo \/ Destroy
         \/ UNCHANGED vars
  PROVE  Midway' /\ Published' /\ ObjectLife'
<1>1. Midway' /\ Published'
  BY AsideKeeps DEF Destroy, registerExecObj, unregisterExecObj, unRegisterNotifyDeviceStateInfo, vars, api
<1>2. ASSUME NEW e \in ExecObjs, registerExecObj(e) \/ unregisterExecObj(e)
      PROVE  ObjectLife'
  BY <1>2 DEF registerExecObj, unregisterExecObj, RInv, ObjectLife
<1>3. CASE unRegisterNotifyDeviceStateInfo
  <2>1. op = "none"
    BY <1>3 DEF unRegisterNotifyDeviceStateInfo, Free, RInv, IInv, TypeOK
  <2>2. QED
    BY <1>1, <1>3, <2>1 DEF unRegisterNotifyDeviceStateInfo, RInv, ObjectLife, Ops
<1>4. CASE UNCHANGED vars
  BY <1>1, <1>4 DEF vars, api, RInv, ObjectLife
<1>5. CASE Destroy
  <2>1. op = "none" /\ (state \in ActiveSuper => ~published.initError)
    BY <1>5 DEF Destroy, Free, RInv, IInv, TypeOK, Published, At, ActiveSuper
  <2>2. QED
    BY <1>1, <1>5, <2>1 DEF Destroy, ObjectLife, Ops
<1>6. QED
  BY <1>1, <1>2, <1>3, <1>4, <1>5

LEMMA RInvInit == Init => RInv
<1> SUFFICES ASSUME Init PROVE RInv
  OBVIOUS
<1>1. Midway
  BY DEF Init, Midway
<1>2. Published
  BY DEF Init, Published, RestStates, Untouched, At
<1>3. ObjectLife
  BY DEF Init, ObjectLife, Ops
<1>4. QED
  BY <1>1, <1>2, <1>3, InvInit DEF RInv

LEMMA RInvNext == RInv /\ [Next]_vars => RInv'
<1> SUFFICES ASSUME RInv, [Next]_vars PROVE Midway' /\ Published' /\ ObjectLife'
  BY InvNext DEF RInv
<1>1. QED
  BY CallKeeps, EventKeeps, RestKeeps, MidwayDispatch, UnloadGoesOn, ReturnPublishes
     DEF Next, Gone

\* What a call may be in the middle of, at every moment.
LEMMA MidwayInvariance == Spec => []RInv
BY RInvInit, RInvNext, PTL DEF Spec

-----------------------------------------------------------------------------
(* The queue.                                                              *)

LEMMA ShortLengths ==
  ASSUME NEW a, NEW b, NEW c
  PROVE  Len(<<>>) <= 3 /\ Len(<<a>>) <= 3 /\ Len(<<a, b>>) <= 3 /\ Len(<<a, b, c>>) <= 3
OBVIOUS

LEMMA ShortEnough ==
  ASSUME RInv
  PROVE  QueueBounded
<1> DEFINE Short == \/ signals = <<>>
                    \/ \E a : signals = <<a>>
                    \/ \E a, b : signals = <<a, b>>
                    \/ \E a, b, c : signals = <<a, b, c>>
<1>1. CASE holder = Nobody
  <2>1. Short
    BY <1>1 DEF RInv, Published, At
  <2>2. QED
    BY <2>1, ShortLengths DEF QueueBounded
<1>2. CASE holder # Nobody /\ published.initError
  <2>1. Short
    BY <1>2 DEF RInv, Midway, FirstCallFails, At
  <2>2. QED
    BY <2>1, ShortLengths DEF QueueBounded
<1>3. CASE holder # Nobody /\ ~published.initError
  <2>1. CallProceeds
    BY <1>3 DEF RInv, Midway
  <2>2. Short
    BY <2>1 DEF CallProceeds, NothingToDo, Loads, Activates, LoadsFirst, Deactivates, Unloads,
       Notified, At
  <2>3. QED
    BY <2>2, ShortLengths DEF QueueBounded
<1>4. QED
  BY <1>1, <1>2, <1>3

-----------------------------------------------------------------------------
(* Refinement: a call or event is its Return (or its early return).        *)

\* What the application is told of the states the machine rests in.
LEMMA Told ==
  /\ ProgramState("created") = "CREATED" /\ ProgramState("loaded") = "LOADED"
  /\ ProgramState("activate_failed") = "LOADED" /\ ProgramState("ac_ready") = "READY"
  /\ ProgramState("device_error") = "DEVICE_ERROR"
  /\ ProgramState("load_failed") = "LOAD_ERROR"
BY DEF ProgramState, ErrorSuper, CreatedSuper, LoadedSuper, ActiveSuper

LEMMA StatusReturned ==
  /\ op = "load" => Succeeded = (ProgramState(state) = "LOADED")
  /\ op = "activate" => Succeeded = (state = "ac_ready")
  /\ op \in {"unload", "deactivate"} => Succeeded = (ProgramState(state) \in {"CREATED", "LOADED"})
  /\ op \in {"destroy", "notify"} => Succeeded = TRUE
BY DEF Succeeded

\* What a call leaves behind, and the status it returns.
Leaves(p, ok) ==
  /\ published'.state = p /\ published'.qnn = qnn /\ published'.live = live
  /\ published'.initError = FALSE
  /\ last' = [op |-> op, ok |-> ok]

\* The status is success in these states.
Succeeds(call) ==
  CASE call = "load"                     -> {"loaded", "activate_failed"}
    [] call = "activate"                 -> {"ac_ready"}
    [] call \in {"unload", "deactivate"} -> {"created", "loaded", "activate_failed"}
    [] call \in {"destroy", "notify"}    -> RestStates

LEMMA Returned ==
  ASSUME RInv, Return, NEW p \in RestStates, At(p, <<>>),
         op \in {"load", "activate", "unload", "deactivate", "destroy", "notify"}
  PROVE  /\ p \in Succeeds(op) => Leaves(p, TRUE)
         /\ p \notin Succeeds(op) => Leaves(p, FALSE)
<1>1. /\ published'.state = p /\ published'.qnn = qnn /\ published'.live = live
      /\ published'.initError = FALSE
      /\ last' = [op |-> op, ok |-> Succeeded]
      /\ state = p
  BY DEF Return, Snapshot, At
<1>2. ProgramState(p) = "LOADED" <=> p \in {"loaded", "activate_failed"}
  BY Told DEF RestStates
<1>3. ProgramState(p) \in {"CREATED", "LOADED"} <=> p \in {"created", "loaded", "activate_failed"}
  BY Told DEF RestStates
<1>4. Succeeded = (p \in Succeeds(op))
  <2>1. CASE op = "load"
    BY <1>1, <1>2, <2>1, StatusReturned DEF Succeeds
  <2>2. CASE op = "activate"
    BY <1>1, <2>2, StatusReturned DEF Succeeds
  <2>3. CASE op \in {"unload", "deactivate"}
    BY <1>1, <1>3, <2>3, StatusReturned DEF Succeeds
  <2>4. CASE op \in {"destroy", "notify"}
    BY <2>4, StatusReturned DEF Succeeds
  <2>5. QED
    BY <2>1, <2>2, <2>3, <2>4
<1>5. ASSUME p \in Succeeds(op) PROVE Leaves(p, TRUE)
  <2>1. Succeeded = TRUE
    BY <1>4, <1>5
  <2>2. QED
    BY <1>1, <2>1 DEF Leaves
<1>6. ASSUME p \notin Succeeds(op) PROVE Leaves(p, FALSE)
  <2>1. (p \in Succeeds(op)) = FALSE
    BY <1>6
  <2>2. Succeeded = FALSE
    BY <1>4, <2>1
  <2>3. QED
    BY <1>1, <2>2 DEF Leaves
<1>7. QED
  BY <1>5, <1>6

LEMMA FirstReturns ==
  ASSUME RInv, Return, published.initError
  PROVE  /\ op \in {"load", "activate", "unload", "deactivate", "notify"}
         /\ Lifecycle!FirstCallFails(op)
<1>1. FirstCallFails /\ signals = <<>> /\ holder # Nobody
  BY DEF RInv, Midway, Return
<1>2. op \in {"load", "activate", "unload", "deactivate", "notify"}
  BY <1>1 DEF FirstCallFails, Ops
<1>3. At("device_error", <<>>)
  BY <1>1, ShortQueues DEF FirstCallFails, At
<1>4. /\ op = "notify" => Leaves("device_error", TRUE)
      /\ op # "notify" => Leaves("device_error", FALSE)
  BY <1>2, <1>3, Returned DEF RestStates, Succeeds
<1>5. Leaves("device_error", op = "notify")
  BY <1>4 DEF Leaves
<1>6. QED
  BY <1>1, <1>2, <1>5 DEF FirstCallFails, Untouched, Leaves, Lifecycle!FirstCallFails,
     Lifecycle!Fail, Lifecycle!Returns, Lifecycle!TornDown

\* A call with nothing to do leaves the program as it was.
LEMMA NothingReturns ==
  ASSUME RInv, Return, ~published.initError, NothingToDo, NEW ok, Leaves(published.state, ok)
  PROVE  Lifecycle!Stay(op, ok)
<1>1. published.initError = FALSE
  BY DEF RInv, IInv, TypeOK
<1>2. QED
  BY <1>1 DEF NothingToDo, Untouched, Leaves, Lifecycle!Stay, Lifecycle!Returns

LEMMA loadReturns ==
  ASSUME RInv, Return, op = "load"
  PROVE  Lifecycle!Load
<1>1. CASE published.initError
  BY <1>1, FirstReturns DEF Lifecycle!Load
<1>2. CASE ~published.initError
  <2>1. (NothingToDo \/ Loads) /\ signals = <<>>
    BY <1>2 DEF RInv, Midway, CallProceeds, Return
  <2>2. CASE NothingToDo
    <3>1. published.state = "device_error" /\ At("device_error", <<>>)
      BY <2>1, <2>2, ShortQueues DEF NothingToDo, Idles, At
    <3>2. Leaves("device_error", FALSE)
      BY <3>1, Returned DEF RestStates, Succeeds
    <3>3. Lifecycle!Stay("load", FALSE)
      BY <1>2, <2>2, <3>1, <3>2, NothingReturns
    <3>4. QED
      BY <1>2, <3>1, <3>3 DEF Lifecycle!Load
  <2>3. CASE Loads
    <3>1. \/ At("loaded", <<>>) /\ Leaves("loaded", TRUE)
          \/ At("load_failed", <<>>) /\ Leaves("load_failed", FALSE)
      BY <2>1, <2>3, ShortQueues, Returned DEF Loads, At, RestStates, Succeeds
    <3>2. QED
      BY <1>2, <2>3, <3>1 DEF Loads, Untouched, Leaves, Lifecycle!Load, Lifecycle!Rest,
         Lifecycle!Returns
  <2>4. QED
    BY <2>1, <2>2, <2>3
<1>3. QED
  BY <1>1, <1>2

LEMMA activateReturns ==
  ASSUME RInv, Return, op = "activate"
  PROVE  Lifecycle!Activate
<1>1. CASE published.initError
  BY <1>1, FirstReturns DEF Lifecycle!Activate
<1>2. CASE ~published.initError
  <2>1. (NothingToDo \/ Activates) /\ signals = <<>> /\ published.initError = FALSE
    BY <1>2 DEF RInv, Midway, CallProceeds, Return, IInv, TypeOK
  <2>2. CASE NothingToDo
    <3>1. published.state \in ErrorSuper /\ At(published.state, <<>>)
      BY <2>1, <2>2, ShortQueues DEF NothingToDo, Idles, At
    <3>2. Leaves(published.state, FALSE)
      BY <3>1, Returned DEF RestStates, ErrorSuper, Succeeds
    <3>3. Lifecycle!Stay("activate", FALSE)
      BY <1>2, <2>2, <3>2, NothingReturns
    <3>4. QED
      BY <1>2, <3>1, <3>3 DEF Lifecycle!Activate, ErrorSuper
  <2>3. CASE Activates
    <3>1. \/ Activated /\ At("ac_ready", <<>>)
          \/ Inactive /\ At("activate_failed", <<>>)
      BY <2>1, <2>3, ShortQueues DEF Activates, LoadsFirst, At
    <3>2. CASE Activated /\ At("ac_ready", <<>>)
      <4>1. Leaves("ac_ready", TRUE)
        BY <3>2, Returned DEF RestStates, Succeeds
      <4>2. /\ qnn \in {NoNet} \cup (Networks \ published.live) /\ qnn # NoNet
            /\ live = published.live \cup ({qnn} \ {NoNet})
        BY <3>2, NetworksAssumption DEF Activated
      <4>3. QED
        BY <1>2, <2>1, <2>3, <4>1, <4>2 DEF Activates, Leaves, Lifecycle!Activate, Lifecycle!Returns
    <3>3. CASE Inactive /\ At("activate_failed", <<>>)
      <4>1. Leaves("activate_failed", FALSE)
        BY <3>3, Returned DEF RestStates, Succeeds
      <4>2. qnn = NoNet /\ live = published.live \cup ({NoNet} \ {NoNet})
        BY <3>3 DEF Inactive
      <4>3. QED
        BY <1>2, <2>1, <2>3, <4>1, <4>2 DEF Activates, Leaves, Lifecycle!Activate, Lifecycle!Returns
    <3>4. QED
      BY <3>1, <3>2, <3>3
  <2>4. QED
    BY <2>1, <2>2, <2>3
<1>3. QED
  BY <1>1, <1>2

LEMMA unloadReturns ==
  ASSUME RInv, Return, op = "unload"
  PROVE  Lifecycle!Unload
<1>1. CASE published.initError
  BY <1>1, FirstReturns DEF Lifecycle!Unload
<1>2. CASE ~published.initError
  <2>1. (NothingToDo \/ Unloads) /\ signals = <<>> /\ published.initError = FALSE
    BY <1>2 DEF RInv, Midway, CallProceeds, Return, IInv, TypeOK
  <2>2. CASE NothingToDo
    <3>1. /\ published.state \in ErrorSuper \cup {"created", "activate_failed"}
          /\ At(published.state, <<>>)
      BY <2>1, <2>2, ShortQueues DEF NothingToDo, Idles, At
    <3>2. /\ published.state \in {"created", "activate_failed"} => Leaves(published.state, TRUE)
          /\ published.state \in ErrorSuper => Leaves(published.state, FALSE)
      BY <3>1, Returned DEF RestStates, ErrorSuper, Succeeds
    <3>3. /\ published.state \in {"created", "activate_failed"} => Lifecycle!Stay("unload", TRUE)
          /\ published.state \in ErrorSuper => Lifecycle!Stay("unload", FALSE)
      BY <1>2, <2>2, <3>2, NothingReturns
    <3>4. QED
      BY <1>2, <3>1, <3>3 DEF Lifecycle!Unload, ErrorSuper
  <2>3. CASE Unloads
    <3>1. CASE At("created", <<>>)
      <4>1. Leaves("created", TRUE)
        BY <3>1, Returned DEF RestStates, Succeeds
      <4>2. \/ published.state = "loaded" /\ Untouched
            \/ published.state = "ac_ready" /\ TornDown
        BY <2>3, <3>1 DEF Unloads, At
      <4>3. QED
        BY <1>2, <2>1, <4>1, <4>2 DEF Untouched, TornDown, Leaves, Lifecycle!Unload,
           Lifecycle!Rest, Lifecycle!Teardown, Lifecycle!TornDown, Lifecycle!Returns
    <3>2. CASE At("device_error", <<>>)
      <4>1. Leaves("device_error", FALSE)
        BY <3>2, Returned DEF RestStates, Succeeds
      <4>2. published.state = "ac_ready" /\ DeactivateMayFail /\ (TornDown \/ Refused)
        BY <2>3, <3>2 DEF Unloads, At
      <4>3. QED
        BY <1>2, <4>1, <4>2 DEF Untouched, TornDown, Refused, Leaves, Lifecycle!Unload,
           Lifecycle!Teardown, Lifecycle!Fail, Lifecycle!TornDown, Lifecycle!Kept,
           Lifecycle!Returns
    <3>3. QED
      BY <2>1, <2>3, <3>1, <3>2, ShortQueues DEF Unloads, At
  <2>4. QED
    BY <2>1, <2>2, <2>3
<1>3. QED
  BY <1>1, <1>2

\* The end of a deactivation, whoever asked for it.
LEMMA TeardownReturns ==
  ASSUME RInv, Return, op \in {"deactivate", "destroy"}, ~published.initError, Deactivates
  PROVE  published.state = "ac_ready" /\ Lifecycle!Teardown(op, "loaded")
<1>1. signals = <<>> /\ published.initError = FALSE /\ published.state = "ac_ready"
  BY DEF RInv, Return, IInv, TypeOK, Deactivates
<1>2. CASE At("loaded", <<>>)
  <2>1. Leaves("loaded", TRUE)
    BY <1>2, Returned DEF RestStates, Succeeds
  <2>2. TornDown
    BY <1>2 DEF Deactivates, At
  <2>3. QED
    BY <1>1, <2>1, <2>2 DEF TornDown, Leaves, Lifecycle!Teardown, Lifecycle!TornDown,
       Lifecycle!Returns
<1>3. CASE At("device_error", <<>>)
  <2>1. Leaves("device_error", op = "destroy")
    <3>1. /\ op = "destroy" => Leaves("device_error", TRUE)
          /\ op # "destroy" => Leaves("device_error", FALSE)
      BY <1>3, Returned DEF RestStates, Succeeds
    <3>2. QED
      BY <3>1 DEF Leaves
  <2>2. DeactivateMayFail /\ (TornDown \/ Refused)
    BY <1>3 DEF Deactivates, At
  <2>3. QED
    BY <1>1, <2>1, <2>2 DEF Untouched, TornDown, Refused, Leaves, Lifecycle!Teardown,
       Lifecycle!Fail, Lifecycle!TornDown, Lifecycle!Kept, Lifecycle!Returns
<1>4. QED
  BY <1>1, <1>2, <1>3, ShortQueues DEF Deactivates, At

LEMMA deactivateReturns ==
  ASSUME RInv, Return, op = "deactivate"
  PROVE  Lifecycle!Deactivate
<1>1. CASE published.initError
  BY <1>1, FirstReturns DEF Lifecycle!Deactivate
<1>2. CASE ~published.initError
  <2>1. (NothingToDo \/ Deactivates) /\ signals = <<>>
    BY <1>2 DEF RInv, Midway, CallProceeds, Return
  <2>2. CASE NothingToDo
    <3>1. published.state \in RestStates \ {"ac_ready"} /\ At(published.state, <<>>)
      BY <2>1, <2>2, ShortQueues DEF NothingToDo, Idles, At
    <3>2. /\ published.state \in {"created", "loaded", "activate_failed"} =>
               Leaves(published.state, TRUE)
          /\ published.state \in ErrorSuper => Leaves(published.state, FALSE)
      BY <3>1, Returned DEF Succeeds, ErrorSuper
    <3>3. /\ published.state \in {"created", "loaded", "activate_failed"} =>
               Lifecycle!Stay("deactivate", TRUE)
          /\ published.state \in ErrorSuper => Lifecycle!Stay("deactivate", FALSE)
      BY <1>2, <2>2, <3>2, NothingReturns
    <3>4. QED
      BY <1>2, <3>1, <3>3 DEF Lifecycle!Deactivate, RestStates, ErrorSuper
  <2>3. CASE Deactivates
    BY <1>2, <2>3, TeardownReturns DEF Lifecycle!Deactivate
  <2>4. QED
    BY <2>1, <2>2, <2>3
<1>3. QED
  BY <1>1, <1>2

LEMMA notifyReturns ==
  ASSUME RInv, Return, op = "notify"
  PROVE  Lifecycle!DeviceDown \/ Lifecycle!DeviceUp
<1>1. CASE published.initError
  BY <1>1, FirstReturns DEF Lifecycle!DeviceDown
<1>2. CASE ~published.initError
  <2>1. (NothingToDo \/ Notified) /\ signals = <<>>
    BY <1>2 DEF RInv, Midway, CallProceeds, Return
  <2>2. CASE NothingToDo
    <3>1. published.state \in RestStates /\ At(published.state, <<>>)
      BY <2>1, <2>2, ShortQueues DEF NothingToDo, Idles, At
    <3>2. Leaves(published.state, TRUE)
      BY <3>1, Returned DEF Succeeds
    <3>3. Lifecycle!Stay("notify", TRUE)
      BY <1>2, <2>2, <3>2, NothingReturns
    <3>4. QED
      BY <1>2, <3>3 DEF Lifecycle!DeviceUp
  <2>3. CASE Notified /\ At("device_error", <<>>)
    <3>1. Leaves("device_error", TRUE)
      BY <2>3, Returned DEF RestStates, Succeeds
    <3>2. published.state \in CreatedSuper /\ (TornDown \/ Refused)
      BY <2>3, ShortQueues DEF Notified, At
    <3>3. published.state \in Lifecycle!CreatedPhases
      BY <3>2 DEF RInv, Published, RestStates, CreatedSuper, LoadedSuper, ActiveSuper,
         Lifecycle!CreatedPhases, Lifecycle!LoadedPhases
    <3>4. QED
      BY <1>2, <3>1, <3>2, <3>3 DEF Untouched, TornDown, Refused, Leaves, Lifecycle!DeviceDown,
         Lifecycle!Fail, Lifecycle!TornDown, Lifecycle!Kept, Lifecycle!Returns
  <2>4. CASE Notified /\ At("created", <<>>)
    <3>1. Leaves("created", TRUE)
      BY <2>4, Returned DEF RestStates, Succeeds
    <3>2. published.state = "device_error" /\ Untouched
      BY <2>4, ShortQueues DEF Notified, At
    <3>3. QED
      BY <1>2, <3>1, <3>2 DEF Untouched, Leaves, Lifecycle!DeviceUp, Lifecycle!Rest,
         Lifecycle!Returns
  <2>5. QED
    BY <2>1, <2>2, <2>3, <2>4, ShortQueues DEF Notified, At
<1>3. QED
  BY <1>1, <1>2

\* The object dies with its deactivation, if it needs one.
LEMMA destroyReturns ==
  ASSUME RInv, Return, op = "destroy"
  PROVE  Lifecycle!Destroy
<1>1. ~published.initError /\ (NothingToDo \/ Deactivates) /\ signals = <<>>
  <2>1. holder # Nobody /\ signals = <<>>
    BY DEF Return
  <2>2. QED
    BY <2>1 DEF RInv, Midway, FirstCallFails, CallProceeds
<1>2. \/ published.state = "ac_ready" /\ Lifecycle!Teardown("destroy", "loaded")
      \/ published.state # "ac_ready" /\ Lifecycle!Stay("destroy", TRUE)
  <2>1. CASE Deactivates
    BY <1>1, <2>1, TeardownReturns
  <2>2. CASE NothingToDo
    <3>1. published.state \in RestStates \ {"ac_ready"} /\ At(published.state, <<>>)
      BY <1>1, <2>2, ShortQueues DEF NothingToDo, Idles, At
    <3>2. Leaves(published.state, TRUE)
      BY <3>1, Returned DEF Succeeds
    <3>3. QED
      BY <1>1, <2>2, <3>1, <3>2, NothingReturns
  <2>3. QED
    BY <1>1, <2>1, <2>2
<1>3. object = "closing" /\ execObjs = {} /\ op' = "none" /\ UNCHANGED <<object, execObjs>>
  BY DEF Return, RInv, ObjectLife
<1>4. QED
  BY <1>1, <1>2, <1>3 DEF Lifecycle!Destroy

LEMMA ReturnRefines ==
  ASSUME RInv, Return
  PROVE  Lifecycle!Next
<1>1. op \in Ops \ {"unload_deactivate"}
  BY DEF Return, RInv, IInv, TypeOK
<1>2. op' = "none" /\ UNCHANGED <<object, execObjs>>
  BY DEF Return
<1>3. CASE op \in {"load", "activate", "unload", "deactivate"}
  <2>1. object = "alive"
    BY <1>1, <1>3 DEF RInv, ObjectLife
  <2>2. Lifecycle!Load \/ Lifecycle!Activate \/ Lifecycle!Unload \/ Lifecycle!Deactivate
    BY <1>3, loadReturns, activateReturns, unloadReturns, deactivateReturns
  <2>3. QED
    BY <1>2, <1>3, <2>1, <2>2 DEF Lifecycle!Calls, Lifecycle!Next
<1>4. CASE op = "notify"
  <2>1. object # "gone"
    BY <1>4 DEF RInv, ObjectLife
  <2>2. QED
    BY <1>2, <1>4, <2>1, notifyReturns DEF Lifecycle!DeviceEvent, Lifecycle!Next
<1>5. CASE op = "destroy"
  BY <1>5, destroyReturns DEF Lifecycle!Next
<1>6. QED
  BY <1>1, <1>3, <1>4, <1>5 DEF Ops

\* What the machine is in when the mutex is free, for calls that return early.
LEMMA FoundAtRest ==
  ASSUME RInv, Free
  PROVE  /\ state = published.state /\ op = "none" /\ published.state \in RestStates
         /\ published.initError => state = "created"
BY DEF RInv, Free, Published, At, IInv, TypeOK

LEMMA EarlyRefines ==
  ASSUME RInv, NEW t \in Threads,
         \/ load(t) /\ state \in LoadedSuper
         \/ activate(t) /\ state = "ac_ready"
         \/ unload(t) /\ state \in ActiveSuper /\ execObjs # {}
         \/ processDeactivateCmd(t) /\ execObjs # {}
  PROVE  Lifecycle!Next
<1>1. CASE load(t) /\ state \in LoadedSuper
  <2>1. Early("load", TRUE) /\ object = "alive" /\ op = "none"
    BY <1>1, FoundAtRest DEF load, Idle
  <2>2. ~published.initError /\ published.state \in Lifecycle!LoadedPhases
    BY <1>1, FoundAtRest DEF load, LoadedSuper, ActiveSuper, RestStates, Lifecycle!LoadedPhases
  <2>3. QED
    BY <2>1, <2>2 DEF Early, Lifecycle!Load, Lifecycle!Stay, Lifecycle!Returns,
       Lifecycle!Calls, Lifecycle!Next
<1>2. CASE activate(t) /\ state = "ac_ready"
  <2>1. Early("activate", TRUE) /\ object = "alive" /\ op = "none"
    BY <1>2, FoundAtRest DEF activate, Idle
  <2>2. ~published.initError /\ published.state = "ac_ready"
    BY <1>2, FoundAtRest DEF activate
  <2>3. QED
    BY <2>1, <2>2 DEF Early, Lifecycle!Activate, Lifecycle!Stay, Lifecycle!Returns,
       Lifecycle!Calls, Lifecycle!Next
<1>3. CASE unload(t) /\ state \in ActiveSuper /\ execObjs # {}
  <2>1. Early("unload", FALSE) /\ object = "alive" /\ op = "none"
    BY <1>3, FoundAtRest DEF unload, Idle
  <2>2. ~published.initError /\ published.state = "ac_ready"
    BY <1>3, FoundAtRest DEF unload, ActiveSuper, RestStates
  <2>3. QED
    BY <1>3, <2>1, <2>2 DEF Early, Lifecycle!Unload, Lifecycle!Stay, Lifecycle!Returns,
       Lifecycle!Calls, Lifecycle!Next
<1>4. CASE processDeactivateCmd(t) /\ execObjs # {}
  <2>1. Early("deactivate", FALSE) /\ object = "alive"
    BY <1>4 DEF processDeactivateCmd, Idle
  <2>2. QED
    BY <1>4, <2>1 DEF Early, Lifecycle!Stay, Lifecycle!Returns, Lifecycle!Calls, Lifecycle!Next
<1>5. QED
  BY <1>1, <1>2, <1>3, <1>4

\* The abstract variables, but for the object.
LEMMA LockStutters ==
  ASSUME RInv, NEW t, NEW call \in Ops, NEW sig, Lock(t, call, sig),
         \/ UNCHANGED object /\ call # "destroy"
         \/ object = "deactivating" /\ call = "destroy"
  PROVE  UNCHANGED Lifecycle!vars
<1>1. op = "none" /\ op' = call
  BY DEF Lock, Free, RInv, IInv, TypeOK
<1>2. UNCHANGED <<published, execObjs, last>>
  BY DEF Lock
<1>3. QED
  BY <1>1, <1>2 DEF Lifecycle!vars

LEMMA CallRefines ==
  ASSUME RInv, NEW t \in Threads,
         \/ load(t) \/ activate(t) \/ unload(t)
         \/ processDeactivateCmd(t) \/ deactivate(t) \/ DestroyDeactivate(t)
  PROVE  Lifecycle!Next \/ UNCHANGED Lifecycle!vars
<1>0. {"load", "activate", "unload", "unload_deactivate", "deactivate", "destroy"} \subseteq Ops
  BY DEF Ops
<1>1. CASE load(t)
  BY <1>0, <1>1, EarlyRefines, LockStutters DEF load
<1>2. CASE activate(t)
  BY <1>0, <1>2, EarlyRefines, LockStutters DEF activate
<1>3. CASE unload(t)
  <2>1. CASE state \in ActiveSuper /\ execObjs # {}
    BY <1>3, <2>1, EarlyRefines
  <2>2. CASE state \in ActiveSuper /\ execObjs = {}
    BY <1>0, <1>3, <2>2, LockStutters DEF unload
  <2>3. CASE state \notin ActiveSuper
    BY <1>0, <1>3, <2>3, LockStutters DEF unload
  <2>4. QED
    BY <2>1, <2>2, <2>3
<1>4. CASE processDeactivateCmd(t)
  <2>1. CASE execObjs # {}
    BY <1>4, <2>1, EarlyRefines
  <2>2. CASE execObjs = {}
    BY <1>4, <2>2 DEF processDeactivateCmd, Lifecycle!vars
  <2>3. QED
    BY <2>1, <2>2
<1>5. CASE deactivate(t)
  BY <1>0, <1>5, LockStutters DEF deactivate
<1>6. CASE DestroyDeactivate(t)
  BY <1>0, <1>6, LockStutters DEF DestroyDeactivate
<1>7. QED
  BY <1>1, <1>2, <1>3, <1>4, <1>5, <1>6

\* A ready program lives on until its deactivation returns.
LEMMA DestroyRefines ==
  ASSUME RInv, Destroy
  PROVE  Lifecycle!Next \/ UNCHANGED Lifecycle!vars
<1>1. /\ op = "none" /\ object = "alive" /\ execObjs = {}
      /\ UNCHANGED <<published, execObjs, last, op>>
  BY FoundAtRest DEF Destroy
<1>2. CASE state \in ActiveSuper
  BY <1>1, <1>2 DEF Destroy, Lifecycle!vars
<1>3. CASE state \notin ActiveSuper
  <2>1. published.state # "ac_ready" /\ object' = "closing"
    BY <1>3, FoundAtRest DEF Destroy, ActiveSuper
  <2>2. QED
    BY <1>1, <2>1 DEF Lifecycle!Destroy, Lifecycle!Next
<1>4. QED
  BY <1>2, <1>3

LEMMA RestRefines ==
  ASSUME RInv, [Next]_vars
  PROVE  Lifecycle!Next \/ UNCHANGED Lifecycle!vars
<1>1. ASSUME NEW t \in Threads,
             \/ load(t) \/ activate(t) \/ unload(t)
             \/ processDeactivateCmd(t) \/ deactivate(t) \/ DestroyDeactivate(t)
      PROVE  Lifecycle!Next \/ UNCHANGED Lifecycle!vars
  BY <1>1, CallRefines
<1>2. ASSUME NEW e \in ExecObjs, registerExecObj(e)
      PROVE  Lifecycle!Next
  <2>1. op # "destroy" /\ object = "alive"
    BY <1>2 DEF registerExecObj, RInv, ObjectLife
  <2>2. QED
    BY <1>2, <2>1 DEF registerExecObj, Lifecycle!Register, Lifecycle!Next
<1>3. ASSUME NEW e \in ExecObjs, unregisterExecObj(e)
      PROVE  Lifecycle!Next
  BY <1>3 DEF unregisterExecObj, Lifecycle!Unregister, Lifecycle!Next
<1>4. CASE notifyDeviceStateInfo
  <2>1. PICK e \in DeviceEvents : Lock(Events, "notify", e.sig) /\ UNCHANGED object
    BY <1>4 DEF notifyDeviceStateInfo
  <2>2. "notify" \in Ops
    BY DEF Ops
  <2>3. QED
    BY <2>1, <2>2, LockStutters
<1>5. CASE Dispatch
  BY <1>5 DEF Dispatch, api, Lifecycle!vars
<1>6. CASE UnloadAfterDeactivate
  BY <1>6 DEF UnloadAfterDeactivate, Lifecycle!vars
<1>7. CASE Return
  BY <1>7, ReturnRefines
<1>8. CASE unRegisterNotifyDeviceStateInfo
  <2>1. op = "none"
    BY <1>8, FoundAtRest DEF unRegisterNotifyDeviceStateInfo
  <2>2. QED
    BY <1>8, <2>1 DEF unRegisterNotifyDeviceStateInfo, Lifecycle!Vanish, Lifecycle!Next
<1>9. CASE UNCHANGED vars
  BY <1>9 DEF vars, api, Lifecycle!vars
<1>10. QED
  BY <1>1, <1>2, <1>3, <1>4, <1>5, <1>6, <1>7, <1>8, <1>9, DestroyRefines DEF Next, Gone

-----------------------------------------------------------------------------
(* Theorems.                                                               *)

\* Hsm: the queue never holds more than three signals, however calls, failures
\* and events follow one another, although ACTIVATE posts itself again.
THEOREM QueueIsShort == Spec => []QueueBounded
<1>1. RInv => QueueBounded
  BY ShortEnough
<1>2. QED
  BY <1>1, MidwayInvariance, PTL

\* QProgramDevice: every call and every device event is one atomic step of
\* ProgramLifecycle, with the status that goes with where the program got to.
THEOREM LifecycleRefined == Spec => ImplementsLifecycle
<1>1. Init => Lifecycle!Init
  <2> SUFFICES ASSUME Init PROVE Lifecycle!Init
    OBVIOUS
  <2>1. published.initError \in BOOLEAN
    BY DEF Init
  <2>2. QED
    BY <2>1 DEF Init, Lifecycle!Init
<1>2. RInv /\ [Next]_vars => [Lifecycle!Next]_(Lifecycle!vars)
  BY RestRefines
<1>3. QED
  BY <1>1, <1>2, MidwayInvariance, PTL DEF Spec, ImplementsLifecycle, Lifecycle!Spec


=============================================================================
