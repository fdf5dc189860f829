-------------------------- MODULE HdrMetadataProofs --------------------------
(***************************************************************************)
(* The master sequence for every window size and every pattern of loss.    *)
(***************************************************************************)
EXTENDS HdrMetadata, TLAPS

Positive == Nat \ {0}

LEMMA Products ==
  ASSUME NEW W \in Positive, NEW p \in Int, NEW q \in Int, p < q
  PROVE  /\ p * W \in Int
         /\ q * W \in Int
         /\ p * W + W <= q * W
<1>1. PICK d \in Nat : q = p + 1 + d
  <2>1. q - p - 1 \in Nat /\ q = p + 1 + (q - p - 1)
    BY SMT
  <2> QED BY <2>1
<1>2. q * W = p * W + W + d * W
  BY <1>1, SMT DEF Positive
<1>3. d * W >= 0
  BY SMT DEF Positive
<1> QED BY <1>2, <1>3, SMT DEF Positive

LEMMA Division ==
  ASSUME NEW W \in Positive, NEW n \in Nat
  PROVE  /\ n \div W \in Nat
         /\ n % W \in 0 .. W - 1
         /\ n = (n \div W) * W + (n % W)
BY SMT DEF Positive

(* GetMasterSequence numbers the windows of W frames from one. *)
LEMMA WindowBounds ==
  ASSUME NEW W \in Positive, NEW n \in Nat
  PROVE  /\ GetMasterSequence(W, n) \in Nat
         /\ (GetMasterSequence(W, n) - 1) * W < n
         /\ n <= GetMasterSequence(W, n) * W
<1> DEFINE d == n \div W
           r == n % W
           m == GetMasterSequence(W, n)
<1>1. d \in Nat /\ r \in 0 .. W - 1 /\ n = d * W + r
  BY Division
<1>2. m = d + (IF r > 0 THEN 1 ELSE 0)
  BY SMT DEF GetMasterSequence, Positive
<1> HIDE DEF d, r, m
<1>3. CASE r > 0
  <2>1. m = d + 1 /\ m - 1 = d
    BY <1>1, <1>2, <1>3
  <2>2. m * W = d * W + W
    BY <2>1, <1>1, SMT DEF Positive
  <2>3. QED
    BY <2>1, <2>2, <1>1, <1>3, SMT DEF Positive, m
<1>4. CASE r = 0
  <2>1. m = d
    BY <1>1, <1>2, <1>4
  <2>2. (m - 1) * W = d * W - W
    BY <2>1, <1>1, SMT DEF Positive
  <2>3. QED
    BY <2>1, <2>2, <1>1, <1>4, SMT DEF Positive, m
<1>5. QED
  BY <1>1, <1>3, <1>4

LEMMA WindowUnique ==
  ASSUME NEW W \in Positive, NEW n \in Nat, NEW q \in Int,
         (q - 1) * W < n, n <= q * W
  PROVE  GetMasterSequence(W, n) = q
<1> DEFINE m == GetMasterSequence(W, n)
<1>1. m \in Nat /\ (m - 1) * W < n /\ n <= m * W
  BY WindowBounds
<1> HIDE DEF m
<1>2. CASE m < q
  <2>1. m <= q - 1 
    BY <1>1, <1>2
  <2>2. m * W <= (q - 1) * W
    BY <2>1, <1>1, Products, SMT DEF Positive
  <2> QED BY <2>2, <1>1, SMT DEF Positive
<1>3. CASE q < m
  <2>2. q * W <= (m - 1) * W
    BY <1>3, <1>1, Products, SMT DEF Positive
  <2> QED BY <2>2, <1>1, SMT DEF Positive
<1>4. QED
  BY <1>1, <1>2, <1>3 DEF m

LEMMA WindowMonotone ==
  ASSUME NEW W \in Positive, NEW a \in Nat, NEW b \in Nat, a <= b
  PROVE  GetMasterSequence(W, a) <= GetMasterSequence(W, b)
<1> DEFINE m == GetMasterSequence(W, a)
           q == GetMasterSequence(W, b)
<1>1. m \in Nat /\ q \in Nat /\ (m - 1) * W < a /\ b <= q * W
  BY WindowBounds
<1> HIDE DEF m, q
<1>2. CASE q < m
  <2>2. q * W <= (m - 1) * W
    BY <1>2, <1>1, Products, SMT DEF Positive
  <2> QED BY <2>2, <1>1, SMT DEF Positive
<1>4. QED
  BY <1>1, <1>2 DEF m, q

(* The frame a window of W frames places at position i is in that window.  *)
LEMMA WindowOfPosition ==
  ASSUME NEW W \in Positive, NEW k \in Positive, NEW i \in 0 .. W - 1
  PROVE  /\ (k - 1) * W + 1 + i \in Positive
         /\ GetMasterSequence(W, (k - 1) * W + 1 + i) = k
<1>1. k * W = (k - 1) * W + W
  BY SMT DEF Positive
<1>2. (k - 1) * W >= 0 /\ (k - 1) * W \in Int
  BY SMT DEF Positive
<1>3. (k - 1) * W + 1 + i \in Positive
  BY <1>2, SMT DEF Positive
<1>4. (k - 1) * W < (k - 1) * W + 1 + i /\ (k - 1) * W + 1 + i <= k * W
  BY <1>1, <1>2, SMT DEF Positive
<1>5. QED
  BY <1>3, <1>4, WindowUnique, SMT DEF Positive

(* The loop moves the last frame of a window back to its first one.        *)
LEMMA LoopFindsFirst ==
  ASSUME NEW W \in Positive, NEW m \in Positive
  PROVE  StepsBack(W, m * W, m) = W - 1
<1> DEFINE n == m * W
           Stops(d) == /\ \A j \in 1 .. d : GetMasterSequence(W, n - j) = m
                       /\ d = W \/ GetMasterSequence(W, n - d - 1) # m
<1>1. n \in Int /\ n = (m - 1) * W + W /\ (m - 1) * W \in Nat
  BY SMT DEF Positive
<1>2. ASSUME NEW j \in 1 .. W - 1
      PROVE  GetMasterSequence(W, n - j) = m
  <2>1. n - j = (m - 1) * W + 1 + (W - 1 - j) /\ W - 1 - j \in 0 .. W - 1
    BY <1>1, SMT DEF Positive
  <2>2. QED
    BY <2>1, WindowOfPosition
<1>3. GetMasterSequence(W, n - W) # m
  <2>1. n - W \in Nat /\ n - W = (m - 1) * W
    BY <1>1, SMT DEF Positive
  <2>2. (m - 1) * W < n - W \/ GetMasterSequence(W, n - W) # m
    BY <2>1, WindowBounds
  <2>3. QED
    BY <2>1, <2>2, SMT
<1> HIDE DEF n
<1>4. W - 1 \in 0 .. W /\ Stops(W - 1)
  <2>1. n - (W - 1) - 1 = n - W
    BY <1>1, SMT DEF Positive
  <2>2. QED
    BY <1>2, <1>3, <2>1, SMT DEF Positive
<1>5. ASSUME NEW d \in 0 .. W, Stops(d)
      PROVE  d = W - 1
  <2>1. CASE d = W
    <3>1. W \in 1 .. d
      BY <2>1, SMT DEF Positive
    <3>2. QED
      BY <3>1, <1>5, <1>3
  <2>2. CASE d < W - 1
    <3>1. d + 1 \in 1 .. W - 1 /\ n - d - 1 = n - (d + 1) /\ d # W
      BY <2>2, <1>1, SMT DEF Positive
    <3>2. GetMasterSequence(W, n - d - 1) = m
      BY <3>1, <1>2
    <3>3. QED
      BY <3>1, <3>2, <1>5
  <2>3. QED
    BY <2>1, <2>2, SMT DEF Positive
<1>6. StepsBack(W, n, m) = CHOOSE d \in 0 .. W : Stops(d)
  BY DEF StepsBack
<1>7. QED
  BY <1>4, <1>5, <1>6 DEF n

(* The window a switch to the frame n, the i-th of its profile, continues  *)
(* with.                                                                   *)
Continued(n, prv, i) ==
  LET m == GetMasterSequence(prv, n + _frameOffset)
  IN  IF prv > 1 /\ _lastSequenceIndex < prv - 1 /\ i = 0 THEN m + 1 ELSE m

(* What all the arithmetic of CalculateFrameOffset comes to.               *)
LEMMA OffsetContinues ==
  ASSUME NEW n \in Nat, _frameOffset \in Int, n + _frameOffset \in Positive,
         NEW prv \in Positive, NEW nx \in Positive, NEW i \in 0 .. nx - 1
  PROVE  LET off == CalculateFrameOffset(n, prv, nx, i)
             k == Continued(n, prv, i)
         IN  /\ k \in Positive
             /\ off \in Int
             /\ n + off \in Positive
             /\ n + off = (k - 1) * nx + 1 + i
             /\ GetMasterSequence(nx, n + off) = k
<1> DEFINE m == GetMasterSequence(prv, n + _frameOffset)
           mid == prv > 1 /\ _lastSequenceIndex < prv - 1
           first == (m - 1) * nx + 1 + i
           off == CalculateFrameOffset(n, prv, nx, i)
           k == Continued(n, prv, i)
<1>1. m \in Positive
  <2>1. m \in Nat /\ n + _frameOffset <= m * prv
    BY WindowBounds DEF Positive
  <2>2. m # 0
    BY <2>1, SMT DEF Positive
  <2>3. QED
    BY <2>1, <2>2 DEF Positive
<1>2. first \in Positive /\ GetMasterSequence(nx, first) = m
  BY <1>1, WindowOfPosition
<1>3. m * nx - StepsBack(nx, m * nx, m) + i = first
  <2>1. StepsBack(nx, m * nx, m) = nx - 1
    BY <1>1, LoopFindsFirst
  <2>2. m * nx = (m - 1) * nx + nx /\ (m - 1) * nx \in Int
    BY <1>1, SMT DEF Positive
  <2> HIDE DEF m
  <2>3. QED
    BY <2>1, <2>2, SMT DEF Positive
<1>4. off = (IF mid /\ i = 0 THEN first + nx ELSE first) - n
  BY <1>2, <1>3, Zenon DEF CalculateFrameOffset
<1>5. k = IF mid /\ i = 0 THEN m + 1 ELSE m
  BY Zenon DEF Continued
<1>6. k \in Positive
  BY <1>1, <1>5, SMT DEF Positive
<1>7. (m + 1 - 1) * nx = (m - 1) * nx + nx /\ (m - 1) * nx \in Int
  BY <1>1, SMT DEF Positive
<1> HIDE DEF m, mid, off, k
<1>8. off \in Int /\ n + off = (k - 1) * nx + 1 + i
  BY <1>1, <1>2, <1>4, <1>5, <1>7, SMT DEF Positive
<1>9. n + off \in Positive /\ GetMasterSequence(nx, n + off) = k
  BY <1>6, <1>8, WindowOfPosition
<1>10. QED
  BY <1>6, <1>8, <1>9 DEF off, k

-----------------------------------------------------------------------------
(* The invariant. *)

(* The active profile and the one last seen have exposures. *)
SizesInv ==
  /\ windowSize[profile] \in Positive
  /\ windowSize[_lastProfile] \in Positive
  /\ index \in 0 .. windowSize[profile] - 1
  /\ _lastSequenceIndex \in 0 .. windowSize[_lastProfile] - 1

(* The last master sequence is that of the last frame, moved by the offset *)
(* to a positive number.                                                   *)
NumbersInv ==
  /\ number \in Positive
  /\ _lastFrameNumber <= number
  /\ _lastFrameNumber = NoFrame =>
       /\ _frameOffset = 0
       /\ MasterSequence = 0
       /\ lastWindow = 0
  /\ _lastFrameNumber # NoFrame =>
       /\ _lastFrameNumber + _frameOffset \in Positive
       /\ MasterSequence = GetMasterSequence(windowSize[_lastProfile],
                                             _lastFrameNumber + _frameOffset)

(* The place of the position i of window k in the frames of a profile.     *)
Place(k, p, i) == (k - 1) * windowSize[p] + 1 + i

(* The frame last seen and, until its profile is left, the camera are at   *)
(* the place their exposure has in its window.                             *)
LastInPlace ==
  _lastFrameNumber # NoFrame /\ ~hidden =>
    _lastFrameNumber + _frameOffset
      = Place(MasterSequence, _lastProfile, _lastSequenceIndex)

CameraInPlace ==
  profile = _lastProfile /\ ~hidden =>
    /\ MasterSequence + window - lastWindow \in Positive
    /\ number + _frameOffset
         = Place(MasterSequence + window - lastWindow, profile, index)

(* A profile that is left before any of its frames is seen is hidden.     *)
FirstSeen ==
  _lastFrameNumber = NoFrame /\ ~hidden => profile = _lastProfile

InPlace == LastInPlace /\ CameraInPlace /\ FirstSeen

IInv == TypeOK /\ SizesInv /\ NumbersInv /\ InPlace

LEMMA InvInitially == Init => IInv
<1> SUFFICES ASSUME Init PROVE IInv
  OBVIOUS
<1>1. /\ windowSize \in [Profiles -> Sizes]
      /\ windowSize[0] \in Positive
  <2>1. windowSize \in [Profiles -> Sizes] /\ windowSize[0] > 0
    BY DEF Init, Configurations
  <2>2. windowSize[0] \in 0 .. 255
    BY <2>1, SizesAssumption DEF Profiles
  <2>3. QED
    BY <2>1, <2>2, SMT DEF Positive
<1>2. TypeOK /\ SizesInv /\ NumbersInv /\ LastInPlace /\ FirstSeen
  <2>1. TypeOK
    <3>1. hidden \in BOOLEAN
      BY DEF Init
    <3>2. 0 \in Profiles /\ 0 \in Nat /\ 1 \in Nat /\ 0 \in Int
      BY DEF Profiles
    <3>3. QED
      BY <1>1, <3>1, <3>2, Zenon DEF Init, TypeOK, NoFrame
  <2>2. SizesInv
    BY <1>1, SMT DEF Init, SizesInv, Positive
  <2>3. NumbersInv /\ LastInPlace /\ FirstSeen
    BY SMT DEF Init, NumbersInv, LastInPlace, FirstSeen, Positive, NoFrame
  <2>4. QED
    BY <2>1, <2>2, <2>3
<1>3. (0 + 1 - 0 - 1) * windowSize[0] = 0
  BY <1>1, SMT DEF Positive
<1>4. CameraInPlace
  BY <1>3, SMT DEF Init, CameraInPlace, Place, Positive
<1>5. QED
  BY <1>2, <1>4 DEF IInv, InPlace

(* A frame of the profile last seen keeps the offset. *)
LEMMA SameProfileStep ==
  ASSUME IInv, ProcessFrame, ~ProfileSwitch
  PROVE  /\ IInv'
         /\ MasterSequence' >= MasterSequence
         /\ ~hidden => MasterSequence' - MasterSequence = window - lastWindow
<1> USE DEF IInv, InPlace, NoFrame
<1> DEFINE W == windowSize[profile]
<1>1. /\ W \in Positive
      /\ _frameOffset' = _frameOffset
      /\ MasterSequence' = GetMasterSequence(W, number + _frameOffset)
      /\ _frameOffset \in Int /\ number \in Positive
  BY DEF ProcessFrame, TypeOK, SizesInv, NumbersInv
<1>2. number + _frameOffset \in Positive
  BY SMT DEF ProcessFrame, TypeOK, NumbersInv, Positive
<1>3. MasterSequence' \in Nat /\ MasterSequence' >= MasterSequence
  <2>1. MasterSequence' \in Nat
    <3>1. number + _frameOffset \in Nat
      BY <1>2 DEF Positive
    <3>2. QED
      BY <1>1, <3>1, WindowBounds
  <2>2. CASE _lastFrameNumber = NoFrame
    BY <2>1, <2>2 DEF NumbersInv
  <2>3. CASE _lastFrameNumber # NoFrame
    <3>1. /\ _lastProfile = profile
          /\ _lastFrameNumber + _frameOffset \in Positive
          /\ MasterSequence
               = GetMasterSequence(W, _lastFrameNumber + _frameOffset)
      BY <2>3 DEF ProfileSwitch, NumbersInv
    <3>2. _lastFrameNumber + _frameOffset <= number + _frameOffset
      BY <1>1, SMT DEF NumbersInv, TypeOK, Positive
    <3>3. QED
      BY <1>1, <1>2, <2>1, <3>1, <3>2, WindowMonotone, SMT DEF Positive
  <2>4. QED
    BY <2>1, <2>2, <2>3
<1>4. TypeOK' /\ SizesInv' /\ NumbersInv' /\ FirstSeen'
  <2>1. TypeOK'
    BY <1>1, <1>3, SMT DEF ProcessFrame, TypeOK, cameraVars, Positive
  <2>2. SizesInv'
    BY DEF ProcessFrame, SizesInv, cameraVars
  <2>3. NumbersInv'
    BY <1>1, <1>2, SMT DEF ProcessFrame, NumbersInv, cameraVars, Positive
  <2>4. FirstSeen'
    BY DEF ProcessFrame, cameraVars, FirstSeen
  <2>5. QED
    BY <2>1, <2>2, <2>3, <2>4
<1>5. CASE hidden
  BY <1>3, <1>4, <1>5 DEF ProcessFrame, cameraVars, LastInPlace, CameraInPlace
<1>6. CASE ~hidden /\ profile # _lastProfile
  BY <1>6 DEF ProfileSwitch, FirstSeen
<1>7. CASE ~hidden /\ profile = _lastProfile
  <2> DEFINE k == MasterSequence + window - lastWindow
  <2>1. /\ k \in Positive
        /\ index \in 0 .. W - 1
        /\ number + _frameOffset = (k - 1) * W + 1 + index
    BY <1>7 DEF CameraInPlace, Place, SizesInv
  <2>2. MasterSequence' = k
    BY <1>1, <2>1, WindowOfPosition
  <2>3. MasterSequence' - MasterSequence = window - lastWindow
    BY <2>2, SMT DEF TypeOK
  <2>4. MasterSequence' + window' - lastWindow' = k
    BY <2>1, <2>2, SMT DEF ProcessFrame, cameraVars, TypeOK, Positive
  <2>5. QED
    BY <1>1, <1>3, <1>4, <2>1, <2>2, <2>3, <2>4
       DEF ProcessFrame, cameraVars, LastInPlace, CameraInPlace, Place
<1>8. QED
  BY <1>5, <1>6, <1>7

(* A frame of the other profile gets an offset that continues the windows. *)
LEMMA SwitchStep ==
  ASSUME IInv, ProcessFrame, ProfileSwitch
  PROVE  /\ IInv'
         /\ MasterSequence' >= MasterSequence
         /\ index = 0 /\ ~hidden =>
              /\ MasterSequence' > MasterSequence
              /\ number = _lastFrameNumber + 1
                   => MasterSequence' = MasterSequence + 1
<1> USE DEF IInv, InPlace, NoFrame
<1> DEFINE prv == windowSize[_lastProfile]
           nx == windowSize[profile]
           x == number + _frameOffset
           y == _lastFrameNumber + _frameOffset
           off == CalculateFrameOffset(number, prv, nx, index)
           k == Continued(number, prv, index)
           m == GetMasterSequence(prv, x)
           mid == prv > 1 /\ _lastSequenceIndex < prv - 1
<1>1. /\ prv \in Positive /\ nx \in Positive
      /\ index \in 0 .. nx - 1 /\ _lastSequenceIndex \in 0 .. prv - 1
      /\ number \in Positive /\ _frameOffset \in Int
      /\ _lastFrameNumber \in Nat
  BY DEF SizesInv, NumbersInv, TypeOK
<1>2. /\ _lastFrameNumber < number
      /\ y \in Positive
      /\ MasterSequence = GetMasterSequence(prv, y)
  BY DEF ProcessFrame, ProfileSwitch, NumbersInv
<1>3. /\ x \in Positive /\ y <= x
      /\ number = _lastFrameNumber + 1 => x = y + 1
  BY <1>1, <1>2, SMT DEF Positive
<1>4. /\ _frameOffset' = off
      /\ MasterSequence' = GetMasterSequence(nx, number + off)
  BY DEF ProcessFrame, ProfileSwitch
<1>5. /\ k \in Positive
      /\ off \in Int
      /\ number + off \in Positive
      /\ number + off = (k - 1) * nx + 1 + index
      /\ GetMasterSequence(nx, number + off) = k
  <2>1. number \in Nat
    BY <1>1 DEF Positive
  <2>2. QED
    BY <1>1, <1>3, <2>1, OffsetContinues
<1>6. MasterSequence \in Nat /\ m \in Nat /\ MasterSequence <= m
  <2>1. x \in Nat /\ y \in Nat
    BY <1>2, <1>3 DEF Positive
  <2>2. QED
    BY <1>1, <1>2, <1>3, <2>1, WindowBounds, WindowMonotone
<1>7. k = IF mid /\ index = 0 THEN m + 1 ELSE m
  BY Zenon DEF Continued
<1>8. MasterSequence' = k /\ MasterSequence' >= MasterSequence
  BY <1>4, <1>5, <1>6, <1>7, SMT DEF Positive
<1>9. IInv'
  <2> HIDE DEF off, k
  <2>1. TypeOK'
    BY <1>4, <1>5, <1>8, SMT DEF ProcessFrame, TypeOK, cameraVars, Positive
  <2>2. SizesInv'
    BY DEF ProcessFrame, SizesInv, cameraVars
  <2>3. NumbersInv'
    BY <1>1, <1>4, <1>5, SMT
       DEF ProcessFrame, NumbersInv, cameraVars, Positive
  <2>4. FirstSeen'
    BY DEF ProcessFrame, cameraVars, FirstSeen
  <2>5. MasterSequence' + window' - lastWindow' = k
    BY <1>5, <1>8, SMT DEF ProcessFrame, cameraVars, TypeOK, Positive
  <2>6. LastInPlace' /\ CameraInPlace'
    BY <1>4, <1>5, <1>8, <2>5
       DEF ProcessFrame, cameraVars, LastInPlace, CameraInPlace, Place
  <2>7. QED
    BY <2>1, <2>2, <2>3, <2>4, <2>6
<1>10. ASSUME index = 0, ~hidden
       PROVE  /\ MasterSequence < k
              /\ number = _lastFrameNumber + 1 => k = MasterSequence + 1
  <2> DEFINE M == MasterSequence
  <2>1. y = (M - 1) * prv + 1 + _lastSequenceIndex /\ M * prv = (M - 1) * prv + prv
    <3>1. y = (M - 1) * prv + 1 + _lastSequenceIndex
      BY <1>10 DEF ProfileSwitch, LastInPlace, Place
    <3>2. M * prv = (M - 1) * prv + prv
      BY <1>1, <1>6, SMT DEF Positive
    <3>3. QED
      BY <3>1, <3>2
  <2>2. /\ (M - 1) * prv \in Int
        /\ (M + 1 - 1) * prv = M * prv
        /\ (M + 1) * prv = M * prv + prv
    BY <1>1, <1>6, SMT DEF Positive
  <2>3. CASE mid
    <3>1. k = m + 1
      BY <1>7, <1>10, <2>3
    <3>2. ASSUME x = y + 1
          PROVE  m = M
      <4>1. (M - 1) * prv < x /\ x <= M * prv
        BY <1>1, <2>1, <2>2, <2>3, <3>2, SMT DEF Positive
      <4>2. x \in Nat /\ M \in Int
        BY <1>3, <1>6 DEF Positive
      <4>3. QED
        BY <1>1, <4>1, <4>2, WindowUnique
    <3>3. QED
      BY <1>3, <1>6, <3>1, <3>2, SMT
  <2>4. CASE ~mid
    <3>1. k = m
      BY <1>7, <2>4
    <3>2. _lastSequenceIndex = prv - 1
      BY <1>1, <2>4, SMT DEF Positive
    <3>3. y = M * prv
      BY <1>1, <2>1, <2>2, <3>2, SMT DEF Positive
    <3>4. M < m
      <4>1. x <= m * prv /\ x \in Nat
        BY <1>1, <1>3, WindowBounds DEF Positive
      <4>2. CASE m = M
        BY <1>1, <1>2, <1>3, <3>3, <4>1, <4>2, SMT DEF Positive
      <4>3. QED
        BY <1>6, <4>2, SMT
    <3>5. ASSUME x = y + 1
          PROVE  m = M + 1
      <4> DEFINE q == M + 1
      <4>1. x \in Nat /\ q \in Int
        BY <1>3, <1>6, SMT DEF Positive
      <4>2. q - 1 = M
        BY <1>6, SMT
      <4>3. (q - 1) * prv = M * prv /\ q * prv = M * prv + prv
        BY <2>2, <4>2
      <4> HIDE DEF q
      <4>4. (q - 1) * prv < x /\ x <= q * prv
        <5>1. M * prv \in Int
          BY <1>1, <1>6, SMT DEF Positive
        <5>2. x = M * prv + 1
          BY <3>3, <3>5
        <5> HIDE DEF x, M, prv
        <5>3. QED
          BY <1>1, <4>3, <5>1, <5>2, SMT DEF Positive
      <4>5. m = q
        BY <1>1, <4>1, <4>4, WindowUnique
      <4>6. QED
        BY <4>5 DEF q
    <3>6. QED
      BY <1>3, <3>1, <3>4, <3>5
  <2>5. QED
    BY <2>3, <2>4
<1>11. QED
  BY <1>6, <1>8, <1>9, <1>10, SMT DEF Positive

LEMMA ProcessFrameStep ==
  ASSUME IInv, ProcessFrame
  PROVE  IInv'
BY SameProfileStep, SwitchStep

LEMMA NextExposureStep ==
  ASSUME IInv, NextExposure
  PROVE  IInv'
<1> USE DEF IInv, InPlace, NoFrame
<1> DEFINE W == windowSize[profile]
<1>1. /\ W \in Positive /\ index \in 0 .. W - 1
      /\ number' = number + 1 /\ number \in Positive
      /\ UNCHANGED <<windowSize, providerVars, profile, hidden, metaVars>>
  BY DEF NextExposure, SizesInv, NumbersInv
<1>2. /\ index' \in 0 .. W - 1
      /\ \/ index' = index + 1 /\ window' = window
         \/ index = W - 1 /\ index' = 0 /\ window' = window + 1
  <2>1. CASE index + 1 = W
    <3>1. index' = 0
      BY <1>1, <2>1, SMT DEF NextExposure, Positive
    <3>2. QED
      BY <1>1, <2>1, <3>1, SMT DEF NextExposure, Positive
  <2>2. CASE index + 1 < W
    <3>1. index' = index + 1
      BY <1>1, <2>2, SMT DEF NextExposure, Positive
    <3>2. QED
      BY <1>1, <2>2, <3>1, SMT DEF NextExposure, Positive
  <2>3. QED
    BY <1>1, <2>1, <2>2, SMT DEF Positive
<1>3. TypeOK'
  BY <1>1, <1>2, SMT DEF TypeOK, providerVars, metaVars, Positive
<1>4. SizesInv' /\ FirstSeen' /\ LastInPlace'
  BY <1>1, <1>2
     DEF SizesInv, FirstSeen, LastInPlace, Place, providerVars, metaVars
<1>5. NumbersInv'
  BY <1>1, SMT DEF NumbersInv, TypeOK, providerVars, metaVars, Positive
<1>6. CameraInPlace'
  <2> SUFFICES ASSUME profile' = _lastProfile', ~hidden'
               PROVE  CameraInPlace'
    BY DEF CameraInPlace
  <2> DEFINE k == MasterSequence + window - lastWindow
             q == MasterSequence + window' - lastWindow
  <2>1. /\ k \in Positive
        /\ number + _frameOffset = (k - 1) * W + 1 + index
    BY <1>1 DEF CameraInPlace, Place, providerVars
  <2>2. number' + _frameOffset' = number + _frameOffset + 1
    BY <1>1, SMT DEF TypeOK, providerVars, Positive
  <2>3. q \in Positive /\ number' + _frameOffset' = (q - 1) * W + 1 + index'
    <3>1. CASE index' = index + 1 /\ window' = window
      <4>1. q = k
        BY <3>1
      <4> HIDE DEF q, k
      <4>2. (k - 1) * W \in Int
        BY <1>1, <2>1, SMT DEF Positive
      <4>3. number + _frameOffset + 1 = (q - 1) * W + 1 + (index + 1)
        BY <1>1, <2>1, <4>1, <4>2, SMT DEF Positive
      <4>4. QED
        BY <2>1, <2>2, <3>1, <4>1, <4>3
    <3>2. CASE index = W - 1 /\ index' = 0 /\ window' = window + 1
      <4>1. q = k + 1
        BY <3>2, SMT DEF TypeOK
      <4> HIDE DEF q, k
      <4>2. (q - 1) * W = (k - 1) * W + W /\ (k - 1) * W \in Int
        BY <1>1, <2>1, <4>1, SMT DEF Positive
      <4>3. number + _frameOffset + 1 = (q - 1) * W + 1 + 0
        BY <1>1, <2>1, <3>2, <4>2, SMT DEF Positive
      <4>4. QED
        BY <2>1, <2>2, <3>2, <4>1, <4>3, SMT DEF Positive
    <3>3. QED
      BY <1>2, <3>1, <3>2
  <2>4. QED
    BY <1>1, <2>3 DEF CameraInPlace, Place, providerVars, metaVars
<1>7. QED
  BY <1>3, <1>4, <1>5, <1>6

LEMMA SwitchProfileStep ==
  ASSUME IInv, SwitchProfile
  PROVE  IInv'
<1> USE DEF IInv, InPlace, NoFrame
<1>1. /\ profile \in Profiles /\ windowSize[1 - profile] \in Positive
      /\ profile' = 1 - profile /\ profile' \in Profiles
      /\ profile' # profile
  <2>1. 1 - profile \in Profiles /\ 1 - profile # profile
    BY SMT DEF TypeOK, Profiles
  <2>2. windowSize[1 - profile] \in 0 .. 255
    BY <2>1, SizesAssumption DEF TypeOK
  <2>3. QED
    BY <2>1, <2>2, SMT DEF SwitchProfile, TypeOK, Positive
<1>2. TypeOK'
  <2>1. hidden' \in BOOLEAN
    BY DEF SwitchProfile
  <2>2. number' \in Nat /\ window' \in Nat /\ index' \in Nat
    BY SMT DEF SwitchProfile, TypeOK
  <2>3. QED
    BY <1>1, <2>1, <2>2 DEF SwitchProfile, TypeOK, providerVars, metaVars
<1>3. SizesInv'
  <2>1. 0 \in 0 .. windowSize[1 - profile] - 1
    BY <1>1, SMT DEF Positive
  <2>2. QED
    BY <1>1, <2>1 DEF SwitchProfile, SizesInv, providerVars
<1>4. NumbersInv'
  BY SMT DEF SwitchProfile, NumbersInv, TypeOK, providerVars, metaVars,
             Positive
<1>5. LastInPlace'
  BY DEF SwitchProfile, LastInPlace, Place, providerVars, metaVars
<1>6. CameraInPlace' /\ FirstSeen'
  BY <1>1 DEF SwitchProfile, CameraInPlace, FirstSeen, providerVars
<1>7. QED
  BY <1>2, <1>3, <1>4, <1>5, <1>6

LEMMA ConfigureStep ==
  ASSUME Configure
  PROVE  IInv'
<1>1. /\ windowSize' \in [Profiles -> Sizes]
      /\ windowSize'[0] \in Positive
  <2>1. windowSize' \in [Profiles -> Sizes] /\ windowSize'[0] > 0
    BY DEF Configure, Configurations
  <2>2. windowSize'[0] \in 0 .. 255
    BY <2>1, SizesAssumption DEF Profiles
  <2>3. QED
    BY <2>1, <2>2, SMT DEF Positive
<1>2. TypeOK'
  <2>1. hidden' \in BOOLEAN
    BY DEF Configure
  <2>2. 0 \in Profiles /\ 0 \in Nat /\ 1 \in Nat /\ 0 \in Int
    BY DEF Profiles
  <2>3. QED
    BY <1>1, <2>1, <2>2, Zenon DEF Configure, TypeOK, NoFrame
<1>3. SizesInv'
  BY <1>1, SMT DEF Configure, SizesInv, Positive
<1>4. NumbersInv' /\ LastInPlace' /\ FirstSeen'
  BY SMT DEF Configure, NumbersInv, LastInPlace, FirstSeen, Positive, NoFrame
<1>5. (0 + 1 - 0 - 1) * windowSize'[0] = 0
  BY <1>1, SMT DEF Positive
<1>6. CameraInPlace'
  BY <1>5, SMT DEF Configure, CameraInPlace, Place, Positive
<1>7. QED
  BY <1>2, <1>3, <1>4, <1>6 DEF IInv, InPlace

LEMMA InvPreserved == IInv /\ [Next]_vars => IInv'
<1> SUFFICES ASSUME IInv, [Next]_vars
             PROVE  IInv'
  OBVIOUS
<1>1. CASE UNCHANGED vars
  BY <1>1 DEF vars, providerVars, cameraVars, metaVars, IInv, TypeOK, SizesInv,
              NumbersInv, InPlace, LastInPlace, CameraInPlace, FirstSeen, Place
<1>2. QED
  BY <1>1, ProcessFrameStep, NextExposureStep, SwitchProfileStep,
     ConfigureStep DEF Next

LEMMA Invariance == Spec => []IInv
BY InvInitially, InvPreserved, PTL DEF Spec

(* The state of the provider and of the camera keeps its types, for every  *)
(* window size.                                                            *)
THEOREM TypeCorrect == Spec => []TypeOK
<1>1. IInv => TypeOK
  BY DEF IInv
<1>2. QED
  BY <1>1, Invariance, PTL

(* The master sequence ProcessFrame computes never decreases, whatever the *)
(* window sizes, the frames lost and the profiles missed.                  *)
THEOREM MasterNeverDecreases == Spec => MasterNondecreasing
<1>1. IInv /\ [Next]_vars
        => [ProcessFrame => MasterSequence' >= MasterSequence]_vars
  BY SameProfileStep, SwitchStep
<1>2. QED
  BY <1>1, Invariance, PTL DEF MasterNondecreasing, Spec

(* While no profile goes by unseen, ProcessFrame numbers the windows the   *)
(* camera has exposed.                                                     *)
THEOREM MasterCountsWindows == Spec => CountsWindows
<1>1. IInv /\ [Next]_vars
        => [ProcessFrame /\ _lastFrameNumber # NoFrame /\ ~ProfileSwitch
              /\ ~hidden
              => MasterSequence' - MasterSequence = window - lastWindow]_vars
  BY SameProfileStep
<1>2. QED
  BY <1>1, Invariance, PTL DEF CountsWindows, Spec

(* While no profile goes by unseen, a switch seen from its first exposure  *)
(* on begins a new number, the next one if no frame was lost.              *)
THEOREM SwitchBeginsNumber == Spec => SwitchSeparates
<1>1. IInv /\ [Next]_vars
        => [ProcessFrame /\ ProfileSwitch /\ index = 0 /\ ~hidden
              => /\ MasterSequence' > MasterSequence
                 /\ number = _lastFrameNumber + 1
                      => MasterSequence' = MasterSequence + 1]_vars
  BY SwitchStep
<1>2. QED
  BY <1>1, Invariance, PTL DEF SwitchSeparates, Spec
=============================================================================
