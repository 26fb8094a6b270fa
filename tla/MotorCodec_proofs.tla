-------------------------- MODULE MotorCodec_proofs --------------------------
(***************************************************************************)
(* Proofs about MotorCodec, for every argument of a command, every report  *)
(* of a motor and every assignment of types to the registered ids.         *)
(***************************************************************************)
EXTENDS MotorCodec, TLAPS

-------------------------------------------------------------------------------
(* Numbers.                                                                 *)
LEMMA Pow == 2^6 = 64 /\ 2^8 = 256 /\ 2^14 = 16384 /\ 2^16 = 65536 /\ 2^24 = 16777216
             /\ 2^29 = 536870912
  BY SMT

LEMMA Division ==
  ASSUME NEW p \in Nat, NEW d \in Nat \ {0}
  PROVE  p \div d \in Nat /\ (p \div d) * d <= p /\ p < (p \div d) * d + d
  BY SMT

LEMMA DivMono ==
  ASSUME NEW p \in Nat, NEW q \in Nat, NEW d \in Nat \ {0}, p <= q
  PROVE  p \div d <= q \div d
  BY SMT

LEMMA Scale ==
  ASSUME NEW y \in Nat, NEW d \in Nat \ {0}, y <= d
  PROVE  (y * 65535) \div d <= 65535
  BY SMT

LEMMA InU16 == \A r : r \in U16 <=> r \in Nat /\ r <= 65535
  BY Pow, SMT DEF U16

LEMMA InByte == \A r : r \in Byte <=> r \in Nat /\ r <= 255
  BY Pow, SMT DEF Byte

(* The integer sent for a quantity fits 16 bits and stands for the quantity,*)
(* or for the limit it is beyond, to within a step.                         *)
THEOREM QuantityStands ==
  ASSUME NEW x \in Int, NEW lo \in Int, NEW hi \in Int, lo < hi
  PROVE  Stands(FloatToUint16(x, lo, hi), x, lo, hi)
<1> DEFINE y == Clamp(x, lo, hi) - lo
           d == hi - lo
           raw == (y * 65535) \div d
<1>1. y \in Nat /\ d \in Nat \ {0} /\ y <= d
  BY DEF Clamp
<1>2. Clamp(x, lo, hi) = y + lo /\ Clamp(x, lo, hi) \in Int /\ hi - lo = d
  BY DEF Clamp
<1> HIDE DEF y, d
<1>3. y * 65535 \in Nat
  BY <1>1
<1>4. raw \in Nat /\ raw * d <= y * 65535 /\ y * 65535 < raw * d + d
  BY <1>1, <1>3, Division
<1>5. raw <= 65535
  BY <1>1, Scale
<1>6. FloatToUint16(x, lo, hi) = raw
  BY DEF FloatToUint16, y, d
<1> HIDE DEF raw
<1>7. Clamp(x, lo, hi) * 65535 = y * 65535 + lo * 65535
  BY <1>1, <1>2
<1>8. Uint16ToFloat(raw, lo, hi) = lo * 65535 + raw * d
  BY <1>2 DEF Uint16ToFloat
<1>9. raw * d \in Int
  BY <1>1, <1>4
<1>10. 0 <= y * 65535 - raw * d /\ y * 65535 - raw * d < hi - lo
  BY <1>1, <1>2, <1>3, <1>4, <1>9
<1>11. Clamp(x, lo, hi) * 65535 - Uint16ToFloat(raw, lo, hi) = y * 65535 - raw * d
  BY <1>1, <1>7, <1>8, <1>9
<1>12. raw \in U16
  <2>1. raw \in Nat
    BY <1>4
  <2> QED
    BY <1>5, <2>1, InU16
<1> QED
  BY <1>6, <1>10, <1>11, <1>12, SMT DEF Stands

(* A larger quantity is never sent as a smaller integer. *)
THEOREM QuantityMonotone ==
  ASSUME NEW x \in Int, NEW z \in Int, x <= z, NEW lo \in Int, NEW hi \in Int, lo < hi
  PROVE  FloatToUint16(x, lo, hi) <= FloatToUint16(z, lo, hi)
<1> DEFINE p == (Clamp(x, lo, hi) - lo) * 65535
           q == (Clamp(z, lo, hi) - lo) * 65535
           d == hi - lo
<1>1. p \in Nat /\ q \in Nat /\ p <= q /\ d \in Nat \ {0}
  BY DEF Clamp
<1> HIDE DEF p, q, d
<1>2. p \div d <= q \div d
  BY <1>1, DivMono
<1> QED
  BY <1>2 DEF FloatToUint16, p, q, d

LEMMA Larger ==
  ASSUME NEW r \in Nat, NEW s \in Nat, NEW d \in Nat \ {0}, r * d < s * d
  PROVE  r < s
<1> SUFFICES ASSUME s <= r PROVE FALSE
  BY SMT
<1>1. PICK k \in Nat : r = s + k
  <2>1. r - s \in Nat /\ r = s + (r - s)
    BY SMT
  <2> QED
    BY <2>1
<1>2. r * d = s * d + k * d /\ k * d >= 0
  BY <1>1, SMT
<1> QED
  BY <1>2, SMT

(* No two integers stand for the same quantity: what a motor understands of *)
(* a command is decided to the last of the 16 bits.                         *)
THEOREM QuantityIsSharp ==
  ASSUME NEW x \in Int, NEW lo \in Int, NEW hi \in Int, lo < hi, NEW raw, Stands(raw, x, lo, hi)
  PROVE  raw = FloatToUint16(x, lo, hi)
<1> DEFINE d == hi - lo
           c == Clamp(x, lo, hi) * 65535 - lo * 65535
           code == FloatToUint16(x, lo, hi)
<1>1. d \in Nat \ {0} /\ c \in Int
  BY SMT DEF Clamp
<1>2. ASSUME NEW r, Stands(r, x, lo, hi)
      PROVE  r \in Nat /\ r * d <= c /\ c < r * d + d
  <2>1. r \in Nat
    BY <1>2, InU16, SMT DEF Stands
  <2>2. Clamp(x, lo, hi) * 65535 - Uint16ToFloat(r, lo, hi) = c - r * d
    BY <2>1, SMT DEF Uint16ToFloat, Clamp
  <2>3. 0 <= c - r * d /\ c - r * d < d
    BY <1>2, <2>2, SMT DEF Stands
  <2> QED
    BY <1>1, <2>1, <2>3, SMT
<1>3. Stands(code, x, lo, hi)
  BY QuantityStands, Zenon
<1> HIDE DEF d, c, code
<1>4. ASSUME NEW r, NEW s, Stands(r, x, lo, hi), Stands(s, x, lo, hi) PROVE r < s + 1
  <2>1. r \in Nat /\ s \in Nat /\ r * d <= c /\ c < s * d + d
    BY <1>2, <1>4, Zenon
  <2>2. (s + 1) * d = s * d + d /\ r * d \in Int /\ s * d \in Int
    BY <1>1, <2>1, SMT
  <2>3. r * d < (s + 1) * d
    BY <1>1, <2>1, <2>2, SMT
  <2> QED
    BY <1>1, <2>1, <2>3, Larger, SMT
<1>5. raw < code + 1 /\ code < raw + 1 /\ raw \in Nat /\ code \in Nat
  BY <1>2, <1>3, <1>4, Zenon
<1>6. raw = code
  BY <1>5, SMT
<1> QED
  BY <1>6 DEF code

(* Quantities within the limits that are a step or more apart are told      *)
(* apart by the motor, and in their order.                                  *)
THEOREM QuantitiesDistinct ==
  ASSUME NEW lo \in Int, NEW hi \in Int, NEW x \in lo .. hi, NEW z \in lo .. hi, lo < hi,
         hi - lo <= (z - x) * 65535
  PROVE  FloatToUint16(x, lo, hi) < FloatToUint16(z, lo, hi)
<1> DEFINE d == hi - lo
           r == FloatToUint16(x, lo, hi)
           s == FloatToUint16(z, lo, hi)
<1>1. d \in Nat \ {0} /\ Clamp(x, lo, hi) = x /\ Clamp(z, lo, hi) = z /\ x \in Int /\ z \in Int
  BY SMT DEF Clamp
<1>2. Stands(r, x, lo, hi) /\ Stands(s, z, lo, hi)
  <2>1. ASSUME NEW y \in Int PROVE Stands(FloatToUint16(y, lo, hi), y, lo, hi)
    BY QuantityStands
  <2> QED
    BY <1>1, <2>1
<1>3. r \in Nat /\ s \in Nat
  BY <1>2, InU16, SMT DEF Stands
<1>4. 0 <= x * 65535 - (lo * 65535 + r * d) /\ z * 65535 - (lo * 65535 + s * d) < d
  BY <1>1, <1>2, SMT DEF Stands, Uint16ToFloat
<1> HIDE DEF r, s
<1>5. d <= z * 65535 - x * 65535
  BY <1>1, SMT
<1> HIDE DEF d
<1>6. r * d \in Int /\ s * d \in Int
  BY <1>1, <1>3, SMT
<1>7. r * d < s * d
  BY <1>1, <1>4, <1>5, <1>6, SMT
<1>8. r < s
  BY <1>1, <1>3, <1>7, Larger, SMT
<1> QED
  BY <1>8 DEF r, s

LEMMA Bytes ==
  ASSUME NEW w \in U16
  PROVE  w \div 256 \in Byte /\ w % 256 \in Byte /\ (w \div 256) * 256 + (w % 256) = w
<1>1. w \in Nat /\ w <= 65535
  BY InU16
<1>2. /\ w \div 256 \in Nat /\ w \div 256 <= 255 /\ w % 256 \in Nat /\ w % 256 <= 255
      /\ (w \div 256) * 256 + (w % 256) = w
  BY <1>1, SMT
<1> QED
  BY <1>2, InByte, SMT

LEMMA BigEndianFacts ==
  ASSUME NEW a \in U16, NEW b \in U16, NEW c \in U16, NEW d \in U16,
         NEW data, data = BigEndian(<<a, b, c, d>>)
  PROVE  /\ DOMAIN data = 0 .. 7
         /\ \A i \in 0 .. 7 : data[i] \in Byte
         /\ Word(data, 0) = a /\ Word(data, 1) = b /\ Word(data, 2) = c /\ Word(data, 3) = d
<1>1. DOMAIN data = 0 .. 7
  BY DEF BigEndian
<1>2. /\ data[0] = a \div 256 /\ data[1] = a % 256 /\ data[2] = b \div 256 /\ data[3] = b % 256
      /\ data[4] = c \div 256 /\ data[5] = c % 256 /\ data[6] = d \div 256 /\ data[7] = d % 256
  BY SMT DEF BigEndian
<1>3. \A i \in 0 .. 7 : data[i] \in Byte
  <2>1. /\ data[0] \in Byte /\ data[1] \in Byte /\ data[2] \in Byte /\ data[3] \in Byte
    BY <1>2, Bytes, SMT
  <2>2. /\ data[4] \in Byte /\ data[5] \in Byte /\ data[6] \in Byte /\ data[7] \in Byte
    BY <1>2, Bytes, SMT
  <2> QED
    BY <2>1, <2>2, SMT
<1>4. Word(data, 0) = a /\ Word(data, 1) = b
  BY <1>2, Bytes, SMT DEF Word
<1>5. Word(data, 2) = c /\ Word(data, 3) = d
  BY <1>2, Bytes, SMT DEF Word
<1> QED
  BY <1>1, <1>3, <1>4, <1>5

(* The fields of an identifier. *)
LEMMA Limit ==
  ASSUME NEW comm \in Nat, comm <= 31, NEW extra \in Nat, extra <= 65535, NEW low \in Nat, low <= 255
  PROVE  comm * 16777216 + extra * 256 + low <= 536870911
  BY SMT

LEMMA TopField ==
  ASSUME NEW comm \in Nat, NEW rest \in Nat, rest < 16777216
  PROVE  (comm * 16777216 + rest) \div 16777216 = comm
  BY SMT

LEMMA LowField ==
  ASSUME NEW up \in Nat, NEW low \in Nat, low < 256
  PROVE  (up * 256 + low) \div 256 = up /\ (up * 256 + low) % 256 = low
  BY SMT

LEMMA MidField ==
  ASSUME NEW comm \in Nat, NEW extra \in Nat, extra < 65536
  PROVE  (comm * 65536 + extra) % 65536 = extra
  BY SMT

LEMMA IdFields ==
  ASSUME NEW f, NEW comm \in Nat, comm <= 31, NEW extra \in Nat, extra < 65536,
         NEW low \in Nat, low < 256,
         f.id = comm * 2^24 + extra * 2^8 + low
  PROVE  /\ Comm(f) = comm /\ Extra(f) = extra /\ Node(f) = low
         /\ f.id \in Nat /\ f.id < 2^29
<1>1. f.id = comm * 16777216 + extra * 256 + low
  BY Pow, SMT
<1>2. Comm(f) = comm
  <2>1. extra * 256 + low \in Nat /\ extra * 256 + low < 16777216
    BY SMT
  <2>2. f.id = comm * 16777216 + (extra * 256 + low)
    BY <1>1, SMT
  <2> QED
    BY <2>1, <2>2, TopField, Pow, SMT DEF Comm
<1>3. Extra(f) = extra /\ Node(f) = low
  <2>1. comm * 65536 + extra \in Nat
    BY SMT
  <2>2. f.id = (comm * 65536 + extra) * 256 + low
    BY <1>1, SMT
  <2>3. f.id \div 256 = comm * 65536 + extra /\ f.id % 256 = low
    BY <2>1, <2>2, LowField, SMT
  <2>4. (f.id \div 256) % 65536 = extra
    BY <2>3, MidField, SMT
  <2> QED
    BY <2>3, <2>4, Pow, SMT DEF Extra, Node
<1>4. f.id \in Nat /\ f.id < 2^29
  BY <1>1, Limit, Pow, SMT
<1> QED
  BY <1>2, <1>3, <1>4, SMT

-------------------------------------------------------------------------------
(* Frames.                                                                  *)
MotorId == \A m \in Motors : m \in Nat /\ 1 <= m /\ m <= 4

LEMMA MotorIds == MotorId
  BY CodecAssumption DEF MotorId

LEMMA Codes ==
  /\ COMM_MIT_CONTROL = 1 /\ COMM_FEEDBACK = 2 /\ COMM_ENABLE = 3 /\ COMM_STOP = 4
  /\ COMM_SET_ZERO = 6 /\ COMM_SET_PARAM = 18 /\ MASTER_ID = 255
  BY DEF COMM_MIT_CONTROL, COMM_FEEDBACK, COMM_ENABLE, COMM_STOP, COMM_SET_ZERO,
         COMM_SET_PARAM, MASTER_ID

LEMMA HostFrame ==
  ASSUME NEW m \in Motors, NEW comm \in Nat, comm <= 31, NEW extra \in Nat, extra < 65536,
         NEW data, NEW f, f = Frame(m, comm, extra, data)
  PROVE  /\ f.eff /\ f.data = data /\ f # Silence
         /\ Comm(f) = comm /\ Extra(f) = extra /\ Node(f) = m
         /\ f.id \in 0 .. 2^29 - 1
<1>1. f.eff /\ f.data = data /\ f.id = comm * 2^24 + extra * 2^8 + m
  BY SMT DEF Frame
<1>2. m \in Nat /\ m < 256
  BY MotorIds, SMT DEF MotorId
<1>3. Comm(f) = comm /\ Extra(f) = extra /\ Node(f) = m /\ f.id \in Nat /\ f.id < 2^29
  BY <1>1, <1>2, IdFields
<1>4. f.id \in 0 .. 2^29 - 1
  BY <1>3, Pow, SMT
<1>5. f # Silence
  BY <1>1, SMT DEF Silence
<1> QED
  BY <1>1, <1>3, <1>4, <1>5

(* What every motor makes of a frame, given who spoke and what was meant.   *)
Fits(by, node, meaning, f) ==
  \A n \in Motors :
    IF by = "host" /\ node = n THEN Agrees(n, meaning, Hear(n, f)) ELSE Hear(n, f) = Nothing

LEMMA HostFits ==
  ASSUME NEW m \in Motors, NEW meaning, NEW f, Node(f) = m, Agrees(m, meaning, Hear(m, f))
  PROVE  Fits("host", m, meaning, f)
<1> SUFFICES ASSUME NEW n \in Motors, n # m
             PROVE  Hear(n, f) = Nothing
  BY Zenon DEF Fits
<1> QED
  BY SMT DEF Hear

DataTyped(d) == \A i \in DOMAIN d : d[i] \in Byte \cup (IF i = 4 THEN Setpoints ELSE {})

WireTyped(f) == f.eff \in BOOLEAN /\ f.id \in 0 .. 2^29 - 1 /\ DataTyped(f.data)

(* A frame the host writes: extended, typed, and understood. *)
Proper(m, meaning, f) ==
  f # Silence /\ WireTyped(f) /\ Fits("host", m, meaning, f)

LEMMA ZerosBytes ==
  /\ DOMAIN Zeros = 0 .. 7 /\ \A i \in 0 .. 7 : Zeros[i] = 0
  /\ DOMAIN First(1) = 0 .. 7 /\ First(1)[0] = 1
  /\ \A i \in 0 .. 7 : Zeros[i] \in Byte /\ First(1)[i] \in Byte
<1>1. 0 \in Byte /\ 1 \in Byte
  BY InByte, SMT
<1> QED
  BY <1>1, SMT DEF Zeros, First

LEMMA ParamBytes ==
  ASSUME NEW index \in Nat, index <= 65535, NEW value, NEW d, d = Param(index, value)
  PROVE  /\ DOMAIN d = 0 .. 7
         /\ d[0] + 256 * d[1] = index /\ d[4] = value
         /\ \A i \in 0 .. 7 : i # 4 => d[i] \in Byte
<1>1. DOMAIN d = 0 .. 7 /\ d[0] = index % 256 /\ d[1] = index \div 256 /\ d[4] = value
      /\ \A i \in 0 .. 7 : i \notin {0, 1, 4} => d[i] = 0
  BY SMT DEF Param, Zeros
<1>2. index % 256 \in Byte /\ index \div 256 \in Byte /\ (index \div 256) * 256 + (index % 256) = index
  <2>1. index \in U16
    BY InU16, SMT
  <2> QED
    BY <2>1, Bytes
<1>3. 0 \in Byte
  BY InByte, SMT
<1>4. d[0] \in Nat /\ d[1] \in Nat
  BY <1>1, <1>2, InByte, SMT
<1>5. d[0] + 256 * d[1] = index
  BY <1>1, <1>2, <1>4, SMT
<1>6. \A i \in 0 .. 7 : i # 4 => d[i] \in Byte
  BY <1>1, <1>2, <1>3, SMT
<1> QED
  BY <1>1, <1>5, <1>6

LEMMA LimitsPositive ==
  ASSUME NEW m \in Motors
  PROVE  LET lim == GetLimits(m)
         IN  /\ lim.position \in Nat \ {0} /\ lim.velocity \in Nat \ {0} /\ lim.torque \in Nat \ {0}
             /\ lim.kp \in Nat \ {0} /\ lim.kd \in Nat \ {0}
  BY DEF GetLimits, Limits

LEMMA Quantity ==
  ASSUME NEW x \in Int, NEW lim \in Nat \ {0}
  PROVE  /\ Stands(FloatToUint16(x, -lim, lim), x, -lim, lim)
         /\ Stands(FloatToUint16(x, 0, lim), x, 0, lim)
         /\ FloatToUint16(x, -lim, lim) \in U16 /\ FloatToUint16(x, 0, lim) \in U16
<1>1. -lim \in Int /\ lim \in Int /\ 0 \in Int /\ -lim < lim /\ 0 < lim
  BY SMT
<1>2. /\ Stands(FloatToUint16(x, -lim, lim), x, -lim, lim)
      /\ Stands(FloatToUint16(x, 0, lim), x, 0, lim)
  BY <1>1, QuantityStands
<1> QED
  BY <1>2, SMT DEF Stands

-------------------------------------------------------------------------------
(* Each command: its frame is typed, and understood as it was meant.         *)
LEMMA ProperFrame ==
  ASSUME NEW m \in Motors, NEW comm \in Nat, comm <= 31, NEW extra \in Nat, extra < 65536,
         NEW data, NEW f, f = Frame(m, comm, extra, data), NEW meaning,
         DataTyped(data), Agrees(m, meaning, Obey(f))
  PROVE  Proper(m, meaning, f)
<1>1. /\ f.eff /\ f.data = data /\ f # Silence
      /\ Node(f) = m /\ f.id \in 0 .. 2^29 - 1
  BY HostFrame, SMT
<1>2. Hear(m, f) = Obey(f)
  BY <1>1, SMT DEF Hear
<1>3. Fits("host", m, meaning, f)
  <2>1. Agrees(m, meaning, Hear(m, f))
    BY <1>2, SMT
  <2> QED
    BY <1>1, <2>1, HostFits, SMT
<1>4. WireTyped(f)
  BY <1>1, SMT DEF WireTyped
<1> QED
  BY <1>1, <1>3, <1>4, SMT DEF Proper

LEMMA ZerosTyped == DataTyped(Zeros) /\ DataTyped(First(1))
  BY ZerosBytes, SMT DEF DataTyped

LEMMA SameMeaning ==
  ASSUME NEW m, NEW meaning, meaning.op \notin {"save", "mit"}
  PROVE  Agrees(m, meaning, meaning)
  BY Zenon DEF Agrees

LEMMA EnableProper ==
  ASSUME NEW m \in Motors, NEW meaning, meaning = Meant("enable", <<>>),
         NEW f, f = Frame(m, COMM_ENABLE, MASTER_ID, Zeros)
  PROVE  Proper(m, meaning, f)
<1>1. COMM_ENABLE \in Nat /\ COMM_ENABLE <= 31 /\ MASTER_ID \in Nat /\ MASTER_ID < 65536
  BY Codes, SMT
<1>2. Comm(f) = COMM_ENABLE
  BY <1>1, HostFrame, SMT
<1>3. Obey(f) = meaning
  BY <1>2, Codes, SMT DEF Obey
<1>4. meaning.op = "enable"
  BY SMT DEF Meant
<1>5. Agrees(m, meaning, meaning)
  BY <1>4, SameMeaning, SMT
<1>6. Agrees(m, meaning, Obey(f))
  BY <1>3, <1>4, <1>5, SMT
<1> QED
  BY <1>1, <1>6, ZerosTyped, ProperFrame, SMT

LEMMA DisableProper ==
  ASSUME NEW m \in Motors, NEW meaning, meaning = Meant("disable", <<>>),
         NEW f, f = Frame(m, COMM_STOP, MASTER_ID, Zeros)
  PROVE  Proper(m, meaning, f)
<1>1. COMM_STOP \in Nat /\ COMM_STOP <= 31 /\ MASTER_ID \in Nat /\ MASTER_ID < 65536
  BY Codes, SMT
<1>2. Comm(f) = COMM_STOP /\ f.data = Zeros
  BY <1>1, HostFrame, SMT
<1>3. Obey(f) = meaning
  BY <1>2, Codes, ZerosBytes, SMT DEF Obey
<1>4. meaning.op = "disable"
  BY SMT DEF Meant
<1>5. Agrees(m, meaning, meaning)
  BY <1>4, SameMeaning, SMT
<1>6. Agrees(m, meaning, Obey(f))
  BY <1>3, <1>4, <1>5, SMT
<1> QED
  BY <1>1, <1>6, ZerosTyped, ProperFrame, SMT

LEMMA ClearProper ==
  ASSUME NEW m \in Motors, NEW meaning, meaning = Meant("clear", <<>>),
         NEW f, f = Frame(m, COMM_STOP, MASTER_ID, First(1))
  PROVE  Proper(m, meaning, f)
<1>1. COMM_STOP \in Nat /\ COMM_STOP <= 31 /\ MASTER_ID \in Nat /\ MASTER_ID < 65536
  BY Codes, SMT
<1>2. Comm(f) = COMM_STOP /\ f.data = First(1)
  BY <1>1, HostFrame, SMT
<1>3. Obey(f) = meaning
  BY <1>2, Codes, ZerosBytes, SMT DEF Obey
<1>4. meaning.op = "clear"
  BY SMT DEF Meant
<1>5. Agrees(m, meaning, meaning)
  BY <1>4, SameMeaning, SMT
<1>6. Agrees(m, meaning, Obey(f))
  BY <1>3, <1>4, <1>5, SMT
<1> QED
  BY <1>1, <1>6, ZerosTyped, ProperFrame, SMT

LEMMA SetZeroProper ==
  ASSUME NEW m \in Motors, NEW meaning, meaning = Meant("set_zero", <<>>),
         NEW f, f = Frame(m, COMM_SET_ZERO, MASTER_ID, First(1))
  PROVE  Proper(m, meaning, f)
<1>1. COMM_SET_ZERO \in Nat /\ COMM_SET_ZERO <= 31 /\ MASTER_ID \in Nat /\ MASTER_ID < 65536
  BY Codes, SMT
<1>2. Comm(f) = COMM_SET_ZERO
  BY <1>1, HostFrame, SMT
<1>3. Obey(f) = meaning
  BY <1>2, Codes, SMT DEF Obey
<1>4. meaning.op = "set_zero"
  BY SMT DEF Meant
<1>5. Agrees(m, meaning, meaning)
  BY <1>4, SameMeaning, SMT
<1>6. Agrees(m, meaning, Obey(f))
  BY <1>3, <1>4, <1>5, SMT
<1> QED
  BY <1>1, <1>6, ZerosTyped, ProperFrame, SMT

(* The frame of zeros: standard, so no motor takes it for a command.        *)
LEMMA SaveProper ==
  ASSUME NEW m \in Motors
  PROVE  Proper(m, Meant("save", <<>>), ZeroFrame)
<1> DEFINE meaning == Meant("save", <<>>)
<1>1. ~ZeroFrame.eff /\ ZeroFrame.id = 0 /\ ZeroFrame.data = Zeros
  BY SMT DEF ZeroFrame
<1>2. ZeroFrame # Silence
  <2>1. 0 \in DOMAIN Zeros /\ 0 \notin DOMAIN <<>>
    BY ZerosBytes, SMT
  <2> QED
    BY <1>1, <2>1, SMT DEF Silence
<1>3. WireTyped(ZeroFrame)
  <2>1. ZeroFrame.eff \in BOOLEAN
    BY SMT DEF ZeroFrame
  <2>2. ZeroFrame.id \in 0 .. 2^29 - 1
    BY <1>1, Pow, SMT
  <2> QED
    BY <1>1, <2>1, <2>2, ZerosTyped, SMT DEF WireTyped
<1>4. \A n \in Motors : Hear(n, ZeroFrame) = Nothing
  BY <1>1, Zenon DEF Hear
<1>5. meaning.op = "save"
  BY SMT DEF Meant
<1>6. Fits("host", m, meaning, ZeroFrame)
  <2>1. Agrees(m, meaning, Hear(m, ZeroFrame))
    BY <1>4, <1>5, Zenon DEF Agrees
  <2> HIDE DEF meaning
  <2> QED
    BY <1>4, <2>1, Zenon DEF Fits
<1> QED
  BY <1>2, <1>3, <1>5, <1>6, SMT DEF Proper

(* Parameters.                                                              *)
LEMMA ParamIndices ==
  PARAM_RUN_MODE = 28677 /\ PARAM_IQ_REF = 28678 /\ PARAM_SPD_REF = 28682 /\ PARAM_LOC_REF = 28694
  BY DEF PARAM_RUN_MODE, PARAM_IQ_REF, PARAM_SPD_REF, PARAM_LOC_REF

LEMMA ParamProper ==
  ASSUME NEW m \in Motors, NEW index \in Nat, index <= 65535, NEW value \in Byte \cup Setpoints,
         NEW meaning, meaning.op \notin {"save", "mit"},
         NEW f, f = Frame(m, COMM_SET_PARAM, MASTER_ID, Param(index, value)),
         \A d : d[0] + 256 * d[1] = index /\ d[4] = value => SetParam(d) = meaning
  PROVE  Proper(m, meaning, f)
<1> DEFINE d == Param(index, value)
<1>1. COMM_SET_PARAM \in Nat /\ COMM_SET_PARAM <= 31 /\ MASTER_ID \in Nat /\ MASTER_ID < 65536
  BY Codes, SMT
<1>2. Comm(f) = COMM_SET_PARAM /\ f.data = d
  BY <1>1, HostFrame, SMT
<1>3. /\ DOMAIN d = 0 .. 7
      /\ d[0] + 256 * d[1] = index /\ d[4] = value
      /\ \A i \in 0 .. 7 : i # 4 => d[i] \in Byte
  BY ParamBytes, SMT
<1> HIDE DEF d
<1>4. DataTyped(d)
  BY <1>3, SMT DEF DataTyped
<1>5. SetParam(d) = meaning
  BY <1>3, SMT
<1>6. Obey(f) = meaning
  BY <1>2, <1>5, Codes, SMT DEF Obey
<1>7. Agrees(m, meaning, Obey(f))
  BY <1>6, SameMeaning, SMT
<1>8. f = Frame(m, COMM_SET_PARAM, MASTER_ID, d)
  BY SMT DEF d
<1> QED
  BY <1>1, <1>4, <1>7, <1>8, ProperFrame, SMT

LEMMA VelocityProper ==
  ASSUME NEW m \in Motors, NEW v \in Setpoints, NEW meaning, meaning = Meant("velocity", <<v>>),
         NEW f, f = Frame(m, COMM_SET_PARAM, MASTER_ID, Param(PARAM_SPD_REF, v))
  PROVE  Proper(m, meaning, f)
<1>1. PARAM_SPD_REF \in Nat /\ PARAM_SPD_REF <= 65535
  BY ParamIndices, SMT
<1>2. meaning.op \notin {"save", "mit"}
  BY SMT DEF Meant
<1>3. \A d : d[0] + 256 * d[1] = PARAM_SPD_REF /\ d[4] = v => SetParam(d) = meaning
  BY ParamIndices, SMT DEF SetParam
<1> QED
  BY <1>1, <1>2, <1>3, ParamProper, SMT

LEMMA PositionProper ==
  ASSUME NEW m \in Motors, NEW v \in Setpoints, NEW meaning, meaning = Meant("position", <<v>>),
         NEW f, f = Frame(m, COMM_SET_PARAM, MASTER_ID, Param(PARAM_LOC_REF, v))
  PROVE  Proper(m, meaning, f)
<1>1. PARAM_LOC_REF \in Nat /\ PARAM_LOC_REF <= 65535
  BY ParamIndices, SMT
<1>2. meaning.op \notin {"save", "mit"}
  BY SMT DEF Meant
<1>3. \A d : d[0] + 256 * d[1] = PARAM_LOC_REF /\ d[4] = v => SetParam(d) = meaning
  BY ParamIndices, SMT DEF SetParam
<1> QED
  BY <1>1, <1>2, <1>3, ParamProper, SMT

LEMMA EffortProper ==
  ASSUME NEW m \in Motors, NEW v \in Setpoints, NEW meaning, meaning = Meant("effort", <<v>>),
         NEW f, f = Frame(m, COMM_SET_PARAM, MASTER_ID, Param(PARAM_IQ_REF, v))
  PROVE  Proper(m, meaning, f)
<1>1. PARAM_IQ_REF \in Nat /\ PARAM_IQ_REF <= 65535
  BY ParamIndices, SMT
<1>2. meaning.op \notin {"save", "mit"}
  BY SMT DEF Meant
<1>3. \A d : d[0] + 256 * d[1] = PARAM_IQ_REF /\ d[4] = v => SetParam(d) = meaning
  BY ParamIndices, SMT DEF SetParam
<1> QED
  BY <1>1, <1>2, <1>3, ParamProper, SMT

(* The word of a mode in the table is the index the motor reads it back by. *)
LEMMA ModeProper ==
  ASSUME NEW m \in Motors, NEW mode \in Modes, mode < Len(kModeMap),
         NEW meaning, meaning = Meant("mode", <<ActuatorMode[mode + 1]>>),
         NEW f, f = Frame(m, COMM_SET_PARAM, MASTER_ID, Param(PARAM_RUN_MODE, kModeMap[mode + 1]))
  PROVE  Proper(m, meaning, f)
<1>1. PARAM_RUN_MODE \in Nat /\ PARAM_RUN_MODE <= 65535
  BY ParamIndices, SMT
<1>2. meaning.op \notin {"save", "mit"}
  BY SMT DEF Meant
<1>3. mode \in Nat
  BY CodecAssumption, InByte, SMT
<1>4. mode < 5
  BY SMT DEF kModeMap
<1>5. kModeMap[mode + 1] = mode
  BY <1>3, <1>4, SMT DEF kModeMap
<1>6. kModeMap[mode + 1] \in Byte
  BY <1>3, <1>4, <1>5, InByte, SMT
<1>7. \A d : d[0] + 256 * d[1] = PARAM_RUN_MODE /\ d[4] = kModeMap[mode + 1] => SetParam(d) = meaning
  BY <1>5, ParamIndices, SMT DEF SetParam
<1> QED
  BY <1>1, <1>2, <1>6, <1>7, ParamProper, SMT

(* The MIT command: five quantities, the torque in the identifier.          *)
LEMMA MitProper ==
  ASSUME NEW m \in Motors, NEW args \in MitArgs, NEW meaning, meaning = Meant("mit", args),
         NEW lim, lim = GetLimits(m),
         NEW pos, pos = FloatToUint16(args[1], -lim.position, lim.position),
         NEW vel, vel = FloatToUint16(args[2], -lim.velocity, lim.velocity),
         NEW toq, toq = FloatToUint16(args[3], -lim.torque, lim.torque),
         NEW kp, kp = FloatToUint16(args[4], 0, lim.kp),
         NEW kd, kd = FloatToUint16(args[5], 0, lim.kd),
         NEW f, f = Frame(m, COMM_MIT_CONTROL, toq, BigEndian(<<pos, vel, kp, kd>>))
  PROVE  Proper(m, meaning, f)
<1> DEFINE d == BigEndian(<<pos, vel, kp, kd>>)
<1>1. args[1] \in Int /\ args[2] \in Int /\ args[3] \in Int /\ args[4] \in Int /\ args[5] \in Int
  BY CodecAssumption, SMT
<1>2. /\ lim.position \in Nat \ {0} /\ lim.velocity \in Nat \ {0} /\ lim.torque \in Nat \ {0}
      /\ lim.kp \in Nat \ {0} /\ lim.kd \in Nat \ {0}
  BY LimitsPositive, SMT
<1>3. /\ pos \in U16 /\ Stands(pos, args[1], -lim.position, lim.position)
      /\ vel \in U16 /\ Stands(vel, args[2], -lim.velocity, lim.velocity)
      /\ toq \in U16 /\ Stands(toq, args[3], -lim.torque, lim.torque)
  BY <1>1, <1>2, Quantity, SMT
<1>4. /\ kp \in U16 /\ Stands(kp, args[4], 0, lim.kp)
      /\ kd \in U16 /\ Stands(kd, args[5], 0, lim.kd)
  BY <1>1, <1>2, Quantity, SMT
<1>5. toq \in Nat /\ toq < 65536
  BY <1>3, InU16, SMT
<1>6. COMM_MIT_CONTROL \in Nat /\ COMM_MIT_CONTROL <= 31
  BY Codes, SMT
<1>7. Comm(f) = COMM_MIT_CONTROL /\ Extra(f) = toq /\ f.data = d
  BY <1>5, <1>6, HostFrame, SMT
<1>8. /\ DOMAIN d = 0 .. 7 /\ \A i \in 0 .. 7 : d[i] \in Byte
      /\ Word(d, 0) = pos /\ Word(d, 1) = vel /\ Word(d, 2) = kp /\ Word(d, 3) = kd
  BY <1>3, <1>4, BigEndianFacts, SMT
<1>9. f = Frame(m, COMM_MIT_CONTROL, toq, d)
  BY SMT DEF d
<1> HIDE DEF d
<1>10. DataTyped(d)
  BY <1>8, SMT DEF DataTyped
<1>11. Obey(f) = Meant("mit", <<pos, vel, toq, kp, kd>>)
  BY <1>7, <1>8, Codes, SMT DEF Obey
<1>12. Agrees(m, meaning, Obey(f))
  <2>1. meaning.op = "mit" /\ meaning.args = args
    BY SMT DEF Meant
  <2>2. /\ Obey(f).op = "mit" /\ Obey(f).args[1] = pos /\ Obey(f).args[2] = vel
        /\ Obey(f).args[3] = toq /\ Obey(f).args[4] = kp /\ Obey(f).args[5] = kd
    BY <1>11, SMT DEF Meant
  <2> QED
    BY <1>3, <1>4, <2>1, <2>2, SMT DEF Agrees
<1> QED
  BY <1>5, <1>6, <1>9, <1>10, <1>12, ProperFrame, SMT

-------------------------------------------------------------------------------
(* The motors' frames.                                                      *)
LEMMA MotorFrame ==
  ASSUME NEW m \in Motors, NEW comm \in Nat, comm <= 31, NEW status \in Nat, status < 256,
         NEW words, NEW f, f = FromMotor(m, comm, status, words)
  PROVE  /\ f.eff /\ f.eff \in BOOLEAN /\ f.data = BigEndian(words) /\ f # Silence
         /\ Comm(f) = comm /\ Extra(f) = status * 256 + m /\ Node(f) = 0 /\ Key(f) = m
         /\ f.id \in 0 .. 2^29 - 1
<1>1. f.eff /\ f.eff \in BOOLEAN /\ f.data = BigEndian(words)
  BY SMT DEF FromMotor
<1>2. f.id = comm * 2^24 + (status * 2^8 + m) * 2^8
  BY SMT DEF FromMotor
<1>3. m \in Nat /\ m < 256
  BY MotorIds, SMT DEF MotorId
<1>4. status * 256 + m \in Nat /\ status * 256 + m < 65536
  BY <1>3, SMT
<1>5. f.id = comm * 2^24 + (status * 256 + m) * 2^8 + 0
  BY <1>2, <1>3, Pow, SMT
<1> DEFINE extra == status * 256 + m
<1>6. extra \in Nat /\ extra < 65536 /\ f.id = comm * 2^24 + extra * 2^8 + 0
  BY <1>4, <1>5
<1> HIDE DEF extra
<1>7. Comm(f) = comm /\ Extra(f) = extra /\ Node(f) = 0 /\ f.id \in Nat /\ f.id < 2^29
  BY <1>6, IdFields, SMT
<1>8. Key(f) = m
  <2>1. f.id = (comm * 65536 + extra) * 256
    BY <1>6, Pow, SMT
  <2>2. comm * 65536 + extra \in Nat
    BY <1>6, SMT
  <2>3. f.id \div 256 = comm * 65536 + extra
    BY <2>1, <2>2, LowField, SMT
  <2>4. comm * 65536 + extra = (comm * 256 + status) * 256 + m
    BY <1>3, SMT DEF extra
  <2>5. comm * 256 + status \in Nat
    BY SMT
  <2>6. (f.id \div 256) % 256 = m
    BY <1>3, <2>3, <2>4, <2>5, LowField, SMT
  <2> QED
    BY <2>6, Pow, SMT DEF Key
<1>9. f.id \in 0 .. 2^29 - 1
  BY <1>7, Pow, SMT
<1>10. f # Silence
  BY <1>1, SMT DEF Silence
<1> QED
  BY <1>1, <1>7, <1>8, <1>9, <1>10, SMT DEF extra

(* Nobody takes a motor's frame for a command: it is addressed to node 0.   *)
LEMMA MotorFits ==
  ASSUME NEW f, NEW node, NEW meaning, ~f.eff \/ Node(f) = 0
  PROVE  Fits("motor", node, meaning, f)
<1> SUFFICES ASSUME NEW n \in Motors
             PROVE  Hear(n, f) = Nothing
  BY Zenon DEF Fits
<1>1. n # 0
  BY MotorIds, SMT DEF MotorId
<1> QED
  BY <1>1, Zenon DEF Hear

FaultBit(r, i) == IF Faults[i] \in r.faults THEN 1 ELSE 0
FaultBits(r) == 32 * FaultBit(r, 1) + 16 * FaultBit(r, 2) + 8 * FaultBit(r, 3)
                  + 4 * FaultBit(r, 4) + 2 * FaultBit(r, 5) + FaultBit(r, 6)

LEMMA StatusFacts ==
  ASSUME NEW r \in Reports
  PROVE  /\ r.status \in Nat /\ r.status <= 3 /\ FaultBits(r) \in Nat /\ FaultBits(r) <= 63
         /\ StatusBits(r) = r.status * 64 + FaultBits(r)
<1>1. r.status \in Nat /\ r.status <= 3
  BY CodecAssumption, SMT
<1>2. FaultBits(r) \in Nat /\ FaultBits(r) <= 63
  BY SMT DEF FaultBits, FaultBit
<1>3. StatusBits(r) = r.status * 64 + FaultBits(r)
  BY <1>1, Pow, SMT DEF StatusBits, FaultBits, FaultBit
<1> QED
  BY <1>1, <1>2, <1>3, SMT

(* Each fault has a bit of its own. *)
LEMMA SixPowers == 2^(6-1) = 32 /\ 2^(6-2) = 16 /\ 2^(6-3) = 8 /\ 2^(6-4) = 4 /\ 2^(6-5) = 2 /\ 2^(6-6) = 1
  BY SMT

LEMMA FaultsDecoded ==
  ASSUME NEW r \in Reports
  PROVE  GetErrorString(FaultBits(r)) = r.faults
<1> DEFINE flags == FaultBits(r)
           b(i) == FaultBit(r, i)
<1>1. /\ b(1) \in {0, 1} /\ b(2) \in {0, 1} /\ b(3) \in {0, 1}
      /\ b(4) \in {0, 1} /\ b(5) \in {0, 1} /\ b(6) \in {0, 1}
  BY SMT DEF FaultBit
<1>2. /\ (flags \div 32) % 2 = b(1) /\ (flags \div 16) % 2 = b(2) /\ (flags \div 8) % 2 = b(3)
      /\ (flags \div 4) % 2 = b(4) /\ (flags \div 2) % 2 = b(5) /\ (flags \div 1) % 2 = b(6)
  <2>1. flags = 32 * b(1) + 16 * b(2) + 8 * b(3) + 4 * b(4) + 2 * b(5) + b(6)
    BY SMT DEF FaultBits
  <2> HIDE DEF flags, b
  <2>2. PICK a \in {0, 1}, d \in {0, 1}, e \in {0, 1}, g \in {0, 1}, h \in {0, 1}, k \in {0, 1} :
          b(1) = a /\ b(2) = d /\ b(3) = e /\ b(4) = g /\ b(5) = h /\ b(6) = k
    BY <1>1, Zenon
  <2>3. flags = 32 * a + 16 * d + 8 * e + 4 * g + 2 * h + k
    BY <2>1, <2>2
  <2>4. /\ (flags \div 32) % 2 = a /\ (flags \div 16) % 2 = d /\ (flags \div 8) % 2 = e
        /\ (flags \div 4) % 2 = g /\ (flags \div 2) % 2 = h /\ (flags \div 1) % 2 = k
    BY <2>3, SMT
  <2> QED
    BY <2>2, <2>4
<1>3. \A j \in 1 .. 6 : (flags \div 2^(6 - j)) % 2 = b(j)
  <2> HIDE DEF flags, b
  <2> SUFFICES ASSUME NEW j \in 1 .. 6
               PROVE  (flags \div 2^(6 - j)) % 2 = b(j)
    BY Zenon
  <2>1. CASE j = 1
    BY <1>2, <2>1, SixPowers
  <2>2. CASE j = 2
    BY <1>2, <2>2, SixPowers
  <2>3. CASE j = 3
    BY <1>2, <2>3, SixPowers
  <2>4. CASE j = 4
    BY <1>2, <2>4, SixPowers
  <2>5. CASE j = 5
    BY <1>2, <2>5, SixPowers
  <2>6. CASE j = 6
    BY <1>2, <2>6, SixPowers
  <2> QED
    BY <2>1, <2>2, <2>3, <2>4, <2>5, <2>6, SMT
<1>4. \A j \in 1 .. 6 : b(j) = 1 <=> Faults[j] \in r.faults
  BY SMT DEF FaultBit
<1>5. GetErrorString(flags) = {Faults[i] : i \in {j \in 1 .. 6 : Faults[j] \in r.faults}}
  <2> HIDE DEF flags, b
  <2> QED
    BY <1>3, <1>4, Zenon DEF GetErrorString
<1>6. r.faults \subseteq {Faults[i] : i \in 1 .. 6}
  <2>1. r.faults \subseteq {Faults[i] : i \in DOMAIN Faults}
    BY CodecAssumption, SMT
  <2>2. DOMAIN Faults = 1 .. 6
    BY SMT DEF Faults
  <2> QED
    BY <2>1, <2>2, Zenon
<1> QED
  BY <1>5, <1>6, Zenon

(* The fields of the extra data of a feedback frame. *)
LEMMA ExtraFields ==
  ASSUME NEW s \in Nat, NEW e \in Nat, e <= 63, NEW m \in Nat, m < 256,
         NEW x, x = (s * 64 + e) * 256 + m
  PROVE  x \div 16384 = s /\ (x \div 256) % 64 = e
<1>1. x \div 256 = s * 64 + e
  BY LowField, SMT
<1>2. (s * 64 + e) % 64 = e
  BY SMT
<1>3. x = s * 16384 + (e * 256 + m) /\ e * 256 + m \in Nat /\ e * 256 + m < 16384
  BY SMT
<1>4. x \div 16384 = s
  BY <1>3, SMT
<1> QED
  BY <1>1, <1>2, <1>4

(* What the host reads in a feedback frame is what the motor reported.      *)
ReadingTyped(g) == g.error_flags \in 0 .. 63 /\ g.temperature \in U16

IsCentred(q, raw, lim) == q + 65535 * lim = raw * 2 * lim

LEMMA Centred ==
  ASSUME NEW raw \in Nat, NEW lim \in Nat, NEW neg, neg = -lim,
         NEW q, q = Uint16ToFloat(raw, neg, lim)
  PROVE  IsCentred(q, raw, lim)
<1>1. q = neg * 65535 + raw * (lim - neg)
  BY SMT DEF Uint16ToFloat
<1>2. raw * (lim - neg) = raw * 2 * lim
  BY SMT
<1>3. raw * 2 * lim \in Int
  BY SMT
<1> QED
  BY <1>1, <1>2, <1>3, SMT DEF IsCentred

LEMMA ReportRead ==
  ASSUME NEW m \in Motors, NEW r \in Reports,
         NEW f, f = FromMotor(m, COMM_FEEDBACK, StatusBits(r), <<r.pos, r.vel, r.torque, r.temp>>)
  PROVE  /\ Tells(m, r, Reading(m, f)) /\ ReadingTyped(Reading(m, f))
         /\ f.eff /\ Comm(f) = COMM_FEEDBACK /\ Key(f) = m /\ Node(f) = 0
         /\ f # Silence /\ WireTyped(f)
<1> DEFINE status == StatusBits(r)
           words == <<r.pos, r.vel, r.torque, r.temp>>
           d == BigEndian(words)
           g == Reading(m, f)
           lim == GetLimits(m)
<1>1. r.pos \in U16 /\ r.vel \in U16 /\ r.torque \in U16 /\ r.temp \in U16
  BY CodecAssumption, SMT
<1>2. /\ DOMAIN d = 0 .. 7 /\ \A i \in 0 .. 7 : d[i] \in Byte
      /\ Word(d, 0) = r.pos /\ Word(d, 1) = r.vel /\ Word(d, 2) = r.torque /\ Word(d, 3) = r.temp
  BY <1>1, BigEndianFacts, SMT
<1>3. status \in Nat /\ status < 256 /\ status = r.status * 64 + FaultBits(r)
  BY StatusFacts, SMT
<1>4. COMM_FEEDBACK \in Nat /\ COMM_FEEDBACK <= 31
  BY Codes, SMT
<1>5. f = FromMotor(m, COMM_FEEDBACK, status, words)
  OBVIOUS
<1> HIDE DEF status, words
<1>6. /\ f.eff /\ f.eff \in BOOLEAN /\ f.data = d /\ f # Silence
      /\ Comm(f) = COMM_FEEDBACK /\ Extra(f) = status * 256 + m /\ Node(f) = 0 /\ Key(f) = m
      /\ f.id \in 0 .. 2^29 - 1
  BY <1>3, <1>4, <1>5, MotorFrame, SMT
<1> HIDE DEF d
<1>7. Extra(f) \div 16384 = r.status /\ (Extra(f) \div 256) % 64 = FaultBits(r)
  <2>1. m \in Nat /\ m < 256
    BY MotorIds, SMT DEF MotorId
  <2>2. Extra(f) = (r.status * 64 + FaultBits(r)) * 256 + m
    BY <1>3, <1>6, SMT
  <2> QED
    BY <2>1, <2>2, StatusFacts, ExtraFields, SMT
<1>8. WireTyped(f)
  <2>1. DataTyped(d)
    BY <1>2, SMT DEF DataTyped
  <2> QED
    BY <1>6, <2>1, SMT DEF WireTyped
<1>9. /\ g.power = IF r.status = 2 THEN "STATE_ENABLE" ELSE "STATE_DISABLE"
      /\ g.error_flags = FaultBits(r) /\ g.temperature = r.temp
  BY <1>2, <1>6, <1>7, Pow, SMT DEF Reading
<1>10. /\ g.position = Uint16ToFloat(r.pos, -lim.position, lim.position)
       /\ g.velocity = Uint16ToFloat(r.vel, -lim.velocity, lim.velocity)
       /\ g.torque = Uint16ToFloat(r.torque, -lim.torque, lim.torque)
  BY <1>2, <1>6, SMT DEF Reading
<1>11. lim.position \in Nat /\ lim.velocity \in Nat /\ lim.torque \in Nat
  BY LimitsPositive, SMT
<1> HIDE DEF g, lim
<1>12. /\ IsCentred(g.position, r.pos, lim.position)
       /\ IsCentred(g.velocity, r.vel, lim.velocity)
       /\ IsCentred(g.torque, r.torque, lim.torque)
  <2>1. r.pos \in Nat /\ r.vel \in Nat /\ r.torque \in Nat
    BY <1>1, InU16, SMT
  <2> QED
    BY <1>10, <1>11, <2>1, Centred, SMT
<1>13. Tells(m, r, g)
  <2>1. g.power = "STATE_ENABLE" <=> r.status = 2
    BY <1>9, SMT
  <2>2. GetErrorString(g.error_flags) = r.faults
    BY <1>9, FaultsDecoded, SMT
  <2> QED
    BY <1>9, <1>12, <2>1, <2>2, SMT DEF Tells, lim, IsCentred
<1>14. ReadingTyped(g)
  BY <1>1, <1>9, StatusFacts, SMT DEF ReadingTyped
<1> QED
  BY <1>6, <1>8, <1>13, <1>14, Zenon DEF g

(* A frame that is not feedback: a getter takes nothing from it.            *)
NotFeedback(f) ==
  /\ ~f.eff \/ Comm(f) # COMM_FEEDBACK
  /\ ~f.eff \/ Node(f) = 0
  /\ f # Silence /\ WireTyped(f)

Ones == BigEndian(<<1, 1, 1, 1>>)

LEMMA OnesTyped == DOMAIN Ones = 0 .. 7 /\ DataTyped(Ones)
<1>1. 1 \in U16
  BY InU16, SMT
<1>2. DOMAIN Ones = 0 .. 7 /\ \A i \in 0 .. 7 : Ones[i] \in Byte
  BY <1>1, BigEndianFacts, SMT DEF Ones
<1> QED
  BY <1>2, SMT DEF DataTyped

LEMMA GetParamRead ==
  ASSUME NEW m \in Motors, NEW f, f = FromMotor(m, 17, 0, <<1, 1, 1, 1>>)
  PROVE  NotFeedback(f) /\ Key(f) = m
<1>1. /\ f.eff /\ f.eff \in BOOLEAN /\ f.data = Ones /\ f # Silence
      /\ Comm(f) = 17 /\ Node(f) = 0 /\ Key(f) = m /\ f.id \in 0 .. 2^29 - 1
  BY MotorFrame, SMT DEF Ones
<1> QED
  BY <1>1, OnesTyped, Codes, SMT DEF WireTyped, NotFeedback

LEMMA StandardFrame ==
  ASSUME NEW m \in Motors, NEW e, e = FromMotor(m, 0, 0, <<1, 1, 1, 1>>)
  PROVE  e.data = Ones /\ e.id \in 0 .. 2^29 - 1 /\ Key(e) = m
<1>1. /\ e.eff /\ e.eff \in BOOLEAN /\ e.data = Ones /\ e # Silence
      /\ Comm(e) = 0 /\ Node(e) = 0 /\ Key(e) = m /\ e.id \in 0 .. 2^29 - 1
  BY MotorFrame, SMT DEF Ones
<1> QED
  BY <1>1, Zenon

LEMMA StandardRead ==
  ASSUME NEW m \in Motors, NEW e, e = FromMotor(m, 0, 0, <<1, 1, 1, 1>>),
         NEW f, f = [e EXCEPT !.eff = FALSE]
  PROVE  NotFeedback(f) /\ Key(f) = m
<1>1. e.data = Ones /\ e.id \in 0 .. 2^29 - 1 /\ Key(e) = m
  BY StandardFrame, Zenon
<1>2. f.data = e.data /\ f.id = e.id /\ f.eff = FALSE
  BY SMT DEF FromMotor
<1>3. f # Silence
  <2>1. 0 \in DOMAIN f.data
    BY <1>1, <1>2, OnesTyped, SMT
  <2> QED
    BY <2>1, SMT DEF Silence
<1> QED
  BY <1>1, <1>2, <1>3, OnesTyped, SMT DEF WireTyped, NotFeedback, Key

-------------------------------------------------------------------------------
(* The inductive invariant.  On the bus is a frame that would be understood *)
(* (Fits), and that tells what its motor reported (MotorSays); in a slot is *)
(* a frame that tells what the newest frame of its motor reported, or none  *)
(* that is feedback (Stored).  Without this the properties, which look at   *)
(* what has been delivered and decoded, are not inductive.                  *)
IsFeedback(f) == f.eff /\ Comm(f) = COMM_FEEDBACK

(* Frame f is feedback that says r of motor m.                              *)
Carries(m, r, f) ==
  IsFeedback(f) /\ Tells(m, r, Reading(m, f)) /\ ReadingTyped(Reading(m, f))

MotorSays(node, meaning, f) ==
  /\ node \in Motors /\ Key(f) = node
  /\ \/ NotFeedback(f) /\ meaning = Nothing
     \/ \E r \in Reports : meaning = Meant("report", <<r>>) /\ Carries(node, r, f)

SaidTyped == said.by \in {"host", "motor"} /\ said.node \in (Motors \cup {0})

Understood(m) ==
  IF said.by = "host" /\ said.node = m THEN Agrees(m, said.meaning, heard[m]) ELSE heard[m] = Nothing

OnTheBus ==
  IF wire = Silence
  THEN \A m \in Motors : Understood(m)
  ELSE /\ WireTyped(wire)
       /\ Fits(said.by, said.node, said.meaning, wire)
       /\ said.by = "motor" => MotorSays(said.node, said.meaning, wire)

Stored(m) ==
  \/ newest[m] = <<>> /\ ~IsFeedback(slot[m])
  \/ \E r \in Reports : newest[m] = <<r>> /\ Carries(m, r, slot[m])

Decoded(m) ==
  /\ ReadingTyped(readings[m])
  /\ told[m] = <<>> \/ \E r \in Reports : told[m] = <<r>> /\ Tells(m, r, readings[m])

FeedbackKnown ==
  /\ slot = [m \in Motors |-> slot[m]] /\ newest = [m \in Motors |-> newest[m]]
  /\ readings = [m \in Motors |-> readings[m]] /\ told = [m \in Motors |-> told[m]]
  /\ \A m \in Motors : Stored(m) /\ Decoded(m)

IInv == SaidTyped /\ OnTheBus /\ FeedbackKnown

LEMMA InitIInv == Init => IInv
<1> SUFFICES ASSUME Init
             PROVE  IInv
  OBVIOUS
<1>1. SaidTyped
  BY SMT DEF Init, SaidTyped
<1>2. said.node = 0 /\ wire = Silence /\ \A m \in Motors : heard[m] = Nothing
  BY SMT DEF Init
<1>3. \A m \in Motors : Understood(m)
  <2>1. ASSUME NEW m \in Motors
        PROVE  m # 0
    BY MotorIds, SMT DEF MotorId
  <2> QED
    BY <1>2, <2>1, Zenon DEF Understood
<1>4. OnTheBus
  BY <1>2, <1>3, SMT DEF OnTheBus
<1>5. FeedbackKnown
  <2>1. 0 \in U16
    BY InU16, SMT
  <2>2. /\ slot = [m \in Motors |-> slot[m]] /\ newest = [m \in Motors |-> newest[m]]
        /\ readings = [m \in Motors |-> readings[m]] /\ told = [m \in Motors |-> told[m]]
    BY SMT DEF Init
  <2>3. ASSUME NEW m \in Motors
        PROVE  Stored(m) /\ Decoded(m)
    <3>1. slot[m].eff = FALSE /\ newest[m] = <<>> /\ told[m] = <<>>
      BY SMT DEF Init, ZeroFrame
    <3>2. readings[m].error_flags = 0 /\ readings[m].temperature = 0
      BY SMT DEF Init
    <3> QED
      BY <2>1, <3>1, <3>2, SMT DEF Stored, Decoded, IsFeedback, ReadingTyped
  <2> QED
    BY <2>2, <2>3, Zenon DEF FeedbackKnown
<1> QED
  BY <1>1, <1>4, <1>5 DEF IInv

(* A step that puts a frame on the bus keeps the invariant when the frame   *)
(* is one the lemmas above are about.                                       *)
LEMMA SpeakIInv ==
  ASSUME IInv, NEW by \in {"host", "motor"}, NEW m \in Motors, NEW meaning, NEW f,
         Speak(by, m, meaning, f), f # Silence, WireTyped(f), Fits(by, m, meaning, f),
         by = "motor" => MotorSays(m, meaning, f)
  PROVE  IInv'
<1>1. wire' = f /\ said' = [by |-> by, node |-> m, meaning |-> meaning]
      /\ UNCHANGED <<slot, readings, newest, told>>
  BY SMT DEF Speak, feedback
<1>2. said'.by = by /\ said'.node = m /\ said'.meaning = meaning
  BY <1>1, SMT
<1>3. SaidTyped'
  BY <1>2, SMT DEF SaidTyped
<1>4. OnTheBus'
  BY <1>1, <1>2, Zenon DEF OnTheBus
<1>5. FeedbackKnown'
  BY <1>1, Zenon DEF IInv, FeedbackKnown, Stored, Decoded
<1> QED
  BY <1>3, <1>4, <1>5 DEF IInv

LEMMA HostIInv ==
  ASSUME IInv, NEW m \in Motors, NEW op, NEW args, NEW f, Command(m, op, args, f),
         NEW meaning, meaning = Meant(op, args), Proper(m, meaning, f)
  PROVE  IInv'
<1>1. Speak("host", m, meaning, f)
  BY SMT DEF Command
<1>2. f # Silence /\ WireTyped(f) /\ Fits("host", m, meaning, f)
  BY SMT DEF Proper
<1> QED
  BY <1>1, <1>2, SpeakIInv, SMT

LEMMA SetMitCmdIInv ==
  ASSUME IInv, NEW m \in Motors, SetMitCmd(m)
  PROVE  IInv'
<1>1. PICK args \in MitArgs :
        LET lim == GetLimits(m)
            pos == FloatToUint16(args[1], -lim.position, lim.position)
            vel == FloatToUint16(args[2], -lim.velocity, lim.velocity)
            toq == FloatToUint16(args[3], -lim.torque, lim.torque)
            kp  == FloatToUint16(args[4], 0, lim.kp)
            kd  == FloatToUint16(args[5], 0, lim.kd)
        IN  Command(m, "mit", args,
                    Frame(m, COMM_MIT_CONTROL, toq, BigEndian(<<pos, vel, kp, kd>>)))
  BY Zenon DEF SetMitCmd
<1> DEFINE lim == GetLimits(m)
           pos == FloatToUint16(args[1], -lim.position, lim.position)
           vel == FloatToUint16(args[2], -lim.velocity, lim.velocity)
           toq == FloatToUint16(args[3], -lim.torque, lim.torque)
           kp  == FloatToUint16(args[4], 0, lim.kp)
           kd  == FloatToUint16(args[5], 0, lim.kd)
           f == Frame(m, COMM_MIT_CONTROL, toq, BigEndian(<<pos, vel, kp, kd>>))
           meaning == Meant("mit", args)
<1>2. Command(m, "mit", args, f)
  BY <1>1
<1>3. Proper(m, meaning, f)
  BY MitProper
<1> HIDE DEF f, meaning
<1>4. meaning = Meant("mit", args)
  BY DEF meaning
<1> QED
  BY <1>2, <1>3, <1>4, HostIInv, Zenon

LEMMA SetParamIInv ==
  ASSUME IInv, NEW m \in Motors,
         SetVelocity(m) \/ SetPosition(m) \/ SetEffort(m) \/ SetMode(m)
  PROVE  IInv'
<1>1. CASE SetVelocity(m)
  <2>1. PICK v \in Setpoints :
          Command(m, "velocity", <<v>>, Frame(m, COMM_SET_PARAM, MASTER_ID, Param(PARAM_SPD_REF, v)))
    BY <1>1, Zenon DEF SetVelocity, WriteSetParam
  <2>2. Proper(m, Meant("velocity", <<v>>), Frame(m, COMM_SET_PARAM, MASTER_ID, Param(PARAM_SPD_REF, v)))
    BY VelocityProper, Zenon
  <2> QED
    BY <2>1, <2>2, HostIInv, Zenon
<1>2. CASE SetPosition(m)
  <2>1. PICK v \in Setpoints :
          Command(m, "position", <<v>>, Frame(m, COMM_SET_PARAM, MASTER_ID, Param(PARAM_LOC_REF, v)))
    BY <1>2, Zenon DEF SetPosition, WriteSetParam
  <2>2. Proper(m, Meant("position", <<v>>), Frame(m, COMM_SET_PARAM, MASTER_ID, Param(PARAM_LOC_REF, v)))
    BY PositionProper, Zenon
  <2> QED
    BY <2>1, <2>2, HostIInv, Zenon
<1>3. CASE SetEffort(m)
  <2>1. PICK v \in Setpoints :
          Command(m, "effort", <<v>>, Frame(m, COMM_SET_PARAM, MASTER_ID, Param(PARAM_IQ_REF, v)))
    BY <1>3, Zenon DEF SetEffort, WriteSetParam
  <2>2. Proper(m, Meant("effort", <<v>>), Frame(m, COMM_SET_PARAM, MASTER_ID, Param(PARAM_IQ_REF, v)))
    BY EffortProper, Zenon
  <2> QED
    BY <2>1, <2>2, HostIInv, Zenon
<1>4. CASE SetMode(m)
  <2>1. PICK mode \in Modes :
          /\ mode < Len(kModeMap)
          /\ Command(m, "mode", <<ActuatorMode[mode + 1]>>,
                     Frame(m, COMM_SET_PARAM, MASTER_ID, Param(PARAM_RUN_MODE, kModeMap[mode + 1])))
    BY <1>4, Zenon DEF SetMode, WriteSetParam
  <2>2. Proper(m, Meant("mode", <<ActuatorMode[mode + 1]>>),
               Frame(m, COMM_SET_PARAM, MASTER_ID, Param(PARAM_RUN_MODE, kModeMap[mode + 1])))
    BY <2>1, ModeProper, Zenon
  <2> QED
    BY <2>1, <2>2, HostIInv, Zenon
<1> QED
  BY <1>1, <1>2, <1>3, <1>4

LEMMA PlainIInv ==
  ASSUME IInv, NEW m \in Motors,
         RequestState(m) \/ ClearError(m) \/ SetHomingPosition(m) \/ SaveConfig(m)
  PROVE  IInv'
<1>1. CASE Command(m, "enable", <<>>, Frame(m, COMM_ENABLE, MASTER_ID, Zeros))
  BY <1>1, EnableProper, HostIInv, Zenon
<1>2. CASE Command(m, "disable", <<>>, Frame(m, COMM_STOP, MASTER_ID, Zeros))
  BY <1>2, DisableProper, HostIInv, Zenon
<1>3. CASE ClearError(m)
  <2>1. Proper(m, Meant("clear", <<>>), Frame(m, COMM_STOP, MASTER_ID, First(1)))
    BY ClearProper, Zenon
  <2> QED
    BY <1>3, <2>1, HostIInv, Zenon DEF ClearError
<1>4. CASE SetHomingPosition(m)
  <2>1. Proper(m, Meant("set_zero", <<>>), Frame(m, COMM_SET_ZERO, MASTER_ID, First(1)))
    BY SetZeroProper, Zenon
  <2> QED
    BY <1>4, <2>1, HostIInv, Zenon DEF SetHomingPosition
<1>5. CASE SaveConfig(m)
  BY <1>5, SaveProper, HostIInv, Zenon DEF SaveConfig
<1> QED
  BY <1>1, <1>2, <1>3, <1>4, <1>5, Zenon DEF RequestState

LEMMA ReportIInv ==
  ASSUME IInv, NEW m \in Motors, Report(m)
  PROVE  IInv'
<1>1. PICK r \in Reports :
        Speak("motor", m, Meant("report", <<r>>),
              FromMotor(m, COMM_FEEDBACK, StatusBits(r), <<r.pos, r.vel, r.torque, r.temp>>))
  BY Zenon DEF Report
<1> DEFINE f == FromMotor(m, COMM_FEEDBACK, StatusBits(r), <<r.pos, r.vel, r.torque, r.temp>>)
           meaning == Meant("report", <<r>>)
<1>2. /\ Tells(m, r, Reading(m, f)) /\ ReadingTyped(Reading(m, f))
      /\ f.eff /\ Comm(f) = COMM_FEEDBACK /\ Key(f) = m /\ Node(f) = 0
      /\ f # Silence /\ WireTyped(f)
  BY ReportRead, Zenon
<1>3. Speak("motor", m, meaning, f)
  BY <1>1
<1>4. meaning = Meant("report", <<r>>)
  OBVIOUS
<1> HIDE DEF f, meaning
<1>5. Fits("motor", m, meaning, f)
  BY <1>2, MotorFits, Zenon
<1>6. MotorSays(m, meaning, f)
  BY <1>2, <1>4, Zenon DEF MotorSays, Carries, IsFeedback
<1> QED
  BY <1>2, <1>3, <1>5, <1>6, SpeakIInv, SMT

LEMMA OtherFrameIInv ==
  ASSUME IInv, NEW m \in Motors, OtherFrame(m)
  PROVE  IInv'
<1>1. ASSUME NEW f, NotFeedback(f), Key(f) = m, Speak("motor", m, Nothing, f)
      PROVE  IInv'
  <2>1. Fits("motor", m, Nothing, f)
    BY <1>1, MotorFits, Zenon DEF NotFeedback
  <2>2. MotorSays(m, Nothing, f) /\ f # Silence /\ WireTyped(f)
    BY <1>1, Zenon DEF MotorSays, NotFeedback
  <2> QED
    BY <1>1, <2>1, <2>2, SpeakIInv, SMT
<1>2. CASE Speak("motor", m, Nothing, FromMotor(m, 17, 0, <<1, 1, 1, 1>>))
  BY <1>1, <1>2, GetParamRead, Zenon
<1>3. CASE Speak("motor", m, Nothing, [FromMotor(m, 0, 0, <<1, 1, 1, 1>>) EXCEPT !.eff = FALSE])
  <2>1. PICK e : e = FromMotor(m, 0, 0, <<1, 1, 1, 1>>)
    OBVIOUS
  <2>2. PICK f : f = [e EXCEPT !.eff = FALSE]
    OBVIOUS
  <2>3. NotFeedback(f) /\ Key(f) = m
    BY <2>1, <2>2, StandardRead, Zenon
  <2> QED
    BY <1>1, <1>3, <2>1, <2>2, <2>3, Zenon
<1> QED
  BY <1>2, <1>3, Zenon DEF OtherFrame

LEMMA SetMitParamIInv ==
  ASSUME IInv, NEW m \in Motors, SetMitParam(m)
  PROVE  IInv'
<1>1. UNCHANGED <<said, wire, heard, slot, readings, newest, told>>
  BY Zenon DEF SetMitParam, feedback
<1>2. SaidTyped' /\ OnTheBus'
  BY <1>1, Zenon DEF IInv, SaidTyped, OnTheBus, Understood
<1>3. FeedbackKnown'
  BY <1>1, Zenon DEF IInv, FeedbackKnown, Stored, Decoded
<1> QED
  BY <1>2, <1>3 DEF IInv

LEMMA StaysAFunction ==
  ASSUME NEW f, f = [n \in Motors |-> f[n]], NEW m, NEW v,
         NEW g, g = [f EXCEPT ![m] = v]
  PROVE  g = [n \in Motors |-> g[n]]
  BY SMT

(* The callback puts the newest frame into the slot of the motor it is from.*)
LEMMA ReceiveKnown ==
  ASSUME IInv, wire # Silence, said.by = "motor", HostReceives
  PROVE  FeedbackKnown'
<1>0. MotorSays(said.node, said.meaning, wire)
  BY Zenon DEF IInv, OnTheBus
<1>1. PICK node \in Motors : node = said.node /\ Key(wire) = node
  BY <1>0, Zenon DEF MotorSays
<1>2. MotorSays(node, said.meaning, wire)
  BY <1>0, <1>1
<1>3. /\ slot = [m \in Motors |-> slot[m]] /\ newest = [m \in Motors |-> newest[m]]
      /\ readings = [m \in Motors |-> readings[m]] /\ told = [m \in Motors |-> told[m]]
      /\ \A m \in Motors : Stored(m) /\ Decoded(m)
  BY Zenon DEF IInv, FeedbackKnown
<1>4. /\ slot' = [m \in Motors |-> IF Key(wire) = m THEN wire ELSE slot[m]]
      /\ newest' = [newest EXCEPT ![node] = IF said.meaning.op = "report"
                                            THEN said.meaning.args ELSE <<>>]
      /\ readings' = readings /\ told' = told
  BY <1>1, Zenon DEF HostReceives
<1>5. /\ slot'[node] = wire
      /\ newest'[node] = IF said.meaning.op = "report" THEN said.meaning.args ELSE <<>>
  BY <1>1, <1>3, <1>4, SMT
<1>6. Stored(node)'
  <2>1. \/ newest'[node] = <<>> /\ ~IsFeedback(wire)
        \/ \E r \in Reports : newest'[node] = <<r>> /\ Carries(node, r, wire)
    <3>1. CASE NotFeedback(wire) /\ said.meaning = Nothing
      <4>1. said.meaning.op # "report"
        BY <3>1, SMT DEF Nothing, Meant
      <4> QED
        BY <1>5, <3>1, <4>1, Zenon DEF NotFeedback, IsFeedback
    <3>2. ASSUME NEW r \in Reports, said.meaning = Meant("report", <<r>>), Carries(node, r, wire)
          PROVE  newest'[node] = <<r>> /\ Carries(node, r, wire)
      <4>1. said.meaning.op = "report" /\ said.meaning.args = <<r>>
        BY <3>2, SMT DEF Meant
      <4> QED
        BY <1>5, <3>2, <4>1, Zenon
    <3> QED
      BY <1>2, <3>1, <3>2, Zenon DEF MotorSays
  <2> QED
    BY <1>5, <2>1, Zenon DEF Stored
<1>7. \A m \in Motors : m # node => slot'[m] = slot[m] /\ newest'[m] = newest[m]
  BY <1>1, <1>3, <1>4, SMT
<1>8. \A m \in Motors : m # node => Stored(m)'
  BY <1>3, <1>7, Zenon DEF Stored
<1>9. \A m \in Motors : Decoded(m)'
  BY <1>3, <1>4, Zenon DEF Decoded
<1>10. slot' = [m \in Motors |-> slot'[m]] /\ newest' = [m \in Motors |-> newest'[m]]
  <2>1. slot' = [m \in Motors |-> slot'[m]]
    BY <1>4, SMT
  <2> QED
    BY <1>3, <1>4, <2>1, StaysAFunction, Zenon
<1> QED
  BY <1>3, <1>4, <1>6, <1>8, <1>9, <1>10, Zenon DEF FeedbackKnown

LEMMA DeliverIInv ==
  ASSUME IInv, Deliver
  PROVE  IInv'
<1>1. wire # Silence /\ wire' = Silence /\ said' = said
      /\ heard' = [m \in Motors |-> Hear(m, wire)]
  BY Zenon DEF Deliver
<1>2. SaidTyped'
  BY <1>1, Zenon DEF IInv, SaidTyped
<1>3. OnTheBus'
  <2>1. Fits(said.by, said.node, said.meaning, wire)
    BY <1>1, Zenon DEF IInv, OnTheBus
  <2>2. \A m \in Motors : heard'[m] = Hear(m, wire)
    BY <1>1, Zenon
  <2>3. \A m \in Motors : Understood(m)'
    BY <1>1, <2>1, <2>2, Zenon DEF Fits, Understood
  <2> QED
    BY <1>1, <2>3, Zenon DEF OnTheBus
<1>4. FeedbackKnown'
  <2>1. CASE UNCHANGED feedback
    BY <2>1, Zenon DEF IInv, FeedbackKnown, Stored, Decoded, feedback
  <2>2. CASE said.by = "motor" /\ HostReceives
    BY <1>1, <2>2, ReceiveKnown
  <2> QED
    BY <2>1, <2>2, Zenon DEF Deliver
<1> QED
  BY <1>2, <1>3, <1>4 DEF IInv

(* A getter takes from the slot what the newest frame reports, or nothing.  *)
LEMMA GetIInv ==
  ASSUME IInv, NEW m \in Motors, Get(m)
  PROVE  IInv'
<1>1. UNCHANGED <<said, wire, heard, slot, newest>>
  BY Zenon DEF Get
<1>2. SaidTyped' /\ OnTheBus'
  BY <1>1, Zenon DEF IInv, SaidTyped, OnTheBus, Understood
<1>3. /\ slot = [n \in Motors |-> slot[n]] /\ newest = [n \in Motors |-> newest[n]]
      /\ readings = [n \in Motors |-> readings[n]] /\ told = [n \in Motors |-> told[n]]
      /\ \A n \in Motors : Stored(n) /\ Decoded(n)
  BY Zenon DEF IInv, FeedbackKnown
<1>4. /\ readings' = [readings EXCEPT ![m] = ParseFeedback(m, slot[m])]
      /\ told' = [told EXCEPT ![m] = IF newest[m] = <<>> THEN @ ELSE newest[m]]
  BY Zenon DEF Get
<1>5. /\ readings'[m] = ParseFeedback(m, slot[m])
      /\ told'[m] = IF newest[m] = <<>> THEN told[m] ELSE newest[m]
  BY <1>3, <1>4, SMT
<1>6. \A n \in Motors : n # m => readings'[n] = readings[n] /\ told'[n] = told[n]
  BY <1>3, <1>4, SMT
<1>7. Decoded(m)'
  <2>1. CASE newest[m] = <<>> /\ ~IsFeedback(slot[m])
    <3>1. readings'[m] = readings[m] /\ told'[m] = told[m]
      BY <1>5, <2>1, Zenon DEF ParseFeedback, IsFeedback
    <3> QED
      BY <1>3, <3>1, Zenon DEF Decoded
  <2>2. ASSUME NEW r \in Reports, newest[m] = <<r>>, Carries(m, r, slot[m])
        PROVE  Decoded(m)'
    <3>1. <<r>> # <<>>
      BY SMT
    <3>2. readings'[m] = Reading(m, slot[m]) /\ told'[m] = <<r>>
      BY <1>5, <2>2, <3>1, Zenon DEF ParseFeedback, Carries, IsFeedback
    <3> QED
      BY <2>2, <3>2, Zenon DEF Decoded, Carries
  <2> QED
    BY <1>3, <2>1, <2>2, Zenon DEF Stored
<1>8. \A n \in Motors : n # m => Decoded(n)'
  BY <1>3, <1>6, Zenon DEF Decoded
<1>9. \A n \in Motors : Stored(n)'
  BY <1>1, <1>3, Zenon DEF Stored
<1>10. readings' = [n \in Motors |-> readings'[n]] /\ told' = [n \in Motors |-> told'[n]]
  BY <1>3, <1>4, StaysAFunction, Zenon
<1>11. FeedbackKnown'
  BY <1>1, <1>3, <1>7, <1>8, <1>9, <1>10, Zenon DEF FeedbackKnown
<1> QED
  BY <1>2, <1>11 DEF IInv

LEMMA NextIInv == IInv /\ [Next]_vars => IInv'
<1> SUFFICES ASSUME IInv, [Next]_vars
             PROVE  IInv'
  OBVIOUS
<1>1. CASE UNCHANGED vars
  <2>1. UNCHANGED <<said, wire, heard, slot, readings, newest, told>>
    BY <1>1, Zenon DEF vars, feedback
  <2>2. SaidTyped' /\ OnTheBus'
    BY <2>1, Zenon DEF IInv, SaidTyped, OnTheBus, Understood
  <2>3. FeedbackKnown'
    BY <2>1, Zenon DEF IInv, FeedbackKnown, Stored, Decoded
  <2> QED
    BY <2>2, <2>3 DEF IInv
<1>2. ASSUME NEW m \in Motors,
             \/ SetMitCmd(m) \/ SetVelocity(m) \/ SetPosition(m) \/ SetEffort(m) \/ SetMode(m)
             \/ SetMitParam(m) \/ RequestState(m) \/ ClearError(m) \/ SetHomingPosition(m)
             \/ SaveConfig(m) \/ Report(m) \/ OtherFrame(m) \/ Get(m)
      PROVE  IInv'
  BY <1>2, SetMitCmdIInv, SetParamIInv, SetMitParamIInv, PlainIInv, ReportIInv, OtherFrameIInv,
     GetIInv, Zenon
<1>3. CASE Deliver
  BY <1>3, DeliverIInv
<1> QED
  BY <1>1, <1>2, <1>3, Zenon DEF Next

LEMMA Inductive == Spec => []IInv
<1> QED
  BY InitIInv, NextIInv, PTL DEF Spec

-------------------------------------------------------------------------------
(* Whatever the arguments, the frames of the host and of its motors have    *)
(* identifiers of 29 bits and payloads of bytes, and the decoded fault bits *)
(* and temperatures are in range.                                           *)
THEOREM TypeCorrect == Spec => []TypeOK
<1>1. IInv => TypeOK
  <2> SUFFICES ASSUME IInv
               PROVE  TypeOK
    OBVIOUS
  <2>1. WireTyped(wire)
    <3>1. CASE wire = Silence
      <4>1. wire.eff = FALSE /\ wire.id = 0 /\ wire.data = <<>>
        BY <3>1, SMT DEF Silence
      <4>2. wire.eff \in BOOLEAN
        BY <4>1, Zenon
      <4>3. wire.id \in 0 .. 2^29 - 1
        BY <4>1, Pow, SMT
      <4>4. DataTyped(wire.data)
        BY <4>1, SMT DEF DataTyped
      <4> QED
        BY <4>2, <4>3, <4>4, Zenon DEF WireTyped
    <3>2. CASE wire # Silence
      BY <3>2, Zenon DEF IInv, OnTheBus
    <3> QED
      BY <3>1, <3>2
  <2>2. SaidTyped /\ \A m \in Motors : ReadingTyped(readings[m])
    BY Zenon DEF IInv, FeedbackKnown, Stored, Decoded
  <2> QED
    BY <2>1, <2>2, SMT DEF TypeOK, WireTyped, DataTyped, SaidTyped, ReadingTyped
<1> QED
  BY <1>1, Inductive, PTL

(* A delivered command is what was meant, for the motor it was meant for.   *)
THEOREM EveryCommandUnderstood == Spec => []CommandUnderstood
<1>1. IInv => CommandUnderstood
  BY Zenon DEF IInv, OnTheBus, Understood, CommandUnderstood
<1> QED
  BY <1>1, Inductive, PTL

(* The getters of a motor tell the report that was its newest frame when    *)
(* one of them was last called, or go on telling the one before; none tells *)
(* another motor's, nor what a frame of another type holds.                 *)
THEOREM EveryReportUnderstood == Spec => []FeedbackUnderstood
<1>1. IInv => FeedbackUnderstood
  <2> SUFFICES ASSUME IInv, NEW m \in Motors, NEW i \in DOMAIN told[m]
               PROVE  Tells(m, told[m][i], readings[m])
    BY Zenon DEF FeedbackUnderstood
  <2>1. PICK r \in Reports : told[m] = <<r>> /\ Tells(m, r, readings[m])
    BY SMT DEF IInv, FeedbackKnown, Decoded
  <2>2. i = 1
    BY <2>1, SMT
  <2> QED
    BY <2>1, <2>2, SMT
<1> QED
  BY <1>1, Inductive, PTL
===============================================================================
