SPECIFICATION Spec
CONSTANTS
  a = a
  b = b
  coin1 = coin1
  coin2 = coin2
  note1 = note1
  note2 = note2
  Party = {a, b}
  Utxo = {coin1, coin2, note1, note2}
  Value <- MCValue
  Amount = 1500
  Session = {1, 2}
  Fee <- MCFee
  Dust = 546
  MaxLost = 1
INVARIANTS TypeOK SignedByAll OneTransaction FeeIsAgreed EachLossPaysOnce
CHECK_DEADLOCK FALSE
