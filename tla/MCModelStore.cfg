SPECIFICATION Spec
SYMMETRY Interchangeable
CONSTANTS
  Tasks = {t1, t2}
  Models = {zh, en}
  Files = {melo}
  Capabilities = {ttsZh, ttsEn}
  zh = zh
  en = en
  ttsZh = ttsZh
  ttsEn = ttsEn
  melo = melo
  CapOf <- MCCapOf
  Needs <- MCNeeds
  Size <- MCSize
  Urls = 2
  Stale = {2}
  None = None
  Default <- MCDefault
  MaxStarts = 2
  MaxRestarts = 1
INVARIANT SelectionStaysOnDisk
 
CHECK_DEADLOCK FALSE
