CONSTANTS
  bin = bin  conf = conf  configs = configs  own = own
  alt = alt  sub = sub  readme = readme  zip = zip
  binTmp = binTmp  confTmp = confTmp  altTmp = altTmp
  subTmp = subTmp  readmeTmp = readmeTmp  zipTmp = zipTmp
  v1 = v1  v2 = v2
  Files = {bin, conf, configs, own, alt, sub, readme, zip,
           binTmp, confTmp, altTmp, subTmp, readmeTmp, zipTmp}
  TmpOf <- MCTmpOf
  Order <- MCOrder
  Configs = configs
  Artifacts = {zip}
  Runnable = {bin, alt, sub, readme}
  Readme = {readme}
  Named = {sub}
  Written = {conf, alt, confTmp}
  Data = {v1, v2}
  Direct = {v1}
  Archives <- MCArchives
  Keep = 1
  MaxStamps = 4
  MaxEdits = 1
  MaxBreaks = 1
  None = None  Torn = Torn  Any = Any
SPECIFICATION Spec
INVARIANTS IInv GivesBack ChosenBest
PROPERTIES NeverLost NothingDeleted
CHECK_DEADLOCK FALSE
