SPECIFICATION Spec
CONSTANTS
  Ctxs = {c1, c2}
  Ids = {o1, o2, o3, o4, o5}
  NULL = NULL
  INVALID = INVALID
  Windows = TRUE
  Asked = {"LIBUSB", "WINUSB", "other"}
  SwitchWhen = "blank"
SYMMETRY MCSymmetry
INVARIANT TypeOK
INVARIANT OwnObjects
INVARIANT ParentOutlives
INVARIANT NothingLost
PROPERTY LockSpec
