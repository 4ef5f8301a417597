CONSTANTS
  news = news
  blog = blog
  Urls <- MCUrls
  Stream = Stream
  Gateway = Gateway
  Updater = Updater
  Commanders <- MCStream
  MaxItems = 2
  MaxRows = 2
  MaxStops = 1
  NoUrl = NoUrl
SPECIFICATION FairSpec
PROPERTIES AnnouncedOnce RemovedStaysRemoved CatchesUp
